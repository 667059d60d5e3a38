------------------------- MODULE UDPForwarderProofs -------------------------
(***************************************************************************)
(* Who owns an upstream socket, for any number of clients and sessions and *)
(* any interleaving of run, the reaper, the read loops and Serve.          *)
(***************************************************************************)
EXTENDS UDPForwarder, FiniteSetTheorems, TLAPS

(* The types the argument needs (all but the gauge and the history).       *)
OwnersTyped ==
    /\ sessions \in [Clients -> Sids \cup {None}]
    /\ sock \in [Sids -> {"open", "closed"}]
    /\ key \in [Sids -> Clients \cup {None}]
    /\ loop \in [Sids -> {"off", "read", "drop", "close"}]
    /\ hand \in [Threads -> Sids \cup {None}]
    /\ stale \subseteq Clients
    /\ servKeys \subseteq Clients

(* A thread holds a session only between the two halves of dropSession, so *)
(* it never unlinks one while it holds another.                            *)
HandsMatchPc ==
    /\ hand["main"] # None => mainPc = "close"
    /\ hand["reaper"] # None => reaperPc = "close"
    /\ hand["serve"] # None => servePc = "close"
    /\ \A sid \in Sids : hand[sid] # None => loop[sid] = "close"

(* run knows its client from the packet on; until it inserts, the client   *)
(* has no session, because nobody else inserts, and the new session has no *)
(* read loop.                                                              *)
MainKnowsSession ==
    /\ mainPc \notin {"read", "exit"} => mainClient \in Clients
    /\ mainPc \in {"dial", "insert"} => sessions[mainClient] = None
    /\ mainPc = "insert" => mainSid \in Sids /\ loop[mainSid] = "off"

LoopsKnowClients == \A sid \in Sids : loop[sid] # "off" => key[sid] \in Clients

(* When closeAllSessions has read the map, run has returned, and whatever  *)
(* is left in the map is on the list.                                      *)
ServeListsAll ==
    /\ servePc \in {"drop", "close", "returned"} =>
          mainPc = "exit" /\ Live \subseteq servKeys
    /\ servePc = "returned" => servKeys = {}

Ownership == NoSocketLeaked /\ NoSessionHeldTwice

Bookkeeping ==
    /\ OwnersTyped
    /\ HandsMatchPc
    /\ MainKnowsSession
    /\ LoopsKnowClients
    /\ ServeListsAll

UDPInv == Bookkeeping /\ Ownership

-----------------------------------------------------------------------------
(* The two halves of dropSession.                                          *)

(* run, the reaper, Serve and the read loops are different goroutines.     *)
LEMMA ThreadsDistinct ==
    /\ "main" \in Threads /\ "reaper" \in Threads /\ "serve" \in Threads
    /\ Sids \subseteq Threads
    /\ "main" \notin Sids /\ "reaper" \notin Sids /\ "serve" \notin Sids
    /\ None \notin Sids
BY UDPAssumption DEF Threads

(* Unlinking moves a session from the map to a hand that was empty.        *)
LEMMA UnlinkOwnership ==
    ASSUME OwnersTyped, Ownership, NEW t \in Threads, NEW c \in Clients,
           hand[t] = None, Unlink(t, c), UNCHANGED sock, Fresh' = Fresh
    PROVE  Ownership'
<1> USE DEF Ownership, NoSessionHeldTwice
<1>0. PICK moved \in Sids \cup {None} : moved = sessions[c]
  BY DEF OwnersTyped
<1>2. None \notin Sids
  BY UDPAssumption
<1>3. /\ \A d \in Clients : sessions'[d] = IF d = c THEN None ELSE sessions[d]
      /\ \A u \in Threads : hand'[u] = IF u = t THEN moved ELSE hand[u]
  BY <1>0 DEF Unlink, OwnersTyped
<1>4. \A d \in Clients : d # c /\ moved # None => sessions[d] # moved
  BY <1>0 DEF OneEntry
<1>5. moved \in Sids => InMap(moved)
  BY <1>0 DEF InMap
<1>6. moved \in Sids => \A u \in Threads : hand[u] # moved
  BY <1>5 DEF OneOwner, InHand
<1>7. \A sid \in Sids : sid # moved =>
        (InMap(sid)' <=> InMap(sid)) /\ (InHand(sid)' <=> InHand(sid))
  <2> SUFFICES ASSUME NEW sid \in Sids, sid # moved
               PROVE  (InMap(sid)' <=> InMap(sid)) /\ (InHand(sid)' <=> InHand(sid))
    OBVIOUS
  <2>1. InMap(sid)' <=> InMap(sid)
    BY <1>0, <1>2, <1>3 DEF InMap
  <2>2. InHand(sid)' <=> InHand(sid)
    BY <1>2, <1>3 DEF InHand
  <2> QED
    BY <2>1, <2>2
<1>8. moved \in Sids => InHand(moved)' /\ ~InMap(moved)'
  BY <1>2, <1>3, <1>4 DEF InHand, InMap
<1>9. NoSocketLeaked'
  BY <1>7, <1>8 DEF NoSocketLeaked
<1>10. OneEntry'
  BY <1>3 DEF OneEntry
<1>11. OneHand'
  BY <1>0, <1>3, <1>6 DEF OneHand
<1>12. OneOwner'
  BY <1>5, <1>7, <1>8 DEF OneOwner
<1> QED
  BY <1>9, <1>10, <1>11, <1>12

(* Closing empties the hand and closes its socket, which nobody else has.  *)
LEMMA CloseOwnership ==
    ASSUME OwnersTyped, Ownership, NEW t \in Threads, CloseHand(t),
           UNCHANGED sessions, Fresh' = Fresh
    PROVE  Ownership'
<1> USE DEF Ownership, NoSessionHeldTwice
<1>0. PICK held \in Sids \cup {None} : held = hand[t]
  BY DEF OwnersTyped
<1>2. None \notin Sids
  BY UDPAssumption
<1>3. /\ \A u \in Threads : hand'[u] = IF u = t THEN None ELSE hand[u]
      /\ \A sid \in Sids : sock'[sid] = IF sid = held THEN "closed" ELSE sock[sid]
  BY <1>0, <1>2 DEF CloseHand, OwnersTyped
<1>4. \A u \in Threads : u # t /\ held # None => hand[u] # held
  BY <1>0 DEF OneHand
<1>5. held \in Sids => InHand(held)
  BY <1>0 DEF InHand
<1>6. \A sid \in Sids : InMap(sid)' <=> InMap(sid)
  BY DEF InMap
<1>7. \A sid \in Sids : sid # held => (InHand(sid)' <=> InHand(sid))
  BY <1>0, <1>2, <1>3 DEF InHand
<1>8. held \in Sids => ~InHand(held)'
  BY <1>2, <1>3, <1>4 DEF InHand
<1>9. NoSocketLeaked'
  BY <1>3, <1>6, <1>7 DEF NoSocketLeaked
<1>10. OneEntry'
  BY DEF OneEntry
<1>11. OneHand'
  BY <1>3 DEF OneHand
<1>12. OneOwner'
  BY <1>3, <1>5, <1>6, <1>7, <1>8 DEF OneOwner
<1> QED
  BY <1>9, <1>10, <1>11, <1>12

(* Ownership depends on the map, the sockets, the hands and run's fresh    *)
(* session, and on nothing else.                                           *)
LEMMA SameOwnership ==
    ASSUME Ownership, UNCHANGED <<sessions, sock, hand>>, Fresh' = Fresh
    PROVE  Ownership'
BY DEF Ownership, NoSocketLeaked, NoSessionHeldTwice, OneEntry, OneHand, OneOwner,
       InMap, InHand

(* A dialled socket was closed, so it was in nobody's possession.          *)
LEMMA DialOwnership ==
    ASSUME Ownership, OwnersTyped, NEW sid \in Sids, Dial(sid)
    PROVE  Ownership'
<1> USE DEF Ownership, NoSessionHeldTwice
<1>1. Fresh = {} /\ Fresh' = {sid}
  BY DEF Fresh, Dial
<1>2. ~InMap(sid) /\ ~InHand(sid)
  BY DEF Dial, OneOwner
<1>3. UNCHANGED <<sessions, hand>>
  BY DEF Dial
<1>4. \A x \in Sids : (InMap(x)' <=> InMap(x)) /\ (InHand(x)' <=> InHand(x))
  BY <1>3 DEF InMap, InHand
<1>5. \A x \in Sids : sock'[x] = IF x = sid THEN "open" ELSE sock[x]
  BY DEF Dial, OwnersTyped
<1>6. NoSocketLeaked'
  BY <1>1, <1>4, <1>5 DEF NoSocketLeaked
<1>7. OneEntry' /\ OneHand'
  BY <1>3 DEF OneEntry, OneHand
<1>8. OneOwner'
  BY <1>1, <1>2, <1>4, <1>5 DEF OneOwner
<1> QED
  BY <1>6, <1>7, <1>8

(* The client has no session, so nothing is overwritten.                   *)
LEMMA InsertOwnership ==
    ASSUME Ownership, OwnersTyped, MainKnowsSession, Insert
    PROVE  Ownership'
<1> USE DEF Ownership, NoSessionHeldTwice
<1>0. PICK sid \in Sids, client \in Clients : sid = mainSid /\ client = mainClient
  BY DEF MainKnowsSession, Insert
<1>1. sessions[client] = None
  BY <1>0 DEF MainKnowsSession, Insert
<1>2. Fresh = {sid} /\ Fresh' = {}
  BY <1>0 DEF Fresh, Insert
<1>3. /\ \A c \in Clients :
            sessions'[c] = IF c = client THEN sid ELSE sessions[c]
      /\ sock' = sock
      /\ hand' = hand
  BY <1>0, <1>1 DEF Insert, OwnersTyped
<1>4. ~InMap(sid) /\ ~InHand(sid) /\ sock[sid] = "open"
  BY <1>1, <1>2 DEF OneOwner
<1>5. None \notin Sids
  BY UDPAssumption
<1>6. InMap(sid)'
  BY <1>1, <1>3 DEF InMap
<1>7. \A x \in Sids : x # sid => (InMap(x)' <=> InMap(x))
  BY <1>1, <1>3, <1>5 DEF InMap
<1>8. \A x \in Sids : InHand(x)' <=> InHand(x)
  BY <1>3 DEF InHand
<1>9. NoSocketLeaked'
  BY <1>2, <1>3, <1>6, <1>7, <1>8 DEF NoSocketLeaked
<1>10. \A c \in Clients : sessions[c] # sid
  BY <1>4 DEF InMap
<1>11. OneEntry'
  BY <1>3, <1>10 DEF OneEntry
<1>12. OneHand'
  BY <1>3 DEF OneHand
<1>13. OneOwner'
  BY <1>2, <1>3, <1>4, <1>7, <1>8 DEF OneOwner
<1> QED
  BY <1>9, <1>11, <1>12, <1>13

-----------------------------------------------------------------------------
(* One lemma for each action.  Ownership is the part with an argument; the *)
(* others follow from the action's assignments.                            *)


(* A packet arrives.                                                       *)
LEMMA ReceiveInv ==
    ASSUME UDPInv, NEW c \in Clients, Receive(c)
    PROVE  UDPInv'
<1> USE ThreadsDistinct
        DEF UDPInv, Bookkeeping, mapVars, mainVars, reaperVars, serveVars
<1>1. Bookkeeping'
  BY DEF OwnersTyped, HandsMatchPc, MainKnowsSession, LoopsKnowClients,
         ServeListsAll, Live, Receive
<1>2. Ownership'
  <2>1. Fresh' = Fresh
    BY DEF Fresh, Receive
  <2> QED
    BY <2>1, SameOwnership DEF Receive
<1> QED
  BY <1>1, <1>2

(* A new session, not yet in the map.                                      *)
LEMMA DialInv ==
    ASSUME UDPInv, NEW sid \in Sids, Dial(sid)
    PROVE  UDPInv'
<1> USE ThreadsDistinct
        DEF UDPInv, Bookkeeping, mapVars, mainVars, reaperVars, serveVars
<1>1. Bookkeeping'
  BY DEF OwnersTyped, HandsMatchPc, MainKnowsSession, LoopsKnowClients,
         ServeListsAll, Live, Dial
<1>2. Ownership'
  BY DialOwnership
<1> QED
  BY <1>1, <1>2

(* The session enters the map.                                             *)
LEMMA InsertInv ==
    ASSUME UDPInv, Insert
    PROVE  UDPInv'
<1> USE ThreadsDistinct DEF UDPInv, Bookkeeping
<1>1. PICK sid \in Sids, client \in Clients :
        sid = mainSid /\ client = mainClient /\ sessions[client] = None
  BY DEF MainKnowsSession, Insert
<1>2. /\ sessions' = [sessions EXCEPT ![client] = sid]
      /\ key' = [key EXCEPT ![sid] = client]
      /\ loop' = [loop EXCEPT ![sid] = "read"]
      /\ mainPc = "insert" /\ mainPc' = "touch"
      /\ UNCHANGED <<sock, hand, mainClient, reaperPc, stale, servePc, servKeys>>
  BY <1>1 DEF Insert, reaperVars, serveVars
<1>3. OwnersTyped'
  BY <1>2 DEF OwnersTyped
<1>4. HandsMatchPc'
  <2>1. hand[sid] = None
    BY <1>1, <1>2 DEF HandsMatchPc, MainKnowsSession
  <2> QED
    BY <1>2, <2>1 DEF HandsMatchPc, OwnersTyped
<1>5. MainKnowsSession' /\ LoopsKnowClients'
  BY <1>1, <1>2 DEF MainKnowsSession, LoopsKnowClients, OwnersTyped
<1>6. ServeListsAll'
  BY <1>2 DEF ServeListsAll
<1>7. Ownership'
  BY InsertOwnership
<1> QED
  BY <1>3, <1>4, <1>5, <1>6, <1>7

(* run goes on without touching the map.                                   *)
LEMMA MainStaysInv ==
    ASSUME UDPInv, DialFails \/ Touch \/ WriteUpstream \/ WriteUpstreamFails
    PROVE  UDPInv'
<1> USE ThreadsDistinct
        DEF UDPInv, Bookkeeping, mapVars, mainVars, reaperVars, serveVars
<1>1. Bookkeeping'
  BY DEF OwnersTyped, HandsMatchPc, MainKnowsSession, LoopsKnowClients,
         ServeListsAll, Live, DialFails, Touch, WriteUpstream, WriteUpstreamFails
<1>2. Ownership'
  <2>1. Fresh' = Fresh
    BY DEF Fresh, DialFails, Touch, WriteUpstream, WriteUpstreamFails
  <2> QED
    BY <2>1, SameOwnership DEF DialFails, Touch, WriteUpstream, WriteUpstreamFails
<1> QED
  BY <1>1, <1>2

(* run drops the session of its client.                                    *)
LEMMA MainUnlinksInv ==
    ASSUME UDPInv, MainUnlinks
    PROVE  UDPInv'
<1> USE ThreadsDistinct
        DEF UDPInv, Bookkeeping, mapVars, mainVars, reaperVars, serveVars
<1>1. Bookkeeping'
  BY DEF OwnersTyped, HandsMatchPc, MainKnowsSession, LoopsKnowClients,
         ServeListsAll, Live, MainUnlinks, Unlink
<1>2. Ownership'
  <2>1. Fresh' = Fresh /\ hand["main"] = None /\ mainClient \in Clients
    BY DEF Fresh, HandsMatchPc, MainKnowsSession, LoopsKnowClients, OwnersTyped,
       MainUnlinks, Unlink
  <2> QED
    BY <2>1, UnlinkOwnership DEF MainUnlinks
<1> QED
  BY <1>1, <1>2

(* run closes the session it has dropped.                                  *)
LEMMA MainClosesInv ==
    ASSUME UDPInv, MainCloses
    PROVE  UDPInv'
<1> USE ThreadsDistinct
        DEF UDPInv, Bookkeeping, mapVars, mainVars, reaperVars, serveVars
<1>1. Bookkeeping'
  BY DEF OwnersTyped, HandsMatchPc, MainKnowsSession, LoopsKnowClients,
         ServeListsAll, Live, MainCloses, CloseHand
<1>2. Ownership'
  <2>1. Fresh' = Fresh
    BY DEF Fresh, MainCloses, CloseHand
  <2> QED
    BY <2>1, CloseOwnership DEF MainCloses
<1> QED
  BY <1>1, <1>2

(* run returns.                                                            *)
LEMMA MainReturnsInv ==
    ASSUME UDPInv, MainReturns
    PROVE  UDPInv'
<1> USE ThreadsDistinct
        DEF UDPInv, Bookkeeping, mapVars, mainVars, reaperVars, serveVars
<1>1. Bookkeeping'
  BY DEF OwnersTyped, HandsMatchPc, MainKnowsSession, LoopsKnowClients,
         ServeListsAll, Live, MainReturns
<1>2. Ownership'
  <2>1. Fresh' = Fresh
    BY DEF Fresh, MainReturns
  <2> QED
    BY <2>1, SameOwnership DEF MainReturns
<1> QED
  BY <1>1, <1>2

(* A read loop goes on or gives up.                                        *)
LEMMA ReplyInv ==
    ASSUME UDPInv, NEW sid \in Sids, Reply(sid) \/ ReplyNotSent(sid) \/ ReplyFails(sid)
    PROVE  UDPInv'
<1> USE ThreadsDistinct
        DEF UDPInv, Bookkeeping, mapVars, mainVars, reaperVars, serveVars
<1>1. Bookkeeping'
  BY DEF OwnersTyped, HandsMatchPc, MainKnowsSession, LoopsKnowClients,
         ServeListsAll, Live, Reply, ReplyNotSent, ReplyFails
<1>2. Ownership'
  <2>1. Fresh' = Fresh
    BY DEF Fresh, Reply, ReplyNotSent, ReplyFails
  <2> QED
    BY <2>1, SameOwnership DEF Reply, ReplyNotSent, ReplyFails
<1> QED
  BY <1>1, <1>2

(* A read loop drops the session its client has by now.                    *)
LEMMA LoopUnlinksInv ==
    ASSUME UDPInv, NEW sid \in Sids, LoopUnlinks(sid)
    PROVE  UDPInv'
<1> USE ThreadsDistinct
        DEF UDPInv, Bookkeeping, mapVars, mainVars, reaperVars, serveVars
<1>1. Bookkeeping'
  BY DEF OwnersTyped, HandsMatchPc, MainKnowsSession, LoopsKnowClients,
         ServeListsAll, Live, LoopUnlinks, Unlink
<1>2. Ownership'
  <2>1. Fresh' = Fresh /\ hand[sid] = None /\ key[sid] \in Clients
    BY DEF Fresh, HandsMatchPc, MainKnowsSession, LoopsKnowClients, OwnersTyped,
       LoopUnlinks, Unlink
  <2> QED
    BY <2>1, UnlinkOwnership DEF LoopUnlinks
<1> QED
  BY <1>1, <1>2

(* The read loop closes the session it has dropped.                        *)
LEMMA LoopClosesInv ==
    ASSUME UDPInv, NEW sid \in Sids, LoopCloses(sid)
    PROVE  UDPInv'
<1> USE ThreadsDistinct
        DEF UDPInv, Bookkeeping, mapVars, mainVars, reaperVars, serveVars
<1>1. Bookkeeping'
  BY DEF OwnersTyped, HandsMatchPc, MainKnowsSession, LoopsKnowClients,
         ServeListsAll, Live, LoopCloses, CloseHand
<1>2. Ownership'
  <2>1. Fresh' = Fresh
    BY DEF Fresh, LoopCloses, CloseHand
  <2> QED
    BY <2>1, CloseOwnership DEF LoopCloses
<1> QED
  BY <1>1, <1>2

(* The reaper looks at the map or at its context.                          *)
LEMMA ReaperStaysInv ==
    ASSUME UDPInv, Reap \/ ReapDone \/ ReaperReturns
    PROVE  UDPInv'
<1> USE ThreadsDistinct
        DEF UDPInv, Bookkeeping, mapVars, mainVars, reaperVars, serveVars
<1>1. Bookkeeping'
  BY DEF OwnersTyped, HandsMatchPc, MainKnowsSession, LoopsKnowClients,
         ServeListsAll, Reap, ReapDone, ReaperReturns, Live
<1>2. Ownership'
  <2>1. Fresh' = Fresh
    BY DEF Fresh, Reap, ReapDone, ReaperReturns, Live
  <2> QED
    BY <2>1, SameOwnership DEF Reap, ReapDone, ReaperReturns, Live
<1> QED
  BY <1>1, <1>2

(* The reaper drops a session.                                             *)
LEMMA ReaperUnlinksInv ==
    ASSUME UDPInv, NEW c \in Clients, ReaperUnlinks(c)
    PROVE  UDPInv'
<1> USE ThreadsDistinct
        DEF UDPInv, Bookkeeping, mapVars, mainVars, reaperVars, serveVars
<1>1. Bookkeeping'
  BY DEF OwnersTyped, HandsMatchPc, MainKnowsSession, LoopsKnowClients,
         ServeListsAll, Live, ReaperUnlinks, Unlink
<1>2. Ownership'
  <2>1. Fresh' = Fresh /\ hand["reaper"] = None /\ c \in Clients
    BY DEF Fresh, HandsMatchPc, MainKnowsSession, LoopsKnowClients, OwnersTyped,
       ReaperUnlinks, Unlink
  <2> QED
    BY <2>1, UnlinkOwnership DEF ReaperUnlinks
<1> QED
  BY <1>1, <1>2

(* The reaper closes the session it has dropped.                           *)
LEMMA ReaperClosesInv ==
    ASSUME UDPInv, ReaperCloses
    PROVE  UDPInv'
<1> USE ThreadsDistinct
        DEF UDPInv, Bookkeeping, mapVars, mainVars, reaperVars, serveVars
<1>1. Bookkeeping'
  BY DEF OwnersTyped, HandsMatchPc, MainKnowsSession, LoopsKnowClients,
         ServeListsAll, Live, ReaperCloses, CloseHand
<1>2. Ownership'
  <2>1. Fresh' = Fresh
    BY DEF Fresh, ReaperCloses, CloseHand
  <2> QED
    BY <2>1, CloseOwnership DEF ReaperCloses
<1> QED
  BY <1>1, <1>2

(* Serve goes on.                                                          *)
LEMMA ServeStaysInv ==
    ASSUME UDPInv, Cancel \/ CloseFrontend \/ CloseAllSessions \/ ServeReturns
    PROVE  UDPInv'
<1> USE ThreadsDistinct
        DEF UDPInv, Bookkeeping, mapVars, mainVars, reaperVars, serveVars
<1>1. Bookkeeping'
  BY DEF OwnersTyped, HandsMatchPc, MainKnowsSession, LoopsKnowClients,
         ServeListsAll, Cancel, CloseFrontend, CloseAllSessions, ServeReturns,
         Live
<1>2. Ownership'
  <2>1. Fresh' = Fresh
    BY DEF Fresh, Cancel, CloseFrontend, CloseAllSessions, ServeReturns, Live
  <2> QED
    BY <2>1, SameOwnership DEF Cancel, CloseFrontend, CloseAllSessions,
       ServeReturns, Live
<1> QED
  BY <1>1, <1>2

(* Serve drops a session of its list.                                      *)
LEMMA ServeUnlinksInv ==
    ASSUME UDPInv, NEW c \in Clients, ServeUnlinks(c)
    PROVE  UDPInv'
<1> USE ThreadsDistinct
        DEF UDPInv, Bookkeeping, mapVars, mainVars, reaperVars, serveVars
<1>1. Bookkeeping'
  BY DEF OwnersTyped, HandsMatchPc, MainKnowsSession, LoopsKnowClients,
         ServeListsAll, Live, ServeUnlinks, Unlink
<1>2. Ownership'
  <2>1. Fresh' = Fresh /\ hand["serve"] = None /\ c \in Clients
    BY DEF Fresh, HandsMatchPc, MainKnowsSession, LoopsKnowClients, OwnersTyped,
       ServeUnlinks, Unlink
  <2> QED
    BY <2>1, UnlinkOwnership DEF ServeUnlinks
<1> QED
  BY <1>1, <1>2

(* Serve closes the session it has dropped.                                *)
LEMMA ServeClosesInv ==
    ASSUME UDPInv, ServeCloses
    PROVE  UDPInv'
<1> USE ThreadsDistinct
        DEF UDPInv, Bookkeeping, mapVars, mainVars, reaperVars, serveVars
<1>1. Bookkeeping'
  BY DEF OwnersTyped, HandsMatchPc, MainKnowsSession, LoopsKnowClients,
         ServeListsAll, Live, ServeCloses, CloseHand
<1>2. Ownership'
  <2>1. Fresh' = Fresh
    BY DEF Fresh, ServeCloses, CloseHand
  <2> QED
    BY <2>1, CloseOwnership DEF ServeCloses
<1> QED
  BY <1>1, <1>2

(* Time passes.                                                            *)
LEMMA BecomesIdleInv ==
    ASSUME UDPInv, NEW sid \in Sids, BecomesIdle(sid)
    PROVE  UDPInv'
<1> USE ThreadsDistinct
        DEF UDPInv, Bookkeeping, mapVars, mainVars, reaperVars, serveVars
<1>1. Bookkeeping'
  BY DEF OwnersTyped, HandsMatchPc, MainKnowsSession, LoopsKnowClients,
         ServeListsAll, Live, BecomesIdle
<1>2. Ownership'
  <2>1. Fresh' = Fresh
    BY DEF Fresh, BecomesIdle
  <2> QED
    BY <2>1, SameOwnership DEF BecomesIdle
<1> QED
  BY <1>1, <1>2

(* Every step of every goroutine keeps the invariant.                      *)
LEMMA UDPNextInv == UDPInv /\ [Next]_vars => UDPInv'
<1> SUFFICES ASSUME UDPInv, [Next]_vars
             PROVE  UDPInv'
  OBVIOUS
<1>1. CASE UNCHANGED vars
  <2> USE <1>1 DEF UDPInv, Bookkeeping, vars, mapVars, mainVars, reaperVars, serveVars
  <2>1. Ownership'
    BY SameOwnership DEF Fresh
  <2>2. OwnersTyped' /\ HandsMatchPc' /\ MainKnowsSession' /\ LoopsKnowClients'
    BY DEF OwnersTyped, HandsMatchPc, MainKnowsSession, LoopsKnowClients
  <2>3. ServeListsAll'
    BY DEF ServeListsAll, Live
  <2> QED
    BY <2>1, <2>2, <2>3
<1>2. CASE \E c \in Clients : Receive(c)
  BY <1>2, ReceiveInv
<1>3. CASE MainStep
  BY <1>3, DialInv, InsertInv, MainStaysInv, MainUnlinksInv, MainClosesInv,
     MainReturnsInv DEF MainStep
<1>4. CASE \E sid \in Sids :
             Reply(sid) \/ ReplyNotSent(sid) \/ ReplyFails(sid) \/ LoopStep(sid)
  BY <1>4, ReplyInv, LoopUnlinksInv, LoopClosesInv DEF LoopStep
<1>5. CASE ReaperStep
  BY <1>5, ReaperStaysInv, ReaperUnlinksInv, ReaperClosesInv DEF ReaperStep
<1>6. CASE Cancel \/ ServeStep
  BY <1>6, ServeStaysInv, ServeUnlinksInv, ServeClosesInv DEF ServeStep
<1>7. CASE \E sid \in Sids : BecomesIdle(sid)
  BY <1>7, BecomesIdleInv
<1> QED
  BY <1>1, <1>2, <1>3, <1>4, <1>5, <1>6, <1>7 DEF Next

(* Initially there is no session and nothing in any hand.                  *)
LEMMA UDPInitInv == Init => UDPInv
<1> SUFFICES ASSUME Init
             PROVE  UDPInv
  OBVIOUS
<1> USE ThreadsDistinct DEF Init
<1>1. OwnersTyped /\ MainKnowsSession /\ LoopsKnowClients
  BY DEF OwnersTyped, MainKnowsSession, LoopsKnowClients
<1>2. HandsMatchPc
  BY DEF HandsMatchPc
<1>3. ServeListsAll
  BY DEF ServeListsAll
<1>4. \A sid \in Sids : ~InMap(sid) /\ ~InHand(sid)
  BY DEF InMap, InHand
<1>5. Ownership
  BY <1>4 DEF Ownership, NoSocketLeaked, NoSessionHeldTwice, OneEntry, OneHand,
              OneOwner, Fresh
<1> QED
  BY <1>1, <1>2, <1>3, <1>5 DEF UDPInv, Bookkeeping

-----------------------------------------------------------------------------
(* The inductive invariant.                                                *)
THEOREM UDPInvariance == Spec => []UDPInv
BY UDPInitInv, UDPNextInv, PTL DEF Spec

(* No upstream socket is ever leaked, however the drops of run, the        *)
(* reaper, the read loops and Serve interleave.                            *)
THEOREM UDPLeaksNoSocket == Spec => []NoSocketLeaked
<1>1. UDPInv => NoSocketLeaked
  BY DEF UDPInv, Ownership
<1> QED
  BY <1>1, UDPInvariance, PTL

(* No two goroutines ever close the same session, so closeOnce is never    *)
(* needed.                                                                 *)
THEOREM UDPClosesOnce == Spec => []NoSessionHeldTwice
<1>1. UDPInv => NoSessionHeldTwice
  BY DEF UDPInv, Ownership
<1> QED
  BY <1>1, UDPInvariance, PTL

(* getOrCreate never loses the race it provides for.                       *)
THEOREM UDPNeverLosesRace == Spec => []RaceNeverLost
<1>1. UDPInv => RaceNeverLost
  BY DEF UDPInv, Bookkeeping, MainKnowsSession, RaceNeverLost
<1> QED
  BY <1>1, UDPInvariance, PTL

(* When Serve has returned the map is empty and stays so: no goroutine     *)
(* that outlives Serve puts a session back.                                *)
THEOREM UDPLeavesNoSession == Spec => []NoSessionAfterReturn
<1>1. UDPInv => NoSessionAfterReturn
  BY DEF UDPInv, Bookkeeping, ServeListsAll, NoSessionAfterReturn
<1> QED
  BY <1>1, UDPInvariance, PTL

-----------------------------------------------------------------------------
(* The gauge.  It is exact because a session is counted in the map or in   *)
(* one hand, and dropSession moves it from the one to the other.           *)

(* The types OwnersTyped leaves out; run has a session from Insert to the  *)
(* end of its write.                                                       *)
WorkTyped ==
    /\ idle \in [Sids -> BOOLEAN]
    /\ mainPc \in {"read", "dial", "insert", "touch", "write", "drop", "close",
                   "exit"}
    /\ mainClient \in Clients \cup {None}
    /\ mainSid \in Sids \cup {None}
    /\ mainPc \in {"insert", "touch", "write"} => mainSid \in Sids
    /\ reaperPc \in {"wait", "drop", "close", "exit"}
    /\ servePc \in {"running", "canceled", "waiting", "drop", "close", "returned"}
    /\ broken \subseteq Sids

(* There are finitely many sessions and hands to count.                    *)
LEMMA CountsFinite ==
    /\ IsFiniteSet(Live) /\ Cardinality(Live) \in Nat
    /\ IsFiniteSet(FullHands) /\ Cardinality(FullHands) \in Nat
<1>1. IsFiniteSet(Live)
  BY FiniteAssumption, FS_Subset DEF Live
<1>2. IsFiniteSet({"main", "reaper", "serve"})
  <2>1. IsFiniteSet({"main"})
    BY FS_Singleton
  <2>2. IsFiniteSet({"main"} \cup {"reaper"})
    BY <2>1, FS_AddElement
  <2>3. IsFiniteSet(({"main"} \cup {"reaper"}) \cup {"serve"})
    BY <2>2, FS_AddElement
  <2>4. ({"main"} \cup {"reaper"}) \cup {"serve"} = {"main", "reaper", "serve"}
    OBVIOUS
  <2> QED
    BY <2>3, <2>4
<1>3. IsFiniteSet(Threads)
  BY <1>2, FiniteAssumption, FS_Union DEF Threads
<1>4. IsFiniteSet(FullHands)
  BY <1>3, FS_Subset DEF FullHands
<1> QED
  BY <1>1, <1>4, FS_CardinalityType

(* Unlinking moves a session, if there is one, from the map to a hand.     *)
LEMMA UnlinkGauge ==
    ASSUME OwnersTyped, GaugeExact, NEW t \in Threads, NEW c \in Clients,
           hand[t] = None, Unlink(t, c), UNCHANGED active
    PROVE  GaugeExact'
<1>1. /\ \A d \in Clients : sessions'[d] = IF d = c THEN None ELSE sessions[d]
      /\ \A u \in Threads : hand'[u] = IF u = t THEN sessions[c] ELSE hand[u]
  BY DEF Unlink, OwnersTyped
<1>2. CASE sessions[c] = None
  <2>1. Live' = Live /\ FullHands' = FullHands
    BY <1>1, <1>2 DEF Live, FullHands
  <2> QED
    BY <2>1 DEF GaugeExact
<1>3. CASE sessions[c] # None
  <2>1. Live' = Live \ {c} /\ c \in Live
    BY <1>1, <1>3 DEF Live
  <2>2. FullHands' = FullHands \cup {t} /\ t \notin FullHands
    BY <1>1, <1>3 DEF FullHands
  <2>3. Cardinality(Live') = Cardinality(Live) - 1
    BY <2>1, CountsFinite, FS_RemoveElement
  <2>4. Cardinality(FullHands') = Cardinality(FullHands) + 1
    BY <2>2, CountsFinite, FS_AddElement
  <2> QED
    BY <2>3, <2>4, CountsFinite DEF GaugeExact
<1> QED
  BY <1>2, <1>3

(* Closing empties a hand, and counts it if it was full.                   *)
LEMMA CloseGauge ==
    ASSUME OwnersTyped, GaugeExact, NEW t \in Threads, CloseHand(t),
           UNCHANGED sessions
    PROVE  GaugeExact'
<1>1. \A u \in Threads : hand'[u] = IF u = t THEN None ELSE hand[u]
  BY DEF CloseHand, OwnersTyped
<1>2. Live' = Live
  BY DEF Live
<1>3. CASE hand[t] = None
  <2>1. FullHands' = FullHands /\ active' = active
    BY <1>1, <1>3 DEF FullHands, CloseHand
  <2> QED
    BY <1>2, <2>1 DEF GaugeExact
<1>4. CASE hand[t] # None
  <2>1. FullHands' = FullHands \ {t} /\ t \in FullHands
    BY <1>1, <1>4 DEF FullHands
  <2>2. Cardinality(FullHands') = Cardinality(FullHands) - 1
    BY <2>1, CountsFinite, FS_RemoveElement
  <2>3. active' = active - 1
    BY <1>4 DEF CloseHand
  <2> QED
    BY <1>2, <2>2, <2>3, CountsFinite DEF GaugeExact
<1> QED
  BY <1>3, <1>4

(* The client has no session before it is inserted, so it counts one more. *)
LEMMA InsertGauge ==
    ASSUME UDPInv, GaugeExact, Insert
    PROVE  GaugeExact'
<1> USE DEF UDPInv, Bookkeeping
<1>1. PICK sid \in Sids, client \in Clients :
        sid = mainSid /\ client = mainClient /\ sessions[client] = None
  BY DEF MainKnowsSession, Insert
<1>2. /\ \A c \in Clients : sessions'[c] = IF c = client THEN sid ELSE sessions[c]
      /\ active' = active + 1
      /\ hand' = hand
  BY <1>1 DEF Insert, OwnersTyped
<1>3. sid # None
  BY UDPAssumption
<1>4. Live' = Live \cup {client} /\ client \notin Live
  BY <1>1, <1>2, <1>3 DEF Live
<1>5. Cardinality(Live') = Cardinality(Live) + 1
  BY <1>4, CountsFinite, FS_AddElement
<1>6. FullHands' = FullHands
  BY <1>2 DEF FullHands
<1> QED
  BY <1>2, <1>5, <1>6, CountsFinite DEF GaugeExact

(* The count depends on the map and the hands only.                        *)
LEMMA SameGauge ==
    ASSUME GaugeExact, UNCHANGED <<sessions, hand, active>>
    PROVE  GaugeExact'
BY DEF GaugeExact, Live, FullHands

(* Every step of every goroutine keeps the count.                          *)
LEMMA GaugeNext ==
    ASSUME UDPInv, GaugeExact, [Next]_vars
    PROVE  GaugeExact'
<1> USE ThreadsDistinct DEF UDPInv, Bookkeeping
<1>1. CASE Insert
  BY <1>1, InsertGauge
<1>2. CASE MainUnlinks
  BY <1>2, UnlinkGauge DEF MainUnlinks, HandsMatchPc, MainKnowsSession
<1>3. CASE \E sid \in Sids : LoopUnlinks(sid)
  BY <1>3, UnlinkGauge DEF LoopUnlinks, HandsMatchPc, LoopsKnowClients
<1>4. CASE \E c \in Clients : ReaperUnlinks(c)
  BY <1>4, UnlinkGauge DEF ReaperUnlinks, HandsMatchPc
<1>5. CASE \E c \in Clients : ServeUnlinks(c)
  BY <1>5, UnlinkGauge DEF ServeUnlinks, HandsMatchPc
<1>6. CASE \/ MainCloses \/ ReaperCloses \/ ServeCloses
           \/ \E sid \in Sids : LoopCloses(sid)
  BY <1>6, CloseGauge DEF MainCloses, ReaperCloses, ServeCloses, LoopCloses
<1>7. CASE UNCHANGED <<sessions, hand, active>>
  BY <1>7, SameGauge
<1>8. \/ Insert \/ MainUnlinks \/ MainCloses \/ ReaperCloses \/ ServeCloses
      \/ \E sid \in Sids : LoopUnlinks(sid) \/ LoopCloses(sid)
      \/ \E c \in Clients : ReaperUnlinks(c) \/ ServeUnlinks(c)
      \/ UNCHANGED <<sessions, hand, active>>
  BY DEF Next, MainStep, LoopStep, ReaperStep, ServeStep, vars, mapVars, Receive,
         Dial, DialFails, Touch, WriteUpstream, WriteUpstreamFails, MainReturns,
         Reply, ReplyNotSent, ReplyFails, Reap, ReapDone, ReaperReturns, Cancel,
         CloseFrontend, CloseAllSessions, ServeReturns, BecomesIdle
<1> QED
  BY <1>1, <1>2, <1>3, <1>4, <1>5, <1>6, <1>7, <1>8

(* The steps of run keep the types.                                        *)
LEMMA MainTyped ==
    ASSUME UDPInv, WorkTyped, MainStep \/ \E c \in Clients : Receive(c)
    PROVE  WorkTyped'
<1> USE DEF UDPInv, Bookkeeping, WorkTyped, mapVars, mainVars, reaperVars, serveVars
<1>1. CASE \E c \in Clients : Receive(c)
  BY <1>1 DEF Receive, OwnersTyped
<1>2. CASE \E sid \in Sids : Dial(sid)
  BY <1>2 DEF Dial
<1>3. CASE Insert
  <2>1. mainSid' = mainSid
    BY <1>3 DEF Insert, MainKnowsSession
  <2> QED
    BY <1>3, <2>1 DEF Insert
<1>4. CASE DialFails \/ Touch \/ WriteUpstream \/ WriteUpstreamFails \/ MainReturns
  BY <1>4 DEF DialFails, Touch, WriteUpstream, WriteUpstreamFails, MainReturns
<1>5. CASE MainUnlinks \/ MainCloses
  BY <1>5 DEF MainUnlinks, MainCloses
<1> QED
  BY <1>1, <1>2, <1>3, <1>4, <1>5 DEF MainStep

(* So do those of the other goroutines, and time.                          *)
LEMMA WorkTypedNext ==
    ASSUME UDPInv, WorkTyped, [Next]_vars
    PROVE  WorkTyped'
<1> USE DEF WorkTyped, mapVars, mainVars, reaperVars, serveVars
<1>1. CASE MainStep \/ \E c \in Clients : Receive(c)
  BY <1>1, MainTyped
<1>2. CASE \E sid \in Sids :
             Reply(sid) \/ ReplyNotSent(sid) \/ ReplyFails(sid) \/ LoopStep(sid)
  BY <1>2 DEF Reply, ReplyNotSent, ReplyFails, LoopStep, LoopUnlinks, LoopCloses
<1>3. CASE ReaperStep
  BY <1>3 DEF ReaperStep, Reap, ReaperUnlinks, ReaperCloses, ReapDone, ReaperReturns
<1>4. CASE Cancel \/ ServeStep
  BY <1>4 DEF Cancel, ServeStep, CloseFrontend, CloseAllSessions, ServeUnlinks,
              ServeCloses, ServeReturns
<1>5. CASE \E sid \in Sids : BecomesIdle(sid)
  BY <1>5 DEF BecomesIdle
<1>6. CASE UNCHANGED vars
  BY <1>6 DEF vars
<1> QED
  BY <1>1, <1>2, <1>3, <1>4, <1>5, <1>6 DEF Next

(* The gauge udpActiveSessions is exact: it counts the sessions in the map *)
(* and the ones dropSession is about to close, and nothing twice.          *)
THEOREM UDPGaugeExact == Spec => []GaugeExact
<1>1. Init => GaugeExact
  <2> SUFFICES ASSUME Init
               PROVE  GaugeExact
    OBVIOUS
  <2>1. Live = {} /\ FullHands = {} /\ active = 0
    BY DEF Init, Live, FullHands
  <2> QED
    BY <2>1, FS_EmptySet DEF GaugeExact
<1>2. UDPInv /\ GaugeExact /\ [Next]_vars => GaugeExact'
  BY GaugeNext
<1> QED
  BY <1>1, <1>2, UDPInvariance, PTL DEF Spec

(* The variables of the forwarder keep their types; that the gauge is      *)
(* never negative follows from what it counts.                             *)
THEOREM UDPTypeCorrect == Spec => []UDPTypeOK
<1>1. Init => WorkTyped
  BY DEF Init, WorkTyped
<1>2. UDPInv /\ WorkTyped /\ [Next]_vars => WorkTyped'
  BY WorkTypedNext
<1>3. UDPInv /\ WorkTyped /\ GaugeExact => UDPTypeOK
  BY CountsFinite
     DEF UDPInv, Bookkeeping, OwnersTyped, WorkTyped, GaugeExact, UDPTypeOK
<1> QED
  BY <1>1, <1>2, <1>3, UDPInvariance, UDPGaugeExact, PTL DEF Spec
=============================================================================
