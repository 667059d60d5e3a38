---------------------------- MODULE UDPForwarder ----------------------------
(***************************************************************************)
(* The UDP side of the proxy (internal/proxy/udp.go, and Serve in          *)
(* proxy.go): a frontend socket, and for every client address a session    *)
(* with an upstream socket of its own.                                     *)
(*                                                                         *)
(* The goroutines that share the session map: run (here "main"), reapLoop  *)
(* ("reaper"), Serve at shutdown ("serve"), and one upstreamReadLoop for   *)
(* each session.  The mutex guards the map only; dropSession unlinks a     *)
(* session under it and closes the socket afterwards, so every thread has  *)
(* a hand for the session it has unlinked and not yet closed.              *)
(*                                                                         *)
(* Payloads and clocks are left out: a session is idle when its            *)
(* lastActivity is older than the idle timeout, which happens to it at any *)
(* time and ends with the next packet.  Sids are session objects; one is   *)
(* used again when its socket is closed and its read loop has returned.    *)
(***************************************************************************)
EXTENDS FiniteSets, Naturals

CONSTANTS
    Clients,   \* client addresses, the keys of the session map
    Sids,      \* session objects
    None

Threads == {"main", "reaper", "serve"} \cup Sids

(* There are finitely many addresses and session objects, so that sessions *)
(* can be counted.                                                         *)
ASSUME FiniteAssumption == IsFiniteSet(Clients) /\ IsFiniteSet(Sids)

ASSUME UDPAssumption ==
    /\ None \notin Sids \cup Clients
    /\ Sids \cap {"main", "reaper", "serve"} = {}

VARIABLES
    sessions,    \* the map: client -> session
    sock,        \* session -> "open" or "closed" upstream socket
    idle,        \* session -> has been silent for the idle timeout
    key,         \* session -> the client its read loop works for
    loop,        \* session -> its read loop: "off", "read", "drop", "close"
    hand,        \* thread -> the session it has unlinked and not closed
    mainPc, mainClient, mainSid,   \* run
    reaperPc, stale,               \* reapLoop and reap
    servePc, servKeys,             \* Serve's shutdown and closeAllSessions
    active                         \* the udpActiveSessions gauge

VARIABLE broken  \* history: sessions whose socket has reported an error

mapVars == <<sessions, sock, idle, key, active, broken>>
mainVars == <<mainPc, mainClient, mainSid>>
reaperVars == <<reaperPc, stale>>
serveVars == <<servePc, servKeys>>
vars == <<mapVars, loop, hand, mainVars, reaperVars, serveVars>>

Live == {c \in Clients : sessions[c] # None}

Canceled == servePc # "running"
listenOpen == servePc \in {"running", "canceled"}

UDPTypeOK ==
    /\ sessions \in [Clients -> Sids \cup {None}]
    /\ sock \in [Sids -> {"open", "closed"}]
    /\ idle \in [Sids -> BOOLEAN]
    /\ key \in [Sids -> Clients \cup {None}]
    /\ loop \in [Sids -> {"off", "read", "drop", "close"}]
    /\ hand \in [Threads -> Sids \cup {None}]
    /\ mainPc \in {"read", "dial", "insert", "touch", "write", "drop", "close",
                   "exit"}
    /\ mainClient \in Clients \cup {None}
    /\ mainSid \in Sids \cup {None}
    /\ reaperPc \in {"wait", "drop", "close", "exit"}
    /\ stale \subseteq Clients
    /\ servePc \in {"running", "canceled", "waiting", "drop", "close", "returned"}
    /\ servKeys \subseteq Clients
    /\ active \in Nat
    /\ broken \subseteq Sids

-----------------------------------------------------------------------------
(* dropSession, for thread t.                                              *)

\* Mutants: the session stays in the map; it is unlinked and never closed.
MutUnlinkKeeps(t, c) ==
    /\ hand' = [hand EXCEPT ![t] = sessions[c]]
    /\ sessions' = sessions
MutUnlinkForgets(t, c) ==
    /\ hand' = hand
    /\ sessions' = [sessions EXCEPT ![c] = None]

Unlink(t, c) ==
    /\ hand' = [hand EXCEPT ![t] = sessions[c]]
    /\ sessions' = [sessions EXCEPT ![c] = None]

\* Mutants: the gauge is decremented even if there was nothing to close; it
\* is never decremented.
MutCloseHandDecrements(t) ==
    /\ hand' = [hand EXCEPT ![t] = None]
    /\ sock' = IF hand[t] = None THEN sock ELSE [sock EXCEPT ![hand[t]] = "closed"]
    /\ active' = active - 1
MutCloseHandKeepsGauge(t) ==
    /\ hand' = [hand EXCEPT ![t] = None]
    /\ sock' = IF hand[t] = None THEN sock ELSE [sock EXCEPT ![hand[t]] = "closed"]
    /\ UNCHANGED active

(* With an empty hand, dropSession has returned already.                   *)
CloseHand(t) ==
    /\ hand' = [hand EXCEPT ![t] = None]
    /\ IF hand[t] = None THEN UNCHANGED <<sock, active>>
       ELSE /\ sock' = [sock EXCEPT ![hand[t]] = "closed"]
            /\ active' = active - 1

-----------------------------------------------------------------------------
(* run, the only reader of the frontend socket, and getOrCreate.           *)

\* Mutant: the first look into the map is skipped.
MutReceive(c) ==
    /\ mainPc = "read"
    /\ listenOpen
    /\ mainClient' = c
    /\ mainSid' = None
    /\ mainPc' = "dial"
    /\ UNCHANGED <<mapVars, loop, hand, reaperVars, serveVars>>

Receive(c) ==
    /\ mainPc = "read"
    /\ listenOpen
    /\ mainClient' = c
    /\ mainSid' = sessions[c]
    /\ mainPc' = IF sessions[c] = None THEN "dial" ELSE "touch"
    /\ UNCHANGED <<mapVars, loop, hand, reaperVars, serveVars>>

(* A new udpSession; its lastActivity is set right away.                   *)
Dial(sid) ==
    /\ mainPc = "dial"
    /\ sock[sid] = "closed"
    /\ loop[sid] = "off"
    /\ sock' = [sock EXCEPT ![sid] = "open"]
    /\ idle' = [idle EXCEPT ![sid] = FALSE]
    /\ broken' = broken \ {sid}
    /\ mainSid' = sid
    /\ mainPc' = "insert"
    /\ UNCHANGED <<sessions, key, active, loop, hand, mainClient, reaperVars,
                   serveVars>>

DialFails ==
    /\ mainPc = "dial"
    /\ mainPc' = "read"
    /\ UNCHANGED <<mapVars, loop, hand, mainClient, mainSid, reaperVars,
                   serveVars>>

(* "Lost the race; drop the one we just created", or start its read loop.  *)
Insert ==
    /\ mainPc = "insert"
    /\ mainPc' = "touch"
    /\ IF sessions[mainClient] # None
       THEN /\ sock' = [sock EXCEPT ![mainSid] = "closed"]
            /\ mainSid' = sessions[mainClient]
            /\ UNCHANGED <<sessions, key, active, loop>>
       ELSE /\ sessions' = [sessions EXCEPT ![mainClient] = mainSid]
            /\ key' = [key EXCEPT ![mainSid] = mainClient]
            /\ active' = active + 1
            /\ loop' = [loop EXCEPT ![mainSid] = "read"]
            /\ UNCHANGED <<sock, mainSid>>
    /\ UNCHANGED <<idle, broken, hand, mainClient, reaperVars, serveVars>>

Touch ==
    /\ mainPc = "touch"
    /\ idle' = [idle EXCEPT ![mainSid] = FALSE]
    /\ mainPc' = "write"
    /\ UNCHANGED <<sessions, sock, key, active, broken, loop, hand, mainClient,
                   mainSid, reaperVars, serveVars>>

WriteUpstream ==
    /\ mainPc = "write"
    /\ sock[mainSid] = "open"
    /\ mainPc' = "read"
    /\ UNCHANGED <<mapVars, loop, hand, mainClient, mainSid, reaperVars,
                   serveVars>>

(* A connected UDP socket reports an unreachable upstream; a closed one    *)
(* reports that it is closed.                                              *)
WriteUpstreamFails ==
    /\ mainPc = "write"
    /\ mainPc' = "drop"
    /\ broken' = broken \cup {mainSid}
    /\ UNCHANGED <<sessions, sock, idle, key, active, loop, hand, mainClient,
                   mainSid, reaperVars, serveVars>>

MainUnlinks ==
    /\ mainPc = "drop"
    /\ Unlink("main", mainClient)
    /\ mainPc' = "close"
    /\ UNCHANGED <<sock, idle, key, active, broken, loop, mainClient, mainSid,
                   reaperVars, serveVars>>

MainCloses ==
    /\ mainPc = "close"
    /\ CloseHand("main")
    /\ mainPc' = "read"
    /\ UNCHANGED <<sessions, idle, key, broken, loop, mainClient, mainSid,
                   reaperVars, serveVars>>

(* The frontend socket is closed; run waits for the reaper.                *)
MainReturns ==
    /\ mainPc = "read"
    /\ ~listenOpen
    /\ reaperPc = "exit"
    /\ mainPc' = "exit"
    /\ UNCHANGED <<mapVars, loop, hand, mainClient, mainSid, reaperVars,
                   serveVars>>

-----------------------------------------------------------------------------
(* upstreamReadLoop.                                                       *)

Reply(sid) ==
    /\ loop[sid] = "read"
    /\ sock[sid] = "open"
    /\ listenOpen
    /\ idle' = [idle EXCEPT ![sid] = FALSE]
    /\ UNCHANGED <<sessions, sock, key, active, broken, loop, hand, mainVars,
                   reaperVars, serveVars>>

(* There is a reply, but it cannot be sent to the client (never, once the  *)
(* frontend socket is closed).                                             *)
ReplyNotSent(sid) ==
    /\ loop[sid] = "read"
    /\ sock[sid] = "open"
    /\ idle' = [idle EXCEPT ![sid] = FALSE]
    /\ loop' = [loop EXCEPT ![sid] = "drop"]
    /\ broken' = broken \cup {sid}
    /\ UNCHANGED <<sessions, sock, key, active, hand, mainVars, reaperVars,
                   serveVars>>

(* The read fails: always, on a closed socket.                             *)
ReplyFails(sid) ==
    /\ loop[sid] = "read"
    /\ loop' = [loop EXCEPT ![sid] = "drop"]
    /\ broken' = broken \cup {sid}
    /\ UNCHANGED <<sessions, sock, idle, key, active, hand, mainVars,
                   reaperVars, serveVars>>

(* The loop drops whatever session its client has by now.                  *)
LoopUnlinks(sid) ==
    /\ loop[sid] = "drop"
    /\ Unlink(sid, key[sid])
    /\ loop' = [loop EXCEPT ![sid] = "close"]
    /\ UNCHANGED <<sock, idle, key, active, broken, mainVars, reaperVars,
                   serveVars>>

LoopCloses(sid) ==
    /\ loop[sid] = "close"
    /\ CloseHand(sid)
    /\ loop' = [loop EXCEPT ![sid] = "off"]
    /\ UNCHANGED <<sessions, idle, key, broken, mainVars, reaperVars, serveVars>>

-----------------------------------------------------------------------------
(* reapLoop: the keys are collected under the mutex and dropped after it.  *)
(* When its context is done, select may still take a tick.                 *)

\* Mutant: the comparison with the cutoff is the wrong way round.
MutReap ==
    /\ reaperPc = "wait"
    /\ stale' = {c \in Live : ~idle[sessions[c]]}
    /\ reaperPc' = "drop"
    /\ UNCHANGED <<mapVars, loop, hand, mainVars, serveVars>>

Reap ==
    /\ reaperPc = "wait"
    /\ stale' = {c \in Live : idle[sessions[c]]}
    /\ reaperPc' = "drop"
    /\ UNCHANGED <<mapVars, loop, hand, mainVars, serveVars>>

ReaperUnlinks(c) ==
    /\ reaperPc = "drop"
    /\ c \in stale
    /\ Unlink("reaper", c)
    /\ stale' = stale \ {c}
    /\ reaperPc' = "close"
    /\ UNCHANGED <<sock, idle, key, active, broken, loop, mainVars, serveVars>>

ReaperCloses ==
    /\ reaperPc = "close"
    /\ CloseHand("reaper")
    /\ reaperPc' = "drop"
    /\ UNCHANGED <<sessions, idle, key, broken, loop, mainVars, stale, serveVars>>

ReapDone ==
    /\ reaperPc = "drop"
    /\ stale = {}
    /\ reaperPc' = "wait"
    /\ UNCHANGED <<mapVars, loop, hand, mainVars, stale, serveVars>>

\* Mutant: reapLoop does not look at its context.
MutReaperReturns == FALSE /\ UNCHANGED vars

ReaperReturns ==
    /\ reaperPc = "wait"
    /\ Canceled
    /\ reaperPc' = "exit"
    /\ UNCHANGED <<mapVars, loop, hand, mainVars, stale, serveVars>>

-----------------------------------------------------------------------------
(* Serve, from the cancellation of its context on.                         *)

Cancel ==
    /\ servePc = "running"
    /\ servePc' = "canceled"
    /\ UNCHANGED <<mapVars, loop, hand, mainVars, reaperVars, servKeys>>

CloseFrontend ==
    /\ servePc = "canceled"
    /\ servePc' = "waiting"
    /\ UNCHANGED <<mapVars, loop, hand, mainVars, reaperVars, servKeys>>

\* Mutant: closeAllSessions does not wait for run to return.
MutCloseAllSessions ==
    /\ servePc = "waiting"
    /\ servKeys' = Live
    /\ servePc' = "drop"
    /\ UNCHANGED <<mapVars, loop, hand, mainVars, reaperVars>>

CloseAllSessions ==
    /\ servePc = "waiting"
    /\ mainPc = "exit"
    /\ servKeys' = Live
    /\ servePc' = "drop"
    /\ UNCHANGED <<mapVars, loop, hand, mainVars, reaperVars>>

ServeUnlinks(c) ==
    /\ servePc = "drop"
    /\ c \in servKeys
    /\ Unlink("serve", c)
    /\ servKeys' = servKeys \ {c}
    /\ servePc' = "close"
    /\ UNCHANGED <<sock, idle, key, active, broken, loop, mainVars, reaperVars>>

ServeCloses ==
    /\ servePc = "close"
    /\ CloseHand("serve")
    /\ servePc' = "drop"
    /\ UNCHANGED <<sessions, idle, key, broken, loop, mainVars, reaperVars,
                   servKeys>>

ServeReturns ==
    /\ servePc = "drop"
    /\ servKeys = {}
    /\ servePc' = "returned"
    /\ UNCHANGED <<mapVars, loop, hand, mainVars, reaperVars, servKeys>>

-----------------------------------------------------------------------------
(* Time: a session has been silent for the idle timeout.                   *)
BecomesIdle(sid) ==
    /\ sock[sid] = "open"
    /\ ~idle[sid]
    /\ idle' = [idle EXCEPT ![sid] = TRUE]
    /\ UNCHANGED <<sessions, sock, key, active, broken, loop, hand, mainVars,
                   reaperVars, serveVars>>

-----------------------------------------------------------------------------
Init ==
    /\ sessions = [c \in Clients |-> None]
    /\ sock = [sid \in Sids |-> "closed"]
    /\ idle = [sid \in Sids |-> FALSE]
    /\ key = [sid \in Sids |-> None]
    /\ loop = [sid \in Sids |-> "off"]
    /\ hand = [t \in Threads |-> None]
    /\ mainPc = "read"
    /\ mainClient = None
    /\ mainSid = None
    /\ reaperPc = "wait"
    /\ stale = {}
    /\ servePc = "running"
    /\ servKeys = {}
    /\ active = 0
    /\ broken = {}

(* What run does after it has received a packet, or after shutdown.        *)
MainStep ==
    \/ \E sid \in Sids : Dial(sid)
    \/ DialFails
    \/ Insert
    \/ Touch
    \/ WriteUpstream
    \/ WriteUpstreamFails
    \/ MainUnlinks
    \/ MainCloses
    \/ MainReturns

LoopStep(sid) == LoopUnlinks(sid) \/ LoopCloses(sid)

ReaperStep ==
    \/ Reap
    \/ \E c \in Clients : ReaperUnlinks(c)
    \/ ReaperCloses
    \/ ReapDone
    \/ ReaperReturns

ServeStep ==
    \/ CloseFrontend
    \/ CloseAllSessions
    \/ \E c \in Clients : ServeUnlinks(c)
    \/ ServeCloses
    \/ ServeReturns

Next ==
    \/ \E c \in Clients : Receive(c)
    \/ MainStep
    \/ \E sid \in Sids : Reply(sid) \/ ReplyNotSent(sid) \/ ReplyFails(sid) \/ LoopStep(sid)
    \/ ReaperStep
    \/ Cancel
    \/ ServeStep
    \/ \E sid \in Sids : BecomesIdle(sid)

Spec == Init /\ [][Next]_vars

(* Goroutines that can run are scheduled; a read from a closed socket      *)
(* returns; select chooses at random, so not the ticker for ever.  No      *)
(* packet, reply or shutdown has to come.                                  *)
Fairness ==
    /\ WF_vars(MainStep)
    /\ WF_vars(ReaperStep)
    /\ SF_vars(ReaperReturns)
    /\ WF_vars(ServeStep)
    /\ \A sid \in Sids : WF_vars(LoopStep(sid))
    /\ \A sid \in Sids : WF_vars(sock[sid] = "closed" /\ ReplyFails(sid))

FairSpec == Spec /\ Fairness

-----------------------------------------------------------------------------
(* Properties.                                                             *)

(* The session that run has dialled and not yet put into the map.          *)
Fresh == IF mainPc = "insert" THEN {mainSid} ELSE {}

InMap(sid) == \E c \in Clients : sessions[c] = sid

InHand(sid) == \E t \in Threads : hand[t] = sid

(* No upstream socket is leaked: one that is open is in the map, in the    *)
(* hand of the thread that is about to close it, or still run's own.       *)
NoSocketLeaked ==
    \A sid \in Sids :
        sock[sid] = "open" => InMap(sid) \/ InHand(sid) \/ sid \in Fresh

OneEntry ==
    \A c, d \in Clients : sessions[c] = sessions[d] /\ sessions[c] # None => c = d

OneHand ==
    \A t, u \in Threads : hand[t] = hand[u] /\ hand[t] # None => t = u

OneOwner ==
    \A sid \in Sids :
        /\ InMap(sid) \/ InHand(sid) \/ sid \in Fresh => sock[sid] = "open"
        /\ ~(InMap(sid) /\ InHand(sid))
        /\ sid \in Fresh => ~InMap(sid) /\ ~InHand(sid)

(* No session is dropped twice: what is in the map is open, is in no hand  *)
(* and in no other place of the map, and no two threads hold the same      *)
(* session (closeOnce is never needed).                                    *)
NoSessionHeldTwice == OneEntry /\ OneHand /\ OneOwner

FullHands == {t \in Threads : hand[t] # None}

(* The gauge udpActiveSessions counts the sessions that are in the map or  *)
(* about to be closed.                                                     *)
GaugeExact == active = Cardinality(Live) + Cardinality(FullHands)

(* run is the only goroutine that inserts, so it never loses the race that *)
(* getOrCreate provides for.                                               *)
RaceNeverLost == mainPc = "insert" => sessions[mainClient] = None

(* After Serve has returned there is no session left, and none comes back. *)
NoSessionAfterReturn == servePc = "returned" => Live = {}

(* A session that stays silent is closed in the end, also when the proxy   *)
(* is shut down meanwhile.                                                 *)
IdleSessionsClose ==
    \A sid \in Sids :
        (sock[sid] = "open" /\ idle[sid]) ~> (sock[sid] = "closed" \/ ~idle[sid])

(* Once its context is canceled, Serve returns, and in the end every       *)
(* upstream socket is closed and every read loop has returned.             *)
ShutdownCompletes ==
    Canceled ~> [](servePc = "returned"
                   /\ \A sid \in Sids : sock[sid] = "closed" /\ loop[sid] = "off")

(* proxy.go: the UDP idle timeout "tears down a per-client UDP session     *)
(* after this much silence in both directions".  A session is closed for   *)
(* silence, for an error of its own socket, or at shutdown, and for no     *)
(* other reason.  But the read loop of a session that is already closed    *)
(* drops the session its client has by then, and the reaper drops sessions *)
(* that have become active since it looked.                                *)
OnlySilentSessionsClose ==
    [][\A sid \in Sids :
         sock[sid] = "open" /\ sock'[sid] = "closed"
         => idle[sid] \/ sid \in broken \/ Canceled]_vars
=============================================================================
