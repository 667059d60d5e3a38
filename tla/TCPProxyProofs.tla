--------------------------- MODULE TCPProxyProofs ---------------------------
(***************************************************************************)
(* Serve returns with nothing behind it and no stream is cut short, for    *)
(* any number of listeners, connections and chunks and any interleaving of *)
(* Serve, the accept loops, the handlers, the AfterFuncs, the copiers and  *)
(* the peers.                                                              *)
(*                                                                         *)
(* ServeInv is about Serve and what it waits for, StreamInv about one      *)
(* connection and its two directions; every action disturbs one of them    *)
(* and at most the handler of the other.                                   *)
(***************************************************************************)
EXTENDS TCPProxy, TLAPS

ServePcs == {"bind", "serve", "join", "drain", "stop", "returned"}

HandlerPcs == {"none", "dial", "arm", "header", "splice", "unwind", "done"}

ServeTyped ==
    /\ servePc \in ServePcs
    /\ canceled \in BOOLEAN
    /\ listening \subseteq Listeners
    /\ health \in BOOLEAN
    /\ loop \in [Listeners -> {"off", "accept"} \cup Conns]
    /\ timedOut \in BOOLEAN
    /\ handler \in [Conns -> HandlerPcs]

StreamTyped ==
    /\ handler \in [Conns -> HandlerPcs]
    /\ after \in [Conns -> {"off", "armed", "client", "server"}]
    /\ expired \in [Conns -> SUBSET Sides]
    /\ copier \in [Conns -> [Sides -> {"off", "read", "write", "eof", "done"}]]
    /\ got \in [Conns -> [Sides -> 0..MaxChunks]]
    /\ eof \in [Conns -> SUBSET Sides]
    /\ sent \in [Conns -> [Sides -> 0..MaxChunks]]
    /\ fin \in [Conns -> SUBSET Sides]
    /\ broken \in [Conns -> SUBSET Sides]

(* Serve takes things down in an order: what one wait has seen gone stays  *)
(* gone.  The listeners are closed before the loops are waited for, and    *)
(* with no loop left no handler starts.                                    *)
ServeClosesInOrder ==
    /\ servePc = "bind" =>
          /\ ~health
          /\ \A l \in Listeners : loop[l] = "off"
          /\ \A c \in Conns : handler[c] = "none"
    /\ servePc \in {"join", "drain", "stop", "returned"} => listening = {}
    /\ servePc \in {"drain", "stop", "returned"} =>
          \A l \in Listeners : loop[l] = "off"
    /\ servePc \in {"stop", "returned"} =>
          timedOut \/ \A c \in Conns : handler[c] \in {"none", "done"}
    /\ servePc = "returned" => ~health

(* A connection between Accept and conns.Add(1) is held by one loop and    *)
(* has no handler yet.                                                     *)
LoopsHoldNewConns ==
    \A l \in Listeners : loop[l] \in Conns =>
        /\ handler[loop[l]] = "none"
        /\ \A k \in Listeners : loop[k] = loop[l] => k = l

ServeInv == ServeTyped /\ ServeClosesInOrder /\ LoopsHoldNewConns

(* The copiers of a connection run while splice waits for them, and at no  *)
(* other time.                                                             *)
CopiersFollowHandler ==
    \A c \in Conns : \A s \in Sides :
        /\ handler[c] \in {"none", "dial", "arm", "header"} =>
              copier[c][s] = "off"
        /\ handler[c] \in {"unwind", "done"} => copier[c][s] \in {"off", "done"}

(* What a copier holds has been sent and not been passed on yet.           *)
NothingInvented ==
    \A c \in Conns : \A s \in Sides :
        /\ got[c][s] <= sent[c][s]
        /\ copier[c][s] = "write" => got[c][s] < sent[c][s]

(* Only CloseWrite, or closing both connections, ends a stream.            *)
EofFollowsCopier ==
    \A c \in Conns : \A s \in eof[c] :
        copier[c][s] = "done" \/ handler[c] = "done"

(* A copier leaves its loop for no other reason than a real end of stream, *)
(* a reset or the shutdown.                                                *)
EndsAreReal ==
    \A c \in Conns : \A s \in Sides :
        (/\ copier[c][s] \in {"eof", "done"}
         /\ broken[c] = {} /\ expired[c] = {}) =>
            s \in fin[c] /\ got[c][s] = sent[c][s]

StreamInv ==
    /\ StreamTyped
    /\ CopiersFollowHandler
    /\ NothingInvented
    /\ EofFollowsCopier
    /\ EndsAreReal

TCPInv == ServeInv /\ StreamInv

-----------------------------------------------------------------------------
(* ServeInv.                                                               *)

LEMMA ServeInit == Init => ServeInv
BY TCPAssumption
   DEF Init, ServeInv, ServeTyped, ServeClosesInOrder, LoopsHoldNewConns,
       ServePcs, HandlerPcs

(* No connection is called as the other states of a loop are.              *)
LEMMA ConnsNotLoopStates == "off" \notin Conns /\ "accept" \notin Conns
BY TCPAssumption

(* Steps that change neither Serve nor whether a handler runs.             *)
LEMMA ServeSame ==
    ASSUME ServeInv, UNCHANGED <<serveVars, handler>>
    PROVE  ServeInv'
BY DEF ServeInv, ServeTyped, ServeClosesInOrder, LoopsHoldNewConns, serveVars

(* A running handler goes on, or ends.                                     *)
LEMMA ServeHandler ==
    ASSUME ServeInv, NEW c \in Conns, NEW h \in HandlerPcs \ {"none"},
           handler[c] \notin {"none", "done"},
           handler' = [handler EXCEPT ![c] = h], UNCHANGED serveVars
    PROVE  ServeInv'
<1> USE DEF ServeInv, serveVars
<1>1. ServeTyped'
  BY DEF ServeTyped
<1>2. \A d \in Conns : handler'[d] = IF d = c THEN h ELSE handler[d]
  BY DEF ServeTyped
<1>3. ServeClosesInOrder'
  BY <1>2 DEF ServeClosesInOrder
<1>4. LoopsHoldNewConns'
  BY <1>2 DEF LoopsHoldNewConns
<1> QED
  BY <1>1, <1>3, <1>4

LEMMA ServeHandle ==
    ASSUME ServeInv, NEW c \in Conns, Handle(c) \/ DialSucceeds(c)
    PROVE  ServeInv'
<1>1. PICK h \in HandlerPcs \ {"none"} :
          handler' = [handler EXCEPT ![c] = h]
  BY DEF Handle, DialSucceeds, DialFails, Arm, WriteHeader, HeaderFails,
         SpliceReturns, Unwind, HandlerPcs
<1>2. handler[c] \notin {"none", "done"} /\ UNCHANGED serveVars
  BY DEF Handle, DialSucceeds, DialFails, Arm, WriteHeader, HeaderFails,
         SpliceReturns, Unwind
<1> QED
  BY <1>1, <1>2, ServeHandler

(* Steps of Serve itself, of the health server and of the signal.          *)
LEMMA ServeSteps ==
    ASSUME ServeInv,
           Serve \/ StartFails \/ DrainTimeout \/ HealthStops \/ Cancel
    PROVE  ServeInv'
<1> USE DEF ServeInv, ServeTyped, ServePcs, ServeClosesInOrder,
            LoopsHoldNewConns, connVars
<1>1. CASE \E l \in Listeners : Bind(l)
  BY <1>1 DEF Bind
<1>2. CASE StartLoops
  BY <1>2, ConnsNotLoopStates DEF StartLoops
<1>3. CASE CloseListeners
  BY <1>3 DEF CloseListeners
<1>4. CASE Join
  BY <1>4 DEF Join
<1>5. CASE Drained
  BY <1>5 DEF Drained
<1>6. CASE ServeReturns
  BY <1>6 DEF ServeReturns
<1>7. CASE StartFails
  BY <1>7 DEF StartFails
<1>8. CASE DrainTimeout
  BY <1>8 DEF DrainTimeout
<1>9. CASE HealthStops
  BY <1>9 DEF HealthStops
<1>10. CASE Cancel
  BY <1>10 DEF Cancel
<1> QED
  BY <1>1, <1>2, <1>3, <1>4, <1>5, <1>6, <1>7, <1>8, <1>9, <1>10 DEF Serve

LEMMA ServeAccept ==
    ASSUME ServeInv, NEW l \in Listeners,
           AcceptLoop(l) \/ \E c \in Conns : Accept(l, c)
    PROVE  ServeInv'
<1> USE ConnsNotLoopStates DEF ServeInv
<1>1. CASE Spawn(l)
  <2>1. PICK c \in Conns : loop[l] = c
    BY <1>1 DEF Spawn
  <2>2. /\ \A d \in Conns : handler'[d] = IF d = c THEN "dial" ELSE handler[d]
        /\ \A k \in Listeners : loop'[k] = IF k = l THEN "accept" ELSE loop[k]
    BY <1>1, <2>1 DEF Spawn, ServeTyped
  <2>3. ServeTyped'
    BY <1>1, <2>1 DEF Spawn, ServeTyped, HandlerPcs
  <2>4. servePc \notin {"bind", "drain", "stop", "returned"}
    BY <2>1 DEF ServeClosesInOrder
  <2>5. ServeClosesInOrder'
    BY <1>1, <2>4 DEF Spawn, ServeClosesInOrder
  <2>6. LoopsHoldNewConns'
    BY <2>1, <2>2 DEF LoopsHoldNewConns, ServeTyped
  <2> QED
    BY <2>3, <2>5, <2>6
<1>2. CASE AcceptReturns(l)
  <2>1. \A k \in Listeners : loop'[k] = IF k = l THEN "off" ELSE loop[k]
    BY <1>2 DEF AcceptReturns, ServeTyped
  <2>2. ServeTyped'
    BY <1>2 DEF AcceptReturns, ServeTyped, connVars
  <2>3. ServeClosesInOrder'
    BY <1>2, <2>1 DEF AcceptReturns, ServeClosesInOrder, connVars
  <2>4. LoopsHoldNewConns'
    BY <1>2, <2>1 DEF AcceptReturns, LoopsHoldNewConns, connVars
  <2> QED
    BY <2>2, <2>3, <2>4
<1>3. ASSUME NEW c \in Conns, Accept(l, c) PROVE ServeInv'
  <2>1. \A k \in Listeners : loop'[k] = IF k = l THEN c ELSE loop[k]
    BY <1>3 DEF Accept, ServeTyped
  <2>2. ServeTyped'
    BY <1>3 DEF Accept, ServeTyped, connVars
  <2>3. servePc \notin {"bind", "drain", "stop", "returned"}
    BY <1>3 DEF Accept, ServeClosesInOrder
  <2>4. ServeClosesInOrder'
    BY <1>3, <2>3 DEF Accept, ServeClosesInOrder, connVars
  <2>5. LoopsHoldNewConns'
    BY <1>3, <2>1 DEF Accept, LoopsHoldNewConns, connVars
  <2> QED
    BY <2>2, <2>4, <2>5
<1> QED
  BY <1>1, <1>2, <1>3 DEF AcceptLoop

-----------------------------------------------------------------------------
(* StreamInv.                                                              *)

LEMMA StreamInit == Init => StreamInv
BY TCPAssumption
   DEF Init, StreamInv, StreamTyped, CopiersFollowHandler, NothingInvented,
       EofFollowsCopier, EndsAreReal, HandlerPcs, Sides

LEMMA StreamSame ==
    ASSUME StreamInv, UNCHANGED <<connVars, peerVars>>
    PROVE  StreamInv'
BY DEF StreamInv, StreamTyped, CopiersFollowHandler, NothingInvented,
       EofFollowsCopier, EndsAreReal, connVars, peerVars

(* A handler moves and leaves the copiers alone: they are off before       *)
(* splice and done after it.                                               *)
LEMMA StreamHandler ==
    ASSUME StreamInv, NEW c \in Conns, NEW h \in HandlerPcs,
           handler' = [handler EXCEPT ![c] = h],
           handler[c] # "done", h # "done",
           h \in {"none", "dial", "arm", "header"} =>
               handler[c] \in {"none", "dial", "arm", "header"},
           h = "unwind" =>
               \/ handler[c] \in {"none", "dial", "arm", "header"}
               \/ \A s \in Sides : copier[c][s] = "done",
           after' \in [Conns -> {"off", "armed", "client", "server"}],
           UNCHANGED <<expired, copier, got, eof, peerVars>>
    PROVE  StreamInv'
<1> USE DEF StreamInv, peerVars
<1>1. StreamTyped'
  BY DEF StreamTyped
<1>2. \A d \in Conns : handler'[d] = IF d = c THEN h ELSE handler[d]
  BY DEF StreamTyped
<1>3. CopiersFollowHandler'
  BY <1>2 DEF CopiersFollowHandler
<1>4. NothingInvented' /\ EndsAreReal'
  BY DEF NothingInvented, EndsAreReal
<1>5. EofFollowsCopier'
  BY <1>2 DEF EofFollowsCopier
<1> QED
  BY <1>1, <1>3, <1>4, <1>5

(* splice starts both copiers, which have passed nothing on.               *)
LEMMA StreamSplice ==
    ASSUME StreamInv, NEW c \in Conns,
           handler[c] \in {"arm", "header"},
           handler' = [handler EXCEPT ![c] = "splice"],
           copier' = Splicing(c),
           after' \in [Conns -> {"off", "armed", "client", "server"}],
           UNCHANGED <<expired, got, eof, peerVars>>
    PROVE  StreamInv'
<1> USE DEF StreamInv, peerVars
<1>1. StreamTyped'
  BY DEF StreamTyped, Splicing, HandlerPcs
<1>2. /\ \A d \in Conns : handler'[d] = IF d = c THEN "splice" ELSE handler[d]
      /\ \A d \in Conns, s \in Sides :
             copier'[d][s] = IF d = c THEN "read" ELSE copier[d][s]
  BY DEF StreamTyped, Splicing
<1>3. CopiersFollowHandler'
  BY <1>2 DEF CopiersFollowHandler
<1>4. NothingInvented'
  BY <1>2 DEF NothingInvented
<1>5. EndsAreReal'
  BY <1>2 DEF EndsAreReal
<1>6. eof[c] = {} /\ \A d \in Conns : eof[d] \subseteq Sides
  BY DEF EofFollowsCopier, CopiersFollowHandler, StreamTyped
<1>7. EofFollowsCopier'
  BY <1>2, <1>6 DEF EofFollowsCopier
<1> QED
  BY <1>1, <1>3, <1>4, <1>5, <1>7

LEMMA StreamHandle ==
    ASSUME StreamInv, NEW c \in Conns, Handle(c) \/ DialSucceeds(c)
    PROVE  StreamInv'
<1>0. after \in [Conns -> {"off", "armed", "client", "server"}]
  BY DEF StreamInv, StreamTyped
<1>1. CASE DialSucceeds(c) \/ DialFails(c) \/ HeaderFails(c)
  BY <1>0, <1>1, StreamHandler
     DEF DialSucceeds, DialFails, HeaderFails, HandlerPcs
<1>2. CASE SpliceReturns(c)
  BY <1>0, <1>2, StreamHandler DEF SpliceReturns, HandlerPcs
<1>3. CASE Arm(c)
  <2>1. after' \in [Conns -> {"off", "armed", "client", "server"}]
    BY <1>0, <1>3 DEF Arm
  <2>2. CASE SendsHeader
    BY <1>3, <2>1, <2>2, StreamHandler DEF Arm, HandlerPcs
  <2>3. CASE ~SendsHeader
    BY <1>3, <2>1, <2>3, StreamSplice DEF Arm
  <2> QED
    BY <2>2, <2>3
<1>4. CASE WriteHeader(c)
  BY <1>0, <1>4, StreamSplice DEF WriteHeader
<1>5. CASE Unwind(c)
  <2> USE DEF StreamInv, peerVars
  <2>1. StreamTyped'
    BY <1>5 DEF Unwind, StreamTyped, HandlerPcs
  <2>2. /\ \A d \in Conns : handler'[d] = IF d = c THEN "done" ELSE handler[d]
        /\ \A d \in Conns : eof'[d] = IF d = c THEN Sides ELSE eof[d]
    BY <1>5 DEF Unwind, StreamTyped
  <2>3. CopiersFollowHandler'
    BY <1>5, <2>2 DEF Unwind, CopiersFollowHandler
  <2>4. NothingInvented' /\ EndsAreReal'
    BY <1>5 DEF Unwind, NothingInvented, EndsAreReal
  <2>5. EofFollowsCopier'
    BY <1>5, <2>2 DEF Unwind, EofFollowsCopier
  <2> QED
    BY <2>1, <2>3, <2>4, <2>5
<1> QED
  BY <1>1, <1>2, <1>3, <1>4, <1>5 DEF Handle

(* A handler that starts finds both copiers off.                           *)
LEMMA StreamSpawn ==
    ASSUME TCPInv, NEW l \in Listeners, Spawn(l)
    PROVE  StreamInv'
<1>1. PICK c \in Conns : loop[l] = c
  BY DEF Spawn
<1>2. handler[c] = "none"
  BY <1>1 DEF TCPInv, ServeInv, LoopsHoldNewConns
<1> QED
  BY <1>1, <1>2, StreamHandler
     DEF Spawn, TCPInv, StreamInv, StreamTyped, HandlerPcs

(* A deadline excuses every end of the streams of its connection.          *)
LEMMA StreamAfterFunc ==
    ASSUME StreamInv, NEW c \in Conns, AfterFunc(c)
    PROVE  StreamInv'
<1> USE DEF StreamInv, peerVars
<1>0. PICK s \in Sides :
          /\ after' = [after EXCEPT ![c] = s]
          /\ expired' = [expired EXCEPT ![c] = expired[c] \cup {s}]
  BY DEF AfterFunc, ExpireClient, ExpireServer, Sides
<1>u. UNCHANGED <<handler, copier, got, eof, peerVars>>
  BY DEF AfterFunc, ExpireClient, ExpireServer
<1>1. StreamTyped'
  BY <1>0, <1>u DEF StreamTyped, Sides
<1>2. \A d \in Conns : expired'[d] = {} => expired[d] = {}
  BY <1>0 DEF StreamTyped
<1>3. CopiersFollowHandler' /\ NothingInvented' /\ EofFollowsCopier'
  BY <1>u DEF CopiersFollowHandler, NothingInvented, EofFollowsCopier
<1>4. EndsAreReal'
  BY <1>2, <1>u DEF EndsAreReal
<1> QED
  BY <1>1, <1>3, <1>4

(* A running copier belongs to a handler that waits for it.                *)
LEMMA RunningCopier ==
    ASSUME StreamInv, NEW c \in Conns, NEW s \in Sides,
           copier[c][s] \in {"read", "write", "eof"}
    PROVE  handler[c] = "splice"
BY DEF StreamInv, StreamTyped, CopiersFollowHandler, HandlerPcs

(* A copier goes on to its next state x and passes on n chunks in all.     *)
LEMMA StreamCopier ==
    ASSUME StreamInv, NEW c \in Conns, NEW s \in Sides,
           NEW x \in {"read", "write", "eof"}, NEW n \in 0..MaxChunks,
           copier[c][s] \in {"read", "write"},
           copier' = [copier EXCEPT ![c][s] = x],
           got' = [got EXCEPT ![c][s] = n],
           n <= sent[c][s], x = "write" => n < sent[c][s],
           (x = "eof" /\ broken[c] = {} /\ expired[c] = {}) =>
               s \in fin[c] /\ n = sent[c][s],
           UNCHANGED <<handler, after, expired, eof, peerVars>>
    PROVE  StreamInv'
<1> USE DEF StreamInv, peerVars
<1>1. StreamTyped'
  BY DEF StreamTyped
<1>2. \A d \in Conns, t \in Sides :
          /\ copier'[d][t] = IF d = c /\ t = s THEN x ELSE copier[d][t]
          /\ got'[d][t] = IF d = c /\ t = s THEN n ELSE got[d][t]
  BY DEF StreamTyped
<1>3. handler[c] = "splice"
  BY RunningCopier
<1>4. CopiersFollowHandler'
  BY <1>2, <1>3 DEF CopiersFollowHandler
<1>5. NothingInvented'
  BY <1>2 DEF NothingInvented
<1>6. EofFollowsCopier'
  BY <1>2, <1>3 DEF EofFollowsCopier, StreamTyped
<1>7. EndsAreReal'
  BY <1>2 DEF EndsAreReal
<1> QED
  BY <1>1, <1>4, <1>5, <1>6, <1>7

LEMMA StreamCopiers ==
    ASSUME StreamInv, NEW c \in Conns, NEW s \in Sides,
           Copier(c, s) \/ WriteReturns(c, s)
    PROVE  StreamInv'
<1>1. /\ got[c][s] \in 0..MaxChunks /\ sent[c][s] \in 0..MaxChunks
      /\ got = [got EXCEPT ![c][s] = got[c][s]]
      /\ got[c][s] <= sent[c][s]
      /\ copier[c][s] = "write" => got[c][s] < sent[c][s]
  BY DEF StreamInv, StreamTyped, NothingInvented
<1>2. \A t \in Sides : broken[c] = {} /\ expired[c] = {} /\ Unusable(c, t) =>
          handler[c] = "done"
  BY DEF Unusable
<1>3. MaxChunks \in Nat
  BY TCPAssumption
<1>4. CASE Read(c, s)
  BY <1>1, <1>4, StreamCopier DEF Read
<1>5. CASE ReadEnds(c, s)
  <2>1. handler[c] = "splice"
    BY <1>5, RunningCopier DEF ReadEnds
  <2> QED
    BY <1>1, <1>2, <1>5, <2>1, StreamCopier DEF ReadEnds
<1>6. CASE WriteReturns(c, s)
  <2>1. got[c][s] + 1 \in 0..MaxChunks /\ got[c][s] + 1 <= sent[c][s]
    BY <1>1, <1>3, <1>6 DEF WriteReturns
  <2>2. got' = [got EXCEPT ![c][s] = got[c][s] + 1]
    BY <1>6 DEF WriteReturns
  <2> QED
    BY <1>6, <2>1, <2>2, StreamCopier DEF WriteReturns
<1>7. CASE WriteFails(c, s)
  <2>1. handler[c] = "splice"
    BY <1>7, RunningCopier DEF WriteFails
  <2>2. Other(s) \in Sides
    BY DEF Other, Sides
  <2> QED
    BY <1>1, <1>2, <1>7, <2>1, <2>2, StreamCopier DEF WriteFails
<1>8. CASE CloseWrite(c, s)
  <2> USE DEF StreamInv, CloseWrite, peerVars
  <2>1. StreamTyped'
    BY <1>8 DEF StreamTyped
  <2>2. /\ \A d \in Conns, t \in Sides : copier'[d][t] =
               IF d = c /\ t = s THEN "done" ELSE copier[d][t]
        /\ \A d \in Conns : eof'[d] = IF d = c THEN eof[d] \cup {s} ELSE eof[d]
        /\ \A d \in Conns : eof[d] \subseteq Sides
    BY <1>8 DEF StreamTyped
  <2>3. handler[c] = "splice"
    BY <1>8, RunningCopier
  <2>4. CopiersFollowHandler'
    BY <1>8, <2>2, <2>3 DEF CopiersFollowHandler
  <2>5. NothingInvented'
    BY <1>8, <2>2 DEF NothingInvented
  <2>6. EofFollowsCopier'
    BY <1>8, <2>2 DEF EofFollowsCopier
  <2>7. EndsAreReal'
    BY <1>8, <2>2 DEF EndsAreReal
  <2> QED
    BY <2>1, <2>4, <2>5, <2>6, <2>7
<1> QED
  BY <1>4, <1>5, <1>6, <1>7, <1>8 DEF Copier

(* A peer that has finished sends no more; a reset excuses every end.      *)
LEMMA StreamPeer ==
    ASSUME StreamInv, NEW c \in Conns, NEW s \in Sides, Peer(c, s)
    PROVE  StreamInv'
<1> USE DEF StreamInv, connVars
<1>1. CASE Send(c, s)
  <2>0. MaxChunks \in Nat
    BY TCPAssumption
  <2>1. StreamTyped'
    BY <1>1, <2>0 DEF Send, StreamTyped
  <2>2. \A d \in Conns, t \in Sides :
            /\ sent'[d][t] =
                   IF d = c /\ t = s THEN sent[d][t] + 1 ELSE sent[d][t]
            /\ sent[d][t] \in Nat /\ got[d][t] \in Nat
    BY <1>1, <2>0 DEF Send, StreamTyped
  <2>3. CopiersFollowHandler' /\ EofFollowsCopier'
    BY <1>1 DEF Send, CopiersFollowHandler, EofFollowsCopier
  <2>4. NothingInvented'
    BY <1>1, <2>2 DEF Send, NothingInvented
  <2>5. EndsAreReal'
    BY <1>1, <2>2 DEF Send, EndsAreReal
  <2> QED
    BY <2>1, <2>3, <2>4, <2>5
<1>2. CASE Finish(c, s)
  <2>1. StreamTyped'
    BY <1>2 DEF Finish, StreamTyped
  <2>2. \A d \in Conns : fin[d] \subseteq fin'[d]
    BY <1>2 DEF Finish, StreamTyped
  <2>3. CopiersFollowHandler' /\ EofFollowsCopier' /\ NothingInvented'
    BY <1>2 DEF Finish, CopiersFollowHandler, EofFollowsCopier, NothingInvented
  <2>4. EndsAreReal'
    BY <1>2, <2>2 DEF Finish, EndsAreReal
  <2> QED
    BY <2>1, <2>3, <2>4
<1>3. CASE Reset(c, s)
  <2>1. StreamTyped'
    BY <1>3 DEF Reset, StreamTyped
  <2>2. \A d \in Conns : broken'[d] = {} => broken[d] = {}
    BY <1>3 DEF Reset, StreamTyped
  <2>3. CopiersFollowHandler' /\ EofFollowsCopier' /\ NothingInvented'
    BY <1>3 DEF Reset, CopiersFollowHandler, EofFollowsCopier, NothingInvented
  <2>4. EndsAreReal'
    BY <1>3, <2>2 DEF Reset, EndsAreReal
  <2> QED
    BY <2>1, <2>3, <2>4
<1> QED
  BY <1>1, <1>2, <1>3 DEF Peer

-----------------------------------------------------------------------------
(* The invariant, and what follows from it.                                *)

LEMMA TCPNext ==
    ASSUME TCPInv, [Next]_vars
    PROVE  TCPInv'
<1>1. CASE Serve \/ StartFails \/ DrainTimeout \/ HealthStops \/ Cancel
  <2>1. UNCHANGED <<connVars, peerVars>>
    BY <1>1 DEF Serve, Bind, StartLoops, CloseListeners, Join, Drained,
                ServeReturns, StartFails, DrainTimeout, HealthStops, Cancel
  <2> QED
    BY <1>1, <2>1, ServeSteps, StreamSame DEF TCPInv
<1>2. ASSUME NEW l \in Listeners, AcceptLoop(l) \/ \E c \in Conns : Accept(l, c)
      PROVE  TCPInv'
  <2>1. ServeInv'
    BY <1>2, ServeAccept DEF TCPInv
  <2>2. CASE Spawn(l)
    BY <2>1, <2>2, StreamSpawn DEF TCPInv
  <2>3. CASE AcceptReturns(l) \/ \E c \in Conns : Accept(l, c)
    <3>1. UNCHANGED <<connVars, peerVars>>
      BY <2>3 DEF AcceptReturns, Accept
    <3> QED
      BY <2>1, <3>1, StreamSame DEF TCPInv
  <2> QED
    BY <1>2, <2>2, <2>3 DEF AcceptLoop
<1>3. ASSUME NEW c \in Conns, Handle(c) \/ DialSucceeds(c) PROVE TCPInv'
  BY <1>3, ServeHandle, StreamHandle DEF TCPInv
<1>4. ASSUME NEW c \in Conns, AfterFunc(c) PROVE TCPInv'
  <2>1. UNCHANGED <<serveVars, handler>>
    BY <1>4 DEF AfterFunc, ExpireClient, ExpireServer
  <2> QED
    BY <1>4, <2>1, ServeSame, StreamAfterFunc DEF TCPInv
<1>5. ASSUME NEW c \in Conns, NEW s \in Sides,
             Copier(c, s) \/ WriteReturns(c, s)
      PROVE  TCPInv'
  <2>1. UNCHANGED <<serveVars, handler>>
    BY <1>5 DEF Copier, Read, ReadEnds, WriteReturns, WriteFails, CloseWrite
  <2> QED
    BY <1>5, <2>1, ServeSame, StreamCopiers DEF TCPInv
<1>6. ASSUME NEW c \in Conns, NEW s \in Sides, Peer(c, s) PROVE TCPInv'
  <2>1. UNCHANGED <<serveVars, handler>>
    BY <1>6 DEF Peer, Send, Finish, Reset, connVars
  <2> QED
    BY <1>6, <2>1, ServeSame, StreamPeer DEF TCPInv
<1>7. CASE UNCHANGED vars
  BY <1>7, ServeSame, StreamSame DEF TCPInv, vars, connVars
<1> QED
  BY <1>1, <1>2, <1>3, <1>4, <1>5, <1>6, <1>7 DEF Next

(* The state of Serve and the state of the connections fit together.       *)
THEOREM TCPInvariant == Spec => []TCPInv
<1>1. Init => TCPInv
  BY ServeInit, StreamInit DEF TCPInv
<1>2. TCPInv /\ [Next]_vars => TCPInv'
  BY TCPNext
<1> QED
  BY <1>1, <1>2, PTL DEF Spec

(* The variables keep their types, and no direction of a connection passes *)
(* on more than its peer sent (copyAndCloseWrite).                         *)
THEOREM TCPTypeCorrect == Spec => []TCPTypeOK
<1>1. TCPInv => TCPTypeOK
  BY DEF TCPInv, ServeInv, StreamInv, ServeTyped, StreamTyped,
         NothingInvented, TCPTypeOK, ServePcs, HandlerPcs
<1> QED
  BY <1>1, TCPInvariant, PTL

(* Serve returns, after an error or a shutdown, with every listener, the   *)
(* health server and every acceptLoop gone, and every connection too       *)
(* unless the drain timed out.                                             *)
THEOREM NothingLeftBehind == Spec => []NothingOutlivesServe
<1>1. TCPInv => NothingOutlivesServe
  BY DEF TCPInv, ServeInv, ServeClosesInOrder, NothingOutlivesServe
<1> QED
  BY <1>1, TCPInvariant, PTL

(* No stream is ended for one peer before the other has ended it and all   *)
(* of its data has been passed on, but for a reset and the shutdown.       *)
THEOREM StreamsEndInFull == Spec => []EndOfStreamIsReal
<1>1. TCPInv => EndOfStreamIsReal
  <2> SUFFICES ASSUME TCPInv, NEW c \in Conns, NEW s \in eof[c],
                      copier[c][s] # "off", broken[c] = {}, expired[c] = {}
               PROVE  s \in fin[c] /\ got[c][s] = sent[c][s]
    BY DEF EndOfStreamIsReal
  <2>1. s \in Sides
    BY DEF TCPInv, StreamInv, StreamTyped
  <2>2. copier[c][s] = "done"
    BY <2>1 DEF TCPInv, StreamInv, EofFollowsCopier, CopiersFollowHandler
  <2> QED
    BY <2>1, <2>2 DEF TCPInv, StreamInv, EndsAreReal
<1> QED
  BY <1>1, TCPInvariant, PTL

(* While Serve waits for the connections nobody calls conns.Add: the only  *)
(* caller is an acceptLoop, and Serve has seen the last of them return.    *)
THEOREM NoAddBesideWait == Spec => NoneAddedWhileWaiting
<1> DEFINE Step == (servePc \in {"drain", "stop", "returned"}) =>
              (\A c \in Conns : handler[c] = "none" => handler'[c] = "none")
<1>1. ASSUME TCPInv, Next PROVE Step
  <2> SUFFICES ASSUME servePc \in {"drain", "stop", "returned"},
                      NEW c \in Conns, handler[c] = "none"
               PROVE  handler'[c] = "none"
    OBVIOUS
  <2>1. \A l \in Listeners : ~Spawn(l)
    BY <1>1, ConnsNotLoopStates
       DEF Spawn, TCPInv, ServeInv, ServeClosesInOrder
  <2>3. ASSUME NEW d \in Conns, Handle(d) \/ DialSucceeds(d)
        PROVE  handler'[c] = "none"
    <3>1. handler[d] # "none" /\ \E h : handler' = [handler EXCEPT ![d] = h]
      BY <2>3 DEF Handle, DialSucceeds, DialFails, Arm, WriteHeader,
                  HeaderFails, SpliceReturns, Unwind
    <3> QED
      BY <1>1, <3>1 DEF TCPInv, ServeInv, ServeTyped
  <2>4. CASE Serve \/ StartFails \/ DrainTimeout \/ HealthStops \/ Cancel
    BY <2>4
       DEF Serve, Bind, StartLoops, CloseListeners, Join, Drained, ServeReturns,
           StartFails, DrainTimeout, HealthStops, Cancel, connVars
  <2>5. ASSUME NEW l \in Listeners,
               AcceptLoop(l) \/ \E d \in Conns : Accept(l, d)
        PROVE  handler'[c] = "none"
    <3>1. CASE AcceptReturns(l)
      BY <3>1 DEF AcceptReturns, connVars
    <3>2. CASE \E d \in Conns : Accept(l, d)
      BY <3>2 DEF Accept, connVars
    <3> QED
      BY <2>1, <2>5, <3>1, <3>2 DEF AcceptLoop
  <2>6. ASSUME NEW d \in Conns, AfterFunc(d)
        PROVE  handler'[c] = "none"
    BY <2>6 DEF AfterFunc, ExpireClient, ExpireServer
  <2>7. ASSUME NEW d \in Conns, NEW s \in Sides,
               Copier(d, s) \/ WriteReturns(d, s) \/ Peer(d, s)
        PROVE  handler'[c] = "none"
    BY <2>7
       DEF Copier, Read, ReadEnds, WriteReturns, WriteFails, CloseWrite, Peer,
           Send, Finish, Reset, connVars
  <2> QED
    BY <1>1, <2>3, <2>4, <2>5, <2>6, <2>7 DEF Next
<1>2. TCPInv /\ [Next]_vars => [Step]_vars
  BY <1>1
<1> QED
  BY <1>2, TCPInvariant, PTL DEF Spec, NoneAddedWhileWaiting
=============================================================================
