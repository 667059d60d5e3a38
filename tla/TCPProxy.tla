------------------------------ MODULE TCPProxy ------------------------------
(***************************************************************************)
(* The TCP side of the proxy (internal/proxy/proxy.go, health.go): Serve   *)
(* binds its listeners and the health server, an acceptLoop per listener   *)
(* hands every connection to a goroutine of its own (handle), which dials  *)
(* the upstream and copies in both directions until both have ended.       *)
(*                                                                         *)
(* Payloads are chunks that are counted, one count per direction; a        *)
(* direction is named by the side that its data comes from.  Peers may     *)
(* send, finish (FIN), reset, or do nothing at all: a peer that does not   *)
(* read blocks the write to it for as long as it likes.                    *)
(*                                                                         *)
(* A deadline of now, which is what cancellation gives every connection,   *)
(* fails each read and write from then on.  An accept error other than a   *)
(* closed listener is logged and the loop goes on, which changes nothing.  *)
(***************************************************************************)
EXTENDS Naturals, FiniteSets

CONSTANTS
    Listeners,   \* the TCP specs
    Conns,       \* connections of clients, each used once
    Chatty,      \* <<conn, side>> of the peers that do something; the others
                 \* are silent for ever
    MaxChunks,   \* chunks a peer sends on a connection, at most
    SendsHeader  \* whether a PROXY protocol version is configured

ASSUME TCPAssumption ==
    /\ MaxChunks \in Nat
    /\ SendsHeader \in BOOLEAN
    /\ Chatty \subseteq Conns \X {"client", "server"}
    /\ Conns \cap {"off", "accept"} = {}

Sides == {"client", "server"}

Other(s) == IF s = "client" THEN "server" ELSE "client"

VARIABLES
    servePc,    \* Serve: "bind", "serve", "join", "drain", "stop", "returned"
    canceled,   \* ctx is done
    listening,  \* listeners that are open
    health,     \* the health server is listening
    loop,       \* listener -> its acceptLoop: "off", "accept", or the
                \* connection it has accepted and not yet counted
    timedOut    \* the drain timeout has elapsed

VARIABLES
    handler,    \* conn -> handle: "none", "dial", "arm", "header", "splice",
                \* "unwind", "done"
    after,      \* conn -> its AfterFunc: "off", "armed", "client", "server"
    expired,    \* conn -> sides whose deadline has passed
    copier,     \* conn -> side -> "off", "read", "write", "eof", "done"
    got,        \* conn -> side -> chunks written to the other side
    eof         \* conn -> sides whose end has been passed on (CloseWrite)

VARIABLES       \* the peers
    sent,       \* conn -> side -> chunks sent
    fin,        \* conn -> sides that have finished sending
    broken      \* conn -> sides that have reset the connection

serveVars == <<servePc, canceled, listening, health, loop, timedOut>>
connVars == <<handler, after, expired, copier, got, eof>>
peerVars == <<sent, fin, broken>>
vars == <<serveVars, connVars, peerVars>>

(* The types; in particular no more is passed on than was sent.            *)
TCPTypeOK ==
    /\ servePc \in {"bind", "serve", "join", "drain", "stop", "returned"}
    /\ canceled \in BOOLEAN
    /\ listening \subseteq Listeners
    /\ health \in BOOLEAN
    /\ loop \in [Listeners -> {"off", "accept"} \cup Conns]
    /\ timedOut \in BOOLEAN
    /\ handler \in [Conns -> {"none", "dial", "arm", "header", "splice",
                              "unwind", "done"}]
    /\ after \in [Conns -> {"off", "armed", "client", "server"}]
    /\ expired \in [Conns -> SUBSET Sides]
    /\ copier \in [Conns -> [Sides -> {"off", "read", "write", "eof", "done"}]]
    /\ got \in [Conns -> [Sides -> 0..MaxChunks]]
    /\ eof \in [Conns -> SUBSET Sides]
    /\ sent \in [Conns -> [Sides -> 0..MaxChunks]]
    /\ fin \in [Conns -> SUBSET Sides]
    /\ broken \in [Conns -> SUBSET Sides]
    /\ \A c \in Conns : \A s \in Sides : got[c][s] <= sent[c][s]

-----------------------------------------------------------------------------
(* Serve, from the first listener to the accept loops.                     *)

Bind(l) ==
    /\ servePc = "bind"
    /\ l \notin listening
    /\ listening' = listening \cup {l}
    /\ UNCHANGED <<servePc, canceled, health, loop, timedOut, connVars, peerVars>>

\* Mutant: what is open already is not closed.
MutStartFails ==
    /\ servePc = "bind"
    /\ servePc' = "returned"
    /\ UNCHANGED <<canceled, listening, health, loop, timedOut, connVars,
                   peerVars>>

(* A listener, or the health server after the last one, cannot be bound:   *)
(* closeAllOpened, and Serve returns the error.                            *)
StartFails ==
    /\ servePc = "bind"
    /\ servePc' = "returned"
    /\ listening' = {}
    /\ UNCHANGED <<canceled, health, loop, timedOut, connVars, peerVars>>

StartLoops ==
    /\ servePc = "bind"
    /\ listening = Listeners
    /\ servePc' = "serve"
    /\ health' = TRUE
    /\ loop' = [l \in Listeners |-> "accept"]
    /\ UNCHANGED <<canceled, listening, timedOut, connVars, peerVars>>

(* The signal.                                                             *)
Cancel ==
    /\ ~canceled
    /\ canceled' = TRUE
    /\ UNCHANGED <<servePc, listening, health, loop, timedOut, connVars, peerVars>>

-----------------------------------------------------------------------------
(* acceptLoop.                                                             *)

Accept(l, c) ==
    /\ loop[l] = "accept"
    /\ l \in listening
    /\ handler[c] = "none"
    /\ \A k \in Listeners : loop[k] # c
    /\ loop' = [loop EXCEPT ![l] = c]
    /\ UNCHANGED <<servePc, canceled, listening, health, timedOut, connVars,
                   peerVars>>

(* conns.Add(1), and the goroutine of handle.                              *)
Spawn(l) ==
    /\ loop[l] \in Conns
    /\ handler' = [handler EXCEPT ![loop[l]] = "dial"]
    /\ loop' = [loop EXCEPT ![l] = "accept"]
    /\ UNCHANGED <<servePc, canceled, listening, health, timedOut, after,
                   expired, copier, got, eof, peerVars>>

AcceptReturns(l) ==
    /\ loop[l] = "accept"
    /\ l \notin listening
    /\ loop' = [loop EXCEPT ![l] = "off"]
    /\ UNCHANGED <<servePc, canceled, listening, health, timedOut, connVars,
                   peerVars>>

-----------------------------------------------------------------------------
(* Serve, after ctx.Done().                                                *)

(* The goroutine of startHealthServer that waits for ctx.                  *)
HealthStops ==
    /\ canceled
    /\ health
    /\ health' = FALSE
    /\ UNCHANGED <<servePc, canceled, listening, loop, timedOut, connVars, peerVars>>

\* Mutant: closeAll stops before the last listener.
MutCloseListeners ==
    /\ servePc = "serve"
    /\ canceled
    /\ \E l \in listening : listening' = {l}
    /\ servePc' = "join"
    /\ UNCHANGED <<canceled, health, loop, timedOut, connVars, peerVars>>

CloseListeners ==
    /\ servePc = "serve"
    /\ canceled
    /\ listening' = {}
    /\ servePc' = "join"
    /\ UNCHANGED <<canceled, health, loop, timedOut, connVars, peerVars>>

\* Mutant: Serve does not wait for the accept loops.
MutJoin ==
    /\ servePc = "join"
    /\ servePc' = "drain"
    /\ UNCHANGED <<canceled, listening, health, loop, timedOut, connVars,
                   peerVars>>

(* accepts.Wait().                                                         *)
Join ==
    /\ servePc = "join"
    /\ \A l \in Listeners : loop[l] = "off"
    /\ servePc' = "drain"
    /\ UNCHANGED <<canceled, listening, health, loop, timedOut, connVars,
                   peerVars>>

(* waitTimeout: every goroutine of handle has called conns.Done().         *)
Drained ==
    /\ servePc = "drain"
    /\ \A c \in Conns : handler[c] \in {"none", "done"}
    /\ servePc' = "stop"
    /\ UNCHANGED <<canceled, listening, health, loop, timedOut, connVars,
                   peerVars>>

DrainTimeout ==
    /\ servePc = "drain"
    /\ servePc' = "stop"
    /\ timedOut' = TRUE
    /\ UNCHANGED <<canceled, listening, health, loop, connVars, peerVars>>

(* The deferred stopHealth.                                                *)
ServeReturns ==
    /\ servePc = "stop"
    /\ servePc' = "returned"
    /\ health' = FALSE
    /\ UNCHANGED <<canceled, listening, loop, timedOut, connVars, peerVars>>

-----------------------------------------------------------------------------
(* handle.                                                                 *)

DialSucceeds(c) ==
    /\ handler[c] = "dial"
    /\ ~canceled
    /\ handler' = [handler EXCEPT ![c] = "arm"]
    /\ UNCHANGED <<serveVars, after, expired, copier, got, eof, peerVars>>

(* The upstream refuses, five seconds have passed, or ctx is done.         *)
DialFails(c) ==
    /\ handler[c] = "dial"
    /\ handler' = [handler EXCEPT ![c] = "unwind"]
    /\ UNCHANGED <<serveVars, after, expired, copier, got, eof, peerVars>>

(* The two copiers start together.                                         *)
Splicing(c) == [copier EXCEPT ![c] = [s \in Sides |-> "read"]]

(* context.AfterFunc; if ctx is done already the function runs at once.    *)
Arm(c) ==
    /\ handler[c] = "arm"
    /\ after' = [after EXCEPT ![c] = "armed"]
    /\ handler' = [handler EXCEPT ![c] =
                       IF SendsHeader THEN "header" ELSE "splice"]
    /\ copier' = IF SendsHeader THEN copier ELSE Splicing(c)
    /\ UNCHANGED <<serveVars, expired, got, eof, peerVars>>

Unusable(c, s) == s \in expired[c] \cup broken[c] \/ handler[c] = "done"

WriteHeader(c) ==
    /\ handler[c] = "header"
    /\ ~Unusable(c, "server")
    /\ handler' = [handler EXCEPT ![c] = "splice"]
    /\ copier' = Splicing(c)
    /\ UNCHANGED <<serveVars, after, expired, got, eof, peerVars>>

HeaderFails(c) ==
    /\ handler[c] = "header"
    /\ Unusable(c, "server")
    /\ handler' = [handler EXCEPT ![c] = "unwind"]
    /\ UNCHANGED <<serveVars, after, expired, copier, got, eof, peerVars>>

\* Mutant: splice returns with the first direction that ends.
MutSpliceReturns(c) ==
    /\ handler[c] = "splice"
    /\ \E s \in Sides : copier[c][s] = "done"
    /\ handler' = [handler EXCEPT ![c] = "unwind"]
    /\ UNCHANGED <<serveVars, after, expired, copier, got, eof, peerVars>>

(* wg.Wait() of splice.                                                    *)
SpliceReturns(c) ==
    /\ handler[c] = "splice"
    /\ \A s \in Sides : copier[c][s] = "done"
    /\ handler' = [handler EXCEPT ![c] = "unwind"]
    /\ UNCHANGED <<serveVars, after, expired, copier, got, eof, peerVars>>

(* The deferred calls: stop() keeps the function from being called unless  *)
(* it has been, both connections are closed, which ends both streams for   *)
(* the peers, and conns.Done().                                            *)
Unwind(c) ==
    /\ handler[c] = "unwind"
    /\ handler' = [handler EXCEPT ![c] = "done"]
    /\ after' = [after EXCEPT ![c] =
                     IF @ = "armed" /\ ~canceled THEN "off" ELSE @]
    /\ eof' = [eof EXCEPT ![c] = Sides]
    /\ UNCHANGED <<serveVars, expired, copier, got, peerVars>>

-----------------------------------------------------------------------------
(* The function given to AfterFunc, in a goroutine of its own.             *)

ExpireClient(c) ==
    /\ after[c] = "armed"
    /\ canceled
    /\ after' = [after EXCEPT ![c] = "client"]
    /\ expired' = [expired EXCEPT ![c] = @ \cup {"client"}]
    /\ UNCHANGED <<serveVars, handler, copier, got, eof, peerVars>>

ExpireServer(c) ==
    /\ after[c] = "client"
    /\ after' = [after EXCEPT ![c] = "server"]
    /\ expired' = [expired EXCEPT ![c] = @ \cup {"server"}]
    /\ UNCHANGED <<serveVars, handler, copier, got, eof, peerVars>>

-----------------------------------------------------------------------------
(* copyAndCloseWrite from side s to the other one.                         *)

\* Mutant: what was read before is read again.
MutRead(c, s) ==
    /\ copier[c][s] = "read"
    /\ ~Unusable(c, s)
    /\ sent[c][s] > 0
    /\ copier' = [copier EXCEPT ![c][s] = "write"]
    /\ UNCHANGED <<serveVars, handler, after, expired, got, eof, peerVars>>

Read(c, s) ==
    /\ copier[c][s] = "read"
    /\ ~Unusable(c, s)
    /\ got[c][s] < sent[c][s]
    /\ copier' = [copier EXCEPT ![c][s] = "write"]
    /\ UNCHANGED <<serveVars, handler, after, expired, got, eof, peerVars>>

ReadEnds(c, s) ==
    /\ copier[c][s] = "read"
    /\ \/ Unusable(c, s)
       \/ s \in fin[c] /\ got[c][s] = sent[c][s]
    /\ copier' = [copier EXCEPT ![c][s] = "eof"]
    /\ UNCHANGED <<serveVars, handler, after, expired, got, eof, peerVars>>

(* dst.Write returns; it need not, if the peer does not read.              *)
WriteReturns(c, s) ==
    /\ copier[c][s] = "write"
    /\ ~Unusable(c, Other(s))
    /\ got' = [got EXCEPT ![c][s] = @ + 1]
    /\ copier' = [copier EXCEPT ![c][s] = "read"]
    /\ UNCHANGED <<serveVars, handler, after, expired, eof, peerVars>>

WriteFails(c, s) ==
    /\ copier[c][s] = "write"
    /\ Unusable(c, Other(s))
    /\ copier' = [copier EXCEPT ![c][s] = "eof"]
    /\ UNCHANGED <<serveVars, handler, after, expired, got, eof, peerVars>>

CloseWrite(c, s) ==
    /\ copier[c][s] = "eof"
    /\ copier' = [copier EXCEPT ![c][s] = "done"]
    /\ eof' = [eof EXCEPT ![c] = @ \cup {s}]
    /\ UNCHANGED <<serveVars, handler, after, expired, got, peerVars>>

-----------------------------------------------------------------------------
(* The peers.  There is an upstream once it has been dialed; a connection  *)
(* is reset once at most, after which nobody sends any more.               *)

Connected(c, s) ==
    /\ <<c, s>> \in Chatty
    /\ handler[c] \in {"arm", "header", "splice"} \cup
                      (IF s = "client" THEN {"dial"} ELSE {})
    /\ broken[c] = {}

Send(c, s) ==
    /\ Connected(c, s)
    /\ s \notin fin[c]
    /\ sent[c][s] < MaxChunks
    /\ sent' = [sent EXCEPT ![c][s] = @ + 1]
    /\ UNCHANGED <<serveVars, connVars, fin, broken>>

Finish(c, s) ==
    /\ Connected(c, s)
    /\ s \notin fin[c]
    /\ fin' = [fin EXCEPT ![c] = @ \cup {s}]
    /\ UNCHANGED <<serveVars, connVars, sent, broken>>

Reset(c, s) ==
    /\ Connected(c, s)
    /\ broken' = [broken EXCEPT ![c] = @ \cup {s}]
    /\ UNCHANGED <<serveVars, connVars, sent, fin>>

-----------------------------------------------------------------------------
Init ==
    /\ servePc = "bind"
    /\ canceled = FALSE
    /\ listening = {}
    /\ health = FALSE
    /\ loop = [l \in Listeners |-> "off"]
    /\ timedOut = FALSE
    /\ handler = [c \in Conns |-> "none"]
    /\ after = [c \in Conns |-> "off"]
    /\ expired = [c \in Conns |-> {}]
    /\ copier = [c \in Conns |-> [s \in Sides |-> "off"]]
    /\ got = [c \in Conns |-> [s \in Sides |-> 0]]
    /\ eof = [c \in Conns |-> {}]
    /\ sent = [c \in Conns |-> [s \in Sides |-> 0]]
    /\ fin = [c \in Conns |-> {}]
    /\ broken = [c \in Conns |-> {}]

Serve ==
    \/ \E l \in Listeners : Bind(l)
    \/ StartLoops \/ CloseListeners \/ Join \/ Drained \/ ServeReturns

AcceptLoop(l) ==
    \/ Spawn(l) \/ AcceptReturns(l)

Handle(c) ==
    \/ DialFails(c) \/ Arm(c) \/ WriteHeader(c) \/ HeaderFails(c)
    \/ SpliceReturns(c) \/ Unwind(c)

AfterFunc(c) == ExpireClient(c) \/ ExpireServer(c)

Copier(c, s) ==
    \/ Read(c, s) \/ ReadEnds(c, s) \/ WriteFails(c, s) \/ CloseWrite(c, s)

Peer(c, s) == Send(c, s) \/ Finish(c, s) \/ Reset(c, s)

Next ==
    \/ Serve \/ StartFails \/ DrainTimeout \/ HealthStops \/ Cancel
    \/ \E l \in Listeners :
           AcceptLoop(l) \/ \E c \in Conns : Accept(l, c)
    \/ \E c \in Conns :
           \/ Handle(c) \/ DialSucceeds(c) \/ AfterFunc(c)
           \/ \E s \in Sides :
                  Copier(c, s) \/ WriteReturns(c, s) \/ Peer(c, s)

(* Every goroutine that can run does so, and the timer of waitTimeout goes *)
(* off.  Nothing is assumed of clients, upstreams or the signal; a dial    *)
(* ends one way or the other within five seconds.                          *)
Spec == Init /\ [][Next]_vars

FairSpec ==
    /\ Spec
    /\ WF_vars(Serve)
    /\ WF_vars(DrainTimeout)
    /\ \A l \in Listeners : WF_vars(AcceptLoop(l))
    /\ \A c \in Conns :
           /\ WF_vars(Handle(c))
           /\ WF_vars(AfterFunc(c))
           /\ \A s \in Sides : WF_vars(Copier(c, s))

-----------------------------------------------------------------------------
(* When Serve has returned, with an error or not, no listener is open, the *)
(* health server is down and no acceptLoop runs; and no connection is left *)
(* either, unless the drain timed out (Serve, proxy.go:158-170, 220-239).  *)
NothingOutlivesServe ==
    servePc = "returned" =>
        /\ listening = {}
        /\ ~health
        /\ \A l \in Listeners : loop[l] = "off"
        /\ timedOut \/ \A c \in Conns : handler[c] \in {"none", "done"}

(* Once Serve waits for the connections none is added any more, which is   *)
(* also what sync.WaitGroup demands: no Add from zero beside Wait.  A      *)
(* connection accepted while the listeners were being closed counts        *)
(* (acceptLoop, proxy.go:258-262; Serve, proxy.go:227-233).                *)
NoneAddedWhileWaiting ==
    [][(servePc \in {"drain", "stop", "returned"}) =>
           (\A c \in Conns : handler[c] = "none" => handler'[c] = "none")]_vars

(* A stream is ended for one peer only after the other has ended it and    *)
(* all of its data has been passed on, in whichever order the two          *)
(* directions end: half-closed connections go on.  The exceptions are a    *)
(* reset and the shutdown (splice, copyAndCloseWrite, proxy.go:325-353).   *)
EndOfStreamIsReal ==
    \A c \in Conns : \A s \in eof[c] :
        (copier[c][s] # "off" /\ broken[c] = {} /\ expired[c] = {}) =>
            s \in fin[c] /\ got[c][s] = sent[c][s]

(* Once ctx is done Serve returns, whether it is still binding its         *)
(* listeners or serving, whatever is being accepted meanwhile and whatever *)
(* the peers do: no accept loop is waited for whose listener stays open    *)
(* (proxy.go:132-133, 220-239).                                            *)
ServeReturnsInTheEnd == canceled ~> servePc = "returned"

(* proxy_test.go:84: "graceful shutdown drains in-flight connections", for *)
(* as long as the drain timeout allows (proxy.go:118-119).  So a           *)
(* connection that nobody has reset is ended for a peer only when the      *)
(* other one has finished and all of its data has arrived, unless the      *)
(* timeout has elapsed.  But handle puts a deadline of now on both sides   *)
(* as soon as ctx is done (proxy.go:285-288).                              *)
InFlightDrained ==
    \A c \in Conns : \A s \in eof[c] :
        (copier[c][s] # "off" /\ broken[c] = {} /\ ~timedOut) =>
            s \in fin[c] /\ got[c][s] = sent[c][s]
=============================================================================
