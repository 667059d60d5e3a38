---------------------------- MODULE FirewallAgent ----------------------------
(***************************************************************************)
(* The firewall-agent of one node (internal/firewall/firewall.go) on the   *)
(* firewalld backend: a controller-runtime reconciler that watches LBPorts *)
(* through an informer cache, applies the ports they ask for, and reports  *)
(* back by putting its node into their status.                             *)
(*                                                                         *)
(* Whatever request woke it, Reconcile lists the whole cache, so a request *)
(* is only a reason to run.  The work queue holds each name at most once.  *)
(*                                                                         *)
(* The API server, the informer (an ordered stream of watch events, and a  *)
(* periodic resync) and the work queue are external; they are modelled as  *)
(* the reconciler relies on them.  Reading the cache, loading the state    *)
(* file and reading the zone are one step: each reads something the other  *)
(* two do not, so any behaviour that separates them is one with the        *)
(* intervening steps moved before or after.                                *)
(***************************************************************************)
EXTENDS FirewalldBackend, PortPolicy, Sequences

CONSTANTS
    DenyLists,  \* deniedPorts as the ConfigMap may hold it at a start
    Budget      \* how often each kind of outside event may happen

Kinds == {"edit", "crash", "fault", "statusFault", "host"}

ASSUME KeysAssumption == Keys \subseteq PortKey /\ KeyOf \in [Names -> Keys]

ASSUME EnvironmentAssumption ==
    /\ DenyLists \subseteq SUBSET PortNumbers
    /\ DenyLists # {}
    /\ Budget \in [Kinds -> Nat]

VARIABLES
    api,      \* the LBPorts on the API server
    pending,  \* watch events sent and not yet seen by the informer
    cache,    \* the informer cache
    queue,    \* names in the work queue
    pc,       \* where the agent is: "down", "idle", "apply", "status"
    req,      \* the name being reconciled
    listed,   \* the LBPorts the running Reconcile listed
    todo,     \* names whose status it has still to look at
    denied,   \* Policy.DeniedPorts of the running process
    budget    \* what is left of Budget

clusterVars == <<api, pending>>
workVars == <<cache, queue, pc, req, listed, todo>>
agentVars == <<clusterVars, workVars, denied, budget>>
vars == <<backendVars, agentVars>>

Nothing == [n \in Names |-> Absent]
Objects == LBPort \cup {Absent}
Event == [name : Names, lbport : Objects]

ClusterTypeOK == api \in [Names -> Objects] /\ pending \in Seq(Event)

CacheTypeOK == cache \in [Names -> Objects] /\ listed \in [Names -> Objects]

WorkTypeOK ==
    /\ queue \subseteq Names
    /\ pc \in {"down", "idle", "apply", "status"}
    /\ req \in Names \cup {Absent}
    /\ todo \subseteq Existing(listed)

(* The reconciler is in Backend.Apply exactly while a call is running.     *)
CallMatchesPc == (phase = "applying") <=> (pc = "apply")

AgentTypeOK ==
    /\ BackendTypeOK
    /\ ClusterTypeOK
    /\ CacheTypeOK
    /\ WorkTypeOK
    /\ denied \subseteq PortNumbers
    /\ budget \in [Kinds -> Nat]
    /\ CallMatchesPc

Spend(kind) ==
    /\ budget[kind] > 0
    /\ budget' = [budget EXCEPT ![kind] = @ - 1]

-----------------------------------------------------------------------------
(* The API server and the controller that writes LBPorts.                  *)

(* A write is stored and sent to the watch, if the agent has one.          *)
Store(n, lbport) ==
    /\ api' = [api EXCEPT ![n] = lbport]
    /\ pending' = IF pc = "down" THEN pending
                  ELSE Append(pending, [name |-> n, lbport |-> lbport])

CreateLBPort(n, nodes, allowPrivileged) ==
    /\ api[n] = Absent
    /\ Spend("edit")
    /\ Store(n, [nodes |-> nodes, allowPrivileged |-> allowPrivileged,
                 applied |-> FALSE])
    /\ UNCHANGED <<workVars, denied, backendVars>>

UpdateLBPort(n, nodes, allowPrivileged) ==
    /\ api[n] # Absent
    /\ <<nodes, allowPrivileged>> # <<api[n].nodes, api[n].allowPrivileged>>
    /\ Spend("edit")
    /\ Store(n, [nodes |-> nodes, allowPrivileged |-> allowPrivileged,
                 applied |-> api[n].applied])
    /\ UNCHANGED <<workVars, denied, backendVars>>

DeleteLBPort(n) ==
    /\ api[n] # Absent
    /\ Spend("edit")
    /\ Store(n, Absent)
    /\ UNCHANGED <<workVars, denied, backendVars>>

-----------------------------------------------------------------------------
(* The informer.                                                           *)

WatchDeliver ==
    /\ pending # <<>>
    /\ LET e == Head(pending) IN
         /\ cache' = [cache EXCEPT ![e.name] = e.lbport]
         /\ queue' = queue \cup {e.name}
    /\ pending' = Tail(pending)
    /\ UNCHANGED <<api, pc, req, listed, todo, denied, budget, backendVars>>

(* controller-runtime replays the cache every SyncPeriod (10 hours).       *)
Resync ==
    /\ pc # "down"
    /\ queue' = queue \cup Existing(cache)
    /\ UNCHANGED <<clusterVars, cache, pc, req, listed, todo, denied, budget,
                   backendVars>>

-----------------------------------------------------------------------------
(* Reconcile.                                                              *)

StartReconcile(n) ==
    /\ pc = "idle"
    /\ n \in queue
    /\ queue' = queue \ {n}
    /\ req' = n
    /\ listed' = cache
    /\ pc' = "apply"
    /\ BeginApply(Filter(cache, denied))
    /\ UNCHANGED <<clusterVars, cache, todo, denied, budget>>

ApplyPort(k) ==
    /\ AddPort(k) \/ RemovePort(k)
    /\ UNCHANGED agentVars

\* Mutant: the LBPorts are listed again for the status updates.
MutApplySucceeds ==
    /\ Save
    /\ pc' = "status"
    /\ todo' = Existing(cache)
    /\ UNCHANGED <<clusterVars, cache, queue, req, listed, denied, budget>>

ApplySucceeds ==
    /\ Save
    /\ pc' = "status"
    /\ todo' = Existing(listed)
    /\ UNCHANGED <<clusterVars, cache, queue, req, listed, denied, budget>>

(* The work queue takes the request back for a retry.                      *)
ReconcileFails ==
    /\ ApplyFails
    /\ pc' = "idle"
    /\ queue' = queue \cup {req}
    /\ req' = Absent
    /\ listed' = Nothing
    /\ UNCHANGED <<clusterVars, cache, todo, denied>>

(* firewalld refuses the next call: an operator or a reload has changed    *)
(* the zone since Apply read it.                                           *)
Refused ==
    IF toAdd # {} THEN toAdd \cap Zone # {}
                  ELSE toRemove \ Zone # {}

ApplyRefused == Refused /\ ReconcileFails /\ UNCHANGED budget

ApplyFault == Spend("fault") /\ ReconcileFails

(* ensureNodeInStatus and ensureNodeNotInStatus: the LBPort is read again  *)
(* from the cache, and the write carries that version.  A write that the   *)
(* API server refuses (a newer version exists, or the object is gone) is   *)
(* logged and counts as done.                                              *)
StatusWritten(n, should) ==
    /\ cache[n] # Absent
    /\ cache[n].applied # should
    /\ \A i \in 1..Len(pending) : pending[i].name # n

WithApplied(lbport, should) == [lbport EXCEPT !.applied = should]

\* Mutant: a node is added to the status and never taken out again.
MutUpdateStatusAddsOnly(n) ==
    /\ pc = "status"
    /\ n \in todo
    /\ todo' = todo \ {n}
    /\ IF ShouldApply(listed, n, Filter(listed, denied)) /\ StatusWritten(n, TRUE)
         THEN Store(n, WithApplied(cache[n], TRUE))
         ELSE UNCHANGED clusterVars
    /\ UNCHANGED <<cache, queue, pc, req, listed, denied, budget, backendVars>>

UpdateStatus(n) ==
    LET should == ShouldApply(listed, n, Filter(listed, denied)) IN
    /\ pc = "status"
    /\ n \in todo
    /\ todo' = todo \ {n}
    /\ IF StatusWritten(n, should)
         THEN Store(n, WithApplied(cache[n], should))
         ELSE UNCHANGED clusterVars
    /\ UNCHANGED <<cache, queue, pc, req, listed, denied, budget, backendVars>>

(* Any other error of the write is only logged, too.                       *)
StatusFault(n) ==
    /\ pc = "status"
    /\ n \in todo
    /\ Spend("statusFault")
    /\ todo' = todo \ {n}
    /\ UNCHANGED <<clusterVars, cache, queue, pc, req, listed, denied,
                   backendVars>>

ReconcileDone ==
    /\ pc = "status"
    /\ todo = {}
    /\ pc' = "idle"
    /\ req' = Absent
    /\ listed' = Nothing
    /\ UNCHANGED <<clusterVars, cache, queue, todo, denied, budget,
                   backendVars>>

-----------------------------------------------------------------------------
(* The process.                                                            *)

Crash ==
    /\ pc # "down"
    /\ Spend("crash")
    /\ IF pc = "apply" THEN ApplyFails ELSE UNCHANGED backendVars
    /\ pc' = "down"
    /\ pending' = <<>>
    /\ cache' = Nothing
    /\ queue' = {}
    /\ req' = Absent
    /\ listed' = Nothing
    /\ todo' = {}
    /\ UNCHANGED <<api, denied>>

\* Mutant: the state file does not survive the container.
MutStart ==
    /\ pc = "down"
    /\ pc' = "idle"
    /\ denied' \in DenyLists
    /\ cache' = api
    /\ queue' = Existing(api)
    /\ stateFile' = {}
    /\ UNCHANGED <<clusterVars, req, listed, todo, budget, zoneVars, callVars,
                   opened, interrupted>>

(* Run reads the ConfigMap once; the informer lists every LBPort and each  *)
(* one that exists becomes a request.                                      *)
Start ==
    /\ pc = "down"
    /\ pc' = "idle"
    /\ denied' \in DenyLists
    /\ cache' = api
    /\ queue' = Existing(api)
    /\ UNCHANGED <<clusterVars, req, listed, todo, budget, backendVars>>

-----------------------------------------------------------------------------
Init ==
    /\ BackendInit
    /\ api = Nothing
    /\ pending = <<>>
    /\ cache = Nothing
    /\ queue = {}
    /\ pc = "down"
    /\ req = Absent
    /\ listed = Nothing
    /\ todo = {}
    /\ denied = {}
    /\ budget = Budget

Edit ==
    \E n \in Names :
        \/ DeleteLBPort(n)
        \/ \E nodes \in NodeLists, allowPrivileged \in BOOLEAN :
               \/ CreateLBPort(n, nodes, allowPrivileged)
               \/ UpdateLBPort(n, nodes, allowPrivileged)

(* The reconciler's own steps: one worker, so one at a time.               *)
ReconcileStep ==
    \/ \E n \in Names : StartReconcile(n) \/ UpdateStatus(n)
    \/ \E k \in Keys : ApplyPort(k)
    \/ ApplySucceeds
    \/ ApplyRefused
    \/ ReconcileDone

Host ==
    /\ HostStep
    /\ Spend("host")
    /\ UNCHANGED <<clusterVars, workVars, denied>>

Next ==
    \/ Edit
    \/ WatchDeliver
    \/ Resync
    \/ ReconcileStep
    \/ ApplyFault
    \/ \E n \in Names : StatusFault(n)
    \/ Crash
    \/ Start
    \/ Host

Spec == Init /\ [][Next]_vars

(* The informer delivers and resyncs, the worker goroutine is scheduled,   *)
(* and the DaemonSet restarts the agent.  Nothing forces an edit, a fault, *)
(* a crash or an operator.                                                 *)
Fairness ==
    /\ WF_vars(WatchDeliver)
    /\ WF_vars(Resync)
    /\ WF_vars(ReconcileStep)
    /\ WF_vars(Start)

FairSpec == Spec /\ Fairness

-----------------------------------------------------------------------------
(* Properties.                                                             *)

(* The ports this node should have open: what the LBPorts on the API       *)
(* server ask for, less what the policy refuses.                           *)
Wanted == Filter(api, denied)

Quiescent == pc = "idle" /\ queue = {} /\ pending = <<>>

(* No write of a status has failed but for being refused.                  *)
NoStatusFault == budget["statusFault"] = Budget["statusFault"]

(* Once there is nothing left to do, an LBPort's status names this node    *)
(* exactly if the agent applied its port: stale cache reads, refused       *)
(* writes, failed Applies and crashes between two status writes are all    *)
(* repaired by an event that is still to come.  Only a status write that   *)
(* fails for another reason may leave a wrong one until the next event.    *)
StatusSettles ==
    Quiescent /\ NoStatusFault =>
        \A n \in Existing(api) :
            api[n].applied <=> ShouldApply(api, n, Wanted)

(* In the end every status is right and stays right, even though a write   *)
(* that fails is only logged and never retried: the next event or resync   *)
(* makes up for it.                                                        *)
StatusTrueInTheEnd ==
    <>[](\A n \in Existing(api) :
            api[n].applied <=> ShouldApply(api, n, Wanted))

(* The agent never opens a port of its denylist ("Ports the agent must     *)
(* never open"), nor one that no listed LBPort wants on this node, nor a   *)
(* privileged one that none of them allows.                                *)
OpensOnlyAllowedPorts ==
    [][\A k \in bulbOpen' \ bulbOpen :
           /\ k.port \notin denied
           /\ \E n \in Existing(listed) :
                  /\ KeyOf[n] = k
                  /\ appliesToNode(listed[n])
                  /\ k.port >= 1024 \/ listed[n].allowPrivileged]_vars

(* Every port that should be open is open in the end, and stays open:      *)
(* through lost calls, crashes, reloads and operators.                     *)
WantedPortsOpenInTheEnd == <>[](pc # "down" /\ Wanted \subseteq GetPorts)

(* Every port that bulb opened and tracks is closed in the end when it is  *)
(* not wanted any more, as long as some LBPort is left to wake the agent:  *)
(* one that restarts with none left has no event to reconcile for, so it   *)
(* never looks at its state file.                                          *)
TrackedPortsCloseInTheEnd ==
    <>[](Existing(api) # {} => bulbOpen \ interrupted \subseteq Wanted)
=============================================================================
