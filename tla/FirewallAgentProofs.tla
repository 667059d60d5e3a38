------------------------- MODULE FirewallAgentProofs -------------------------
(***************************************************************************)
(* The agent on its backend, for every set of LBPorts, ports, denylists    *)
(* and budgets: it drives the backend only as FirewalldBackend allows, so  *)
(* it inherits what is proved there; and it opens nothing that the policy  *)
(* refuses, although it works from LBPorts listed some time ago.           *)
(***************************************************************************)
EXTENDS FirewallAgent, FirewalldBackendProofs

(* The policy's output is made of the ports of LBPorts.                    *)
LEMMA FilterInKeys ==
    ASSUME NEW lbports, NEW deniedPorts
    PROVE  Filter(lbports, deniedPorts) \in SUBSET Keys
<1>1. \A n \in Names : KeyOf[n] \in Keys
  BY KeysAssumption
<1>2. DesiredPortsForNode(lbports) \subseteq Keys
  BY <1>1 DEF DesiredPortsForNode, Existing
<1> QED
  BY <1>2 DEF Filter

(* Every step of the agent's system is a step of the backend or leaves the *)
(* zone, the state file and the call alone.                                *)
LEMMA AgentStepIsBackendStep ==
    [Next]_vars => [BackendNext]_backendVars
<1> SUFFICES ASSUME [Next]_vars
             PROVE  BackendNext \/ UNCHANGED backendVars
  OBVIOUS
<1>1. CASE UNCHANGED vars
  BY <1>1 DEF vars
<1>2. CASE Edit
  BY <1>2 DEF Edit, CreateLBPort, UpdateLBPort, DeleteLBPort
<1>3. CASE WatchDeliver
  BY <1>3 DEF WatchDeliver
<1>4. CASE Resync
  BY <1>4 DEF Resync
<1>5. CASE ReconcileStep
  <2>1. ASSUME NEW n \in Names, StartReconcile(n)
        PROVE  BackendNext
    <3>1. BeginApply(Filter(cache, denied))
      BY <2>1 DEF StartReconcile
    <3> QED
      BY <3>1, FilterInKeys DEF BackendNext
  <2>2. ASSUME NEW n \in Names, UpdateStatus(n)
        PROVE  UNCHANGED backendVars
    BY <2>2 DEF UpdateStatus
  <2>3. ASSUME NEW k \in Keys, ApplyPort(k)
        PROVE  BackendNext
    BY <2>3 DEF ApplyPort, BackendNext, ApplyStep
  <2>4. CASE ApplySucceeds
    BY <2>4 DEF ApplySucceeds, BackendNext, ApplyStep
  <2>5. CASE ApplyRefused
    BY <2>5 DEF ApplyRefused, ReconcileFails, BackendNext
  <2>6. CASE ReconcileDone
    BY <2>6 DEF ReconcileDone
  <2> QED
    BY <1>5, <2>1, <2>2, <2>3, <2>4, <2>5, <2>6 DEF ReconcileStep
<1>6. CASE ApplyFault
  BY <1>6 DEF ApplyFault, ReconcileFails, BackendNext
<1>7. ASSUME NEW n \in Names, StatusFault(n)
      PROVE  UNCHANGED backendVars
  BY <1>7 DEF StatusFault
<1>8. CASE Crash
  BY <1>8 DEF Crash, BackendNext
<1>9. CASE Start
  BY <1>9 DEF Start
<1>10. CASE Host
  BY <1>10 DEF Host, BackendNext
<1> QED
  BY <1>1, <1>2, <1>3, <1>4, <1>5, <1>6, <1>7, <1>8, <1>9, <1>10 DEF Next

(* The reconciler implements the specification of its backend: BackendSpec *)
(* describes all that an agent can do to a firewalld zone.                 *)
THEOREM AgentImplementsBackend == Spec => BackendSpec
<1>1. Init => BackendInit
  BY DEF Init
<1> QED
  BY <1>1, AgentStepIsBackendStep, PTL DEF Spec, BackendSpec

(* So the agent closes no port that was never bulb's, and every port it    *)
(* has open is tracked or was opened by an interrupted call.               *)
THEOREM AgentInheritsBackend ==
    Spec => NeverClosesForeignPort /\ []OpenPortsAccountedFor
BY AgentImplementsBackend, BackendSparesForeignPorts, BackendAccounting, PTL

-----------------------------------------------------------------------------
(* The policy.                                                             *)

(* What the running call has still to open is what the policy made of the  *)
(* LBPorts it listed; between two calls there is nothing to open.          *)
CallMatchesPolicy ==
    /\ phase = "idle" => toAdd = {}
    /\ toAdd \subseteq Filter(listed, denied)

PolicyInv == phase \in {"idle", "applying"} /\ CallMatchesPc /\ CallMatchesPolicy

(* Before the first start no call is running.                              *)
LEMMA PolicyInitInv == Init => PolicyInv
BY DEF Init, BackendInit, PolicyInv, CallMatchesPc, CallMatchesPolicy

(* What CallEnds leaves behind, for the steps that abandon a call.         *)
LEMMA CallEndsInv ==
    ASSUME CallEnds, pc' # "apply"
    PROVE  PolicyInv'
BY DEF CallEnds, PolicyInv, CallMatchesPc, CallMatchesPolicy

(* The snapshot of a call, and the LBPorts and denylist it came from.      *)
LEMMA StartReconcileInv ==
    ASSUME PolicyInv, NEW n \in Names, StartReconcile(n)
    PROVE  PolicyInv'
<1>1. toAdd' \subseteq Filter(cache, denied)
  BY DEF StartReconcile, BeginApply, PortsToAdd
<1>2. Filter(listed, denied)' = Filter(cache, denied)
  BY DEF StartReconcile, Filter, DesiredPortsForNode, PrivilegedAllowed, Existing,
         appliesToNode
<1> QED
  BY <1>1, <1>2 DEF StartReconcile, BeginApply, PolicyInv, CallMatchesPc,
                    CallMatchesPolicy

(* A step that keeps the call, its LBPorts and the denylist.               *)
LEMMA SameCallInv ==
    ASSUME PolicyInv, UNCHANGED <<phase, listed, denied>>,
           toAdd' \subseteq toAdd, (pc' = "apply") <=> (pc = "apply")
    PROVE  PolicyInv'
<1>1. Filter(listed, denied)' = Filter(listed, denied)
  BY DEF Filter, DesiredPortsForNode, PrivilegedAllowed, Existing, appliesToNode
<1> QED
  BY <1>1 DEF PolicyInv, CallMatchesPc, CallMatchesPolicy

(* A step outside a call that changes the LBPorts or the denylist.         *)
LEMMA NoCallInv ==
    ASSUME PolicyInv, UNCHANGED <<phase, toAdd>>, pc # "apply", pc' # "apply"
    PROVE  PolicyInv'
BY DEF PolicyInv, CallMatchesPc, CallMatchesPolicy

(* Whatever happens during a call, its ports stay those the policy lets    *)
(* through.                                                                *)
LEMMA PolicyNextInv == PolicyInv /\ [Next]_vars => PolicyInv'
<1> SUFFICES ASSUME PolicyInv, [Next]_vars
             PROVE  PolicyInv'
  OBVIOUS
<1> USE DEF backendVars, callVars, workVars
<1>1. CASE UNCHANGED vars
  BY <1>1, SameCallInv DEF vars, agentVars
<1>2. CASE Edit
  BY <1>2, SameCallInv DEF Edit, CreateLBPort, UpdateLBPort, DeleteLBPort
<1>3. CASE WatchDeliver
  BY <1>3, SameCallInv DEF WatchDeliver
<1>4. CASE Resync
  BY <1>4, SameCallInv DEF Resync
<1>5. CASE ReconcileStep
  <2>1. ASSUME NEW n \in Names, UpdateStatus(n)
        PROVE  PolicyInv'
    BY <2>1, SameCallInv DEF UpdateStatus
  <2>2. ASSUME NEW k \in Keys, ApplyPort(k)
        PROVE  PolicyInv'
    BY <2>2, SameCallInv DEF ApplyPort, AddPort, RemovePort, agentVars
  <2>3. CASE ApplySucceeds
    BY <2>3, CallEndsInv DEF ApplySucceeds, Save
  <2>4. CASE ApplyRefused
    BY <2>4, CallEndsInv DEF ApplyRefused, ReconcileFails, ApplyFails
  <2>5. CASE ReconcileDone
    BY <2>5, NoCallInv DEF ReconcileDone
  <2> QED
    BY <1>5, <2>1, <2>2, <2>3, <2>4, <2>5, StartReconcileInv DEF ReconcileStep
<1>6. CASE ApplyFault
  BY <1>6, CallEndsInv DEF ApplyFault, ReconcileFails, ApplyFails
<1>7. ASSUME NEW n \in Names, StatusFault(n)
      PROVE  PolicyInv'
  BY <1>7, SameCallInv DEF StatusFault
<1>8. CASE Crash
  <2>1. CASE pc = "apply"
    BY <1>8, <2>1, CallEndsInv DEF Crash, ApplyFails
  <2>2. CASE pc # "apply"
    BY <1>8, <2>2, NoCallInv DEF Crash
  <2> QED
    BY <2>1, <2>2
<1>9. CASE Start
  BY <1>9, NoCallInv DEF Start
<1>10. CASE Host
  BY <1>10, SameCallInv DEF Host, HostStep, OperatorOpens, OperatorCloses, Reload
<1> QED
  BY <1>1, <1>2, <1>3, <1>4, <1>5, <1>6, <1>7, <1>8, <1>9, <1>10 DEF Next

(* Only AddPort opens anything for bulb.                                   *)
LEMMA OnlyAddPortOpens ==
    ASSUME [BackendNext]_backendVars
    PROVE  bulbOpen' \ bulbOpen \subseteq toAdd
BY DEF BackendNext, BeginApply, ApplyStep, AddPort, RemovePort, Save, ApplyFails,
       HostStep, OperatorOpens, OperatorCloses, Reload, backendVars, zoneVars

(* A port is let through only if an LBPort wants it here and allows it.    *)
LEMMA FilterSound ==
    ASSUME NEW lbports, NEW deniedPorts, NEW k \in Filter(lbports, deniedPorts)
    PROVE  /\ k.port \notin deniedPorts
           /\ \E n \in Existing(lbports) :
                 /\ KeyOf[n] = k
                 /\ appliesToNode(lbports[n])
                 /\ k.port >= 1024 \/ lbports[n].allowPrivileged
<1>1. CASE k.port >= 1024
  BY <1>1 DEF Filter, DesiredPortsForNode
<1>2. CASE PrivilegedAllowed(lbports, k)
  BY <1>2 DEF Filter, PrivilegedAllowed
<1> QED
  BY <1>1, <1>2 DEF Filter

(* The agent opens no port of the denylist, none that no LBPort it listed  *)
(* wants on this node, and no privileged one that none of them allows.     *)
THEOREM AgentObeysPolicy == Spec => OpensOnlyAllowedPorts
<1> DEFINE Obeys ==
      \A k \in bulbOpen' \ bulbOpen :
          /\ k.port \notin denied
          /\ \E n \in Existing(listed) :
                /\ KeyOf[n] = k
                /\ appliesToNode(listed[n])
                /\ k.port >= 1024 \/ listed[n].allowPrivileged
<1>1. PolicyInv /\ [Next]_vars => Obeys
  BY AgentStepIsBackendStep, OnlyAddPortOpens, FilterSound
     DEF PolicyInv, CallMatchesPolicy
<1>2. PolicyInv /\ [Next]_vars => [Obeys]_vars
  BY <1>1
<1> QED
  BY <1>2, PolicyInitInv, PolicyNextInv, PTL DEF Spec, OpensOnlyAllowedPorts

-----------------------------------------------------------------------------
(* Types.  Each part of AgentTypeOK has a lemma, with a step for every     *)
(* action that changes the part.                                           *)

(* A reconcile that can fail has a request to give back, and only one that *)
(* writes statuses has any left to write.                                  *)
ReconcileKnowsItsWork ==
    /\ pc = "apply" => req \in Names
    /\ pc # "status" => todo = {}

AgentInv == BackendInv /\ PolicyInv /\ AgentTypeOK /\ ReconcileKnowsItsWork

(* An empty list of LBPorts.                                               *)
LEMMA NothingIsTyped == Nothing \in [Names -> Objects] /\ Existing(Nothing) = {}
BY DEF Nothing, Objects, Existing

(* A status write leaves an LBPort an LBPort.                              *)
LEMMA WithAppliedTypeOK ==
    ASSUME NEW lbport \in LBPort, NEW should \in BOOLEAN
    PROVE  WithApplied(lbport, should) \in LBPort
BY DEF WithApplied, LBPort

(* A write to the API server, of an LBPort or of its deletion.             *)
LEMMA StoreTypeOK ==
    ASSUME ClusterTypeOK, NEW n \in Names, NEW lbport \in Objects, Store(n, lbport)
    PROVE  ClusterTypeOK'
<1>1. api' \in [Names -> Objects]
  BY DEF ClusterTypeOK, Store
<1>2. [name |-> n, lbport |-> lbport] \in Event
  BY DEF Event
<1>3. pending' \in Seq(Event)
  <2> DEFINE e == [name |-> n, lbport |-> lbport]
  <2>1. e \in Event
    BY <1>2
  <2>2. pending' = pending \/ pending' = Append(pending, e)
    BY DEF Store
  <2> HIDE DEF e
  <2> QED
    BY <2>1, <2>2 DEF ClusterTypeOK
<1> QED
  BY <1>1, <1>3 DEF ClusterTypeOK

(* Every write stores and announces an LBPort, or a deletion.              *)
LEMMA ClusterInv ==
    ASSUME AgentTypeOK, [Next]_vars
    PROVE  ClusterTypeOK'
<1> USE DEF AgentTypeOK
<1>1. CASE Edit
  <2>1. ASSUME NEW n \in Names, DeleteLBPort(n)
        PROVE  ClusterTypeOK'
    BY <2>1, StoreTypeOK DEF DeleteLBPort, Objects
  <2>2. ASSUME NEW n \in Names, NEW nodes \in NodeLists,
               NEW allowPrivileged \in BOOLEAN, NEW applied \in BOOLEAN
        PROVE  [nodes |-> nodes, allowPrivileged |-> allowPrivileged,
                applied |-> applied] \in Objects
    BY DEF Objects, LBPort
  <2>3. ASSUME NEW n \in Names, NEW nodes \in NodeLists,
               NEW allowPrivileged \in BOOLEAN,
               CreateLBPort(n, nodes, allowPrivileged)
        PROVE  ClusterTypeOK'
    BY <2>2, <2>3, StoreTypeOK DEF CreateLBPort
  <2>4. ASSUME NEW n \in Names, NEW nodes \in NodeLists,
               NEW allowPrivileged \in BOOLEAN,
               UpdateLBPort(n, nodes, allowPrivileged)
        PROVE  ClusterTypeOK'
    <3>1. api[n].applied \in BOOLEAN
      BY <2>4 DEF UpdateLBPort, ClusterTypeOK, Objects, LBPort
    <3> QED
      BY <2>2, <2>4, <3>1, StoreTypeOK DEF UpdateLBPort
  <2> QED
    BY <1>1, <2>1, <2>3, <2>4 DEF Edit
<1>2. CASE WatchDeliver
  BY <1>2 DEF WatchDeliver, ClusterTypeOK
<1>3. ASSUME NEW n \in Names, UpdateStatus(n)
      PROVE  ClusterTypeOK'
  <2> DEFINE should == ShouldApply(listed, n, Filter(listed, denied))
  <2>1. should \in BOOLEAN
    BY DEF ShouldApply, appliesToNode
  <2>2. IF StatusWritten(n, should) THEN Store(n, WithApplied(cache[n], should))
                                    ELSE UNCHANGED clusterVars
    BY <1>3, Zenon DEF UpdateStatus
  <2> HIDE DEF should
  <2>3. StatusWritten(n, should) => cache[n] # Absent
    BY DEF StatusWritten
  <2>4. cache[n] # Absent => cache[n] \in LBPort
    BY DEF CacheTypeOK, Objects
  <2>5. cache[n] # Absent => WithApplied(cache[n], should) \in Objects
    BY <2>1, <2>4, WithAppliedTypeOK DEF Objects
  <2> QED
    BY <2>2, <2>3, <2>5, StoreTypeOK DEF clusterVars, ClusterTypeOK
<1>4. CASE Crash
  BY <1>4 DEF Crash, ClusterTypeOK
<1>5. CASE UNCHANGED clusterVars
  BY <1>5 DEF clusterVars, ClusterTypeOK
<1> QED
  BY <1>1, <1>2, <1>3, <1>4, <1>5
     DEF Next, Resync, ReconcileStep, StartReconcile, ApplyPort, ApplySucceeds,
         ApplyRefused, ReconcileFails, ReconcileDone, ApplyFault, StatusFault, Start,
         Host, vars, agentVars

(* The cache and the list that Reconcile works from hold LBPorts only.     *)
LEMMA CacheInv ==
    ASSUME AgentTypeOK, [Next]_vars
    PROVE  CacheTypeOK'
<1> USE DEF AgentTypeOK, CacheTypeOK
<1>1. CASE WatchDeliver
  <2>1. Head(pending) \in Event
    BY <1>1 DEF WatchDeliver, ClusterTypeOK
  <2> QED
    BY <1>1, <2>1 DEF WatchDeliver, Event
<1>2. ASSUME NEW n \in Names, StartReconcile(n)
      PROVE  CacheTypeOK'
  BY <1>2 DEF StartReconcile
<1>3. CASE ReconcileFails
  BY <1>3, NothingIsTyped DEF ReconcileFails
<1>4. CASE ReconcileDone
  BY <1>4, NothingIsTyped DEF ReconcileDone
<1>5. CASE Crash
  BY <1>5, NothingIsTyped DEF Crash
<1>6. CASE Start
  BY <1>6 DEF Start, ClusterTypeOK
<1>7. CASE UNCHANGED <<cache, listed>>
  BY <1>7
<1> QED
  BY <1>1, <1>2, <1>3, <1>4, <1>5, <1>6, <1>7
     DEF Next, Edit, CreateLBPort, UpdateLBPort, DeleteLBPort, Resync, ReconcileStep,
         UpdateStatus, ApplyPort, ApplySucceeds, ApplyRefused, ApplyFault,
         StatusFault, Host, vars, agentVars, workVars

(* The statuses left to write are always among the LBPorts listed.         *)
LEMMA WorkInv ==
    ASSUME AgentInv, [Next]_vars
    PROVE  WorkTypeOK' /\ ReconcileKnowsItsWork'
<1> USE DEF AgentInv, AgentTypeOK, WorkTypeOK, ReconcileKnowsItsWork, Existing
<1>1. CASE WatchDeliver
  <2>1. Head(pending) \in Event
    BY <1>1 DEF WatchDeliver, ClusterTypeOK
  <2> QED
    BY <1>1, <2>1 DEF WatchDeliver, Event
<1>2. CASE Resync
  BY <1>2 DEF Resync
<1>3. ASSUME NEW n \in Names, StartReconcile(n)
      PROVE  WorkTypeOK' /\ ReconcileKnowsItsWork'
  BY <1>3 DEF StartReconcile
<1>4. CASE ApplySucceeds
  BY <1>4 DEF ApplySucceeds
<1>5. CASE ReconcileFails
  <2>1. pc = "apply"
    BY <1>5 DEF ReconcileFails, ApplyFails, CallMatchesPc
  <2> QED
    BY <1>5, <2>1 DEF ReconcileFails
<1>6. ASSUME NEW n \in Names, UpdateStatus(n) \/ StatusFault(n)
      PROVE  WorkTypeOK' /\ ReconcileKnowsItsWork'
  BY <1>6 DEF UpdateStatus, StatusFault
<1>7. CASE ReconcileDone
  BY <1>7 DEF ReconcileDone
<1>8. CASE Crash
  BY <1>8 DEF Crash
<1>9. CASE Start
  BY <1>9 DEF Start
<1>10. CASE UNCHANGED workVars
  BY <1>10 DEF workVars
<1> QED
  BY <1>1, <1>2, <1>3, <1>4, <1>5, <1>6, <1>7, <1>8, <1>9, <1>10
     DEF Next, Edit, CreateLBPort, UpdateLBPort, DeleteLBPort, ReconcileStep,
         ApplyPort, ApplyRefused, ApplyFault, Host, vars, agentVars

(* The denylist is read at a start and never changes while the agent runs. *)
LEMMA DeniedInv ==
    ASSUME denied \subseteq PortNumbers, [Next]_vars
    PROVE  denied' \subseteq PortNumbers
<1>1. CASE Start
  BY <1>1, EnvironmentAssumption DEF Start
<1> QED
  BY <1>1 DEF Next, Edit, CreateLBPort, UpdateLBPort, DeleteLBPort, WatchDeliver,
              Resync, ReconcileStep, StartReconcile, UpdateStatus, ApplyPort,
              ApplySucceeds, ApplyRefused, ReconcileFails, ReconcileDone, ApplyFault,
              StatusFault, Crash, Host, vars, agentVars

(* The bounds on outside events are never overdrawn.                       *)
LEMMA BudgetInv ==
    ASSUME budget \in [Kinds -> Nat], [Next]_vars
    PROVE  budget' \in [Kinds -> Nat]
<1>1. ASSUME NEW kind \in Kinds, Spend(kind)
      PROVE  budget' \in [Kinds -> Nat]
  BY <1>1 DEF Spend
<1>2. UNCHANGED budget \/ \E kind \in Kinds : Spend(kind)
  BY DEF Kinds, Next, Edit, CreateLBPort, UpdateLBPort, DeleteLBPort, WatchDeliver,
         Resync, ReconcileStep, StartReconcile, UpdateStatus, ApplyPort,
         ApplySucceeds, ApplyRefused, ReconcileDone, ApplyFault, StatusFault, Crash,
         Start, Host, vars, agentVars
<1> QED
  BY <1>1, <1>2

(* Every step keeps the invariant.                                         *)
LEMMA AgentNextInv == AgentInv /\ [Next]_vars => AgentInv'
BY AgentStepIsBackendStep, BackendNextInv, PolicyNextInv, ClusterInv, CacheInv,
   WorkInv, DeniedInv, BudgetInv
   DEF AgentInv, AgentTypeOK, BackendInv, PolicyInv

(* The agent's state keeps its types: in particular a running call of      *)
(* Apply and the reconciler's place in its code never disagree, and the    *)
(* statuses left to write are those of LBPorts that were listed.           *)
THEOREM AgentTypeCorrect == Spec => []AgentTypeOK
<1>1. Init => AgentInv
  BY BackendInitInv, PolicyInitInv, NothingIsTyped, EnvironmentAssumption
     DEF Init, AgentInv, AgentTypeOK, BackendInv, PolicyInv, ClusterTypeOK,
         CacheTypeOK, WorkTypeOK, ReconcileKnowsItsWork
<1>2. AgentInv => AgentTypeOK
  BY DEF AgentInv
<1> QED
  BY <1>1, <1>2, AgentNextInv, PTL DEF Spec

-----------------------------------------------------------------------------
(* Statuses.                                                               *)

(* The last event of an LBPort that is under way carries it as it is; one  *)
(* without an event under way is in the cache as it is.                    *)
CacheFollows ==
    pc # "down" =>
        /\ \A n \in Names :
              (\A i \in 1..Len(pending) : pending[i].name # n) => cache[n] = api[n]
        /\ \A i \in 1..Len(pending) :
              (\A j \in 1..Len(pending) : j > i => pending[j].name # pending[i].name)
              => pending[i].lbport = api[pending[i].name]

DownIsSilent == pc = "down" => pending = <<>>

Undisturbed == NoStatusFault /\ queue = {} /\ pending = <<>>

Right(n) == api[n].applied <=> ShouldApply(api, n, Wanted)

(* A Reconcile after which none is to come works from the LBPorts as they  *)
(* are, and has left none behind it with a wrong status.                   *)
LastReconcile ==
    Undisturbed =>
        /\ pc \in {"apply", "status"} => listed = api
        /\ pc = "status" => \A n \in Existing(api) \ todo : Right(n)
        /\ pc = "idle" => \A n \in Existing(api) : Right(n)

StatusInv ==
    /\ CacheFollows
    /\ DownIsSilent
    /\ budget["statusFault"] <= Budget["statusFault"]
    /\ LastReconcile

LEMMA StoreFollows ==
    ASSUME AgentTypeOK, CacheFollows, DownIsSilent,
           NEW n \in Names, NEW lbport \in Objects, Store(n, lbport),
           UNCHANGED <<pc, cache>>
    PROVE  CacheFollows' /\ DownIsSilent' /\ (pc # "down" => pending' # <<>>)
<1>1. CASE pc = "down"
  BY <1>1 DEF Store, CacheFollows, DownIsSilent
<1>2. CASE pc # "down"
  <2> DEFINE e == [name |-> n, lbport |-> lbport]
  <2>1. /\ e \in Event /\ e.name = n /\ e.lbport = lbport
        /\ pending \in Seq(Event) /\ pending' = Append(pending, e)
    BY <1>2 DEF Store, Event, AgentTypeOK, ClusterTypeOK
  <2> HIDE DEF e
  <2>2. /\ pending' \in Seq(Event) /\ pending' # <<>>
        /\ Len(pending') = Len(pending) + 1 /\ Len(pending) \in Nat
        /\ pending'[Len(pending) + 1] = e
        /\ \A i \in 1..Len(pending) : pending'[i] = pending[i]
    BY <2>1
  <2>3. api'[n] = lbport /\ \A m \in Names \ {n} : api'[m] = api[m]
    BY DEF Store, AgentTypeOK, ClusterTypeOK
  <2>4. \A i \in 1..Len(pending) : pending[i].name \in Names
    <3>1. \A i \in 1..Len(pending) : pending[i] \in Event
      BY <2>1
    <3> QED
      BY <3>1 DEF Event
  <2>5. ASSUME NEW m \in Names, \A i \in 1..Len(pending') : pending'[i].name # m
        PROVE  cache'[m] = api'[m]
    <3>1. m # n
      BY <2>1, <2>2, <2>5
    <3>2. \A i \in 1..Len(pending) : pending[i].name # m
      BY <2>2, <2>5
    <3> QED
      BY <1>2, <2>3, <3>1, <3>2 DEF CacheFollows
  <2>6. ASSUME NEW i \in 1..Len(pending'),
               \A j \in 1..Len(pending') : j > i => pending'[j].name # pending'[i].name
        PROVE  pending'[i].lbport = api'[pending'[i].name]
    <3>1. CASE i = Len(pending) + 1
      BY <2>1, <2>2, <2>3, <3>1
    <3>2. CASE i # Len(pending) + 1
      <4>1. i \in 1..Len(pending) /\ pending'[i] = pending[i]
        BY <2>2, <3>2
      <4>2. pending[i].name # n
        BY <2>1, <2>2, <2>6, <4>1
      <4>3. \A j \in 1..Len(pending) : j > i => pending[j].name # pending[i].name
        BY <2>2, <2>6, <4>1
      <4> QED
        BY <1>2, <2>3, <2>4, <4>1, <4>2, <4>3 DEF CacheFollows
    <3> QED
      BY <3>1, <3>2
  <2> QED
    BY <1>2, <2>2, <2>5, <2>6 DEF CacheFollows, DownIsSilent
<1> QED
  BY <1>1, <1>2

LEMMA DeliverFollows ==
    ASSUME AgentTypeOK, CacheFollows, DownIsSilent, WatchDeliver
    PROVE  CacheFollows' /\ DownIsSilent' /\ queue' # {}
<1> DEFINE e == Head(pending)
<1>1. /\ pending \in Seq(Event) /\ pending # <<>> /\ pending' = Tail(pending)
      /\ cache' = [cache EXCEPT ![e.name] = e.lbport]
      /\ queue' = queue \cup {e.name}
      /\ UNCHANGED <<api, pc>>
  BY DEF WatchDeliver, AgentTypeOK, ClusterTypeOK
<1>2. /\ Len(pending) \in Nat \ {0} /\ e = pending[1] /\ e \in Event
      /\ Len(pending') = Len(pending) - 1
      /\ \A i \in 1..Len(pending') : pending'[i] = pending[i + 1]
  BY <1>1
<1> HIDE DEF e
<1>3. pc # "down"
  BY <1>1 DEF DownIsSilent
<1>4. e.name \in Names /\ cache'[e.name] = e.lbport
      /\ \A m \in Names \ {e.name} : cache'[m] = cache[m]
  BY <1>1, <1>2 DEF Event, AgentTypeOK, CacheTypeOK
<1>5. ASSUME NEW m \in Names, \A i \in 1..Len(pending') : pending'[i].name # m
      PROVE  cache'[m] = api'[m]
  <2>1. \A j \in 1..Len(pending) : j > 1 => pending[j].name # m
    <3> SUFFICES ASSUME NEW j \in 1..Len(pending), j > 1
                 PROVE  pending[j].name # m
      OBVIOUS
    <3>1. j - 1 \in 1..Len(pending') /\ pending'[j - 1] = pending[j]
      BY <1>2
    <3> QED
      BY <1>5, <3>1
  <2>2. CASE m = e.name
    <3>1. \A j \in 1..Len(pending) : j > 1 => pending[j].name # pending[1].name
      BY <1>2, <2>1, <2>2
    <3>2. pending[1].lbport = api[pending[1].name]
      BY <1>2, <1>3, <3>1 DEF CacheFollows
    <3> QED
      BY <1>1, <1>2, <1>4, <2>2, <3>2
  <2>3. CASE m # e.name
    <3>1. \A j \in 1..Len(pending) : pending[j].name # m
      BY <1>2, <2>1, <2>3
    <3> QED
      BY <1>1, <1>3, <1>4, <2>3, <3>1 DEF CacheFollows
  <2> QED
    BY <2>2, <2>3
<1>6. ASSUME NEW i \in 1..Len(pending'),
             \A j \in 1..Len(pending') : j > i => pending'[j].name # pending'[i].name
      PROVE  pending'[i].lbport = api'[pending'[i].name]
  <2>1. i + 1 \in 1..Len(pending) /\ pending'[i] = pending[i + 1]
    BY <1>2
  <2>2. ASSUME NEW j \in 1..Len(pending), j > i + 1
        PROVE  pending[j].name # pending[i + 1].name
    <3>1. j - 1 \in 1..Len(pending') /\ j - 1 > i /\ pending'[j - 1] = pending[j]
      BY <1>2, <2>2
    <3> QED
      BY <1>6, <2>1, <3>1
  <2> QED
    BY <1>1, <1>3, <2>1, <2>2 DEF CacheFollows
<1> QED
  BY <1>1, <1>3, <1>5, <1>6 DEF CacheFollows, DownIsSilent

LEMMA RightUnchanged ==
    ASSUME UNCHANGED <<api, denied>>
    PROVE  /\ \A n \in Names : Right(n)' <=> Right(n)
           /\ Existing(api)' = Existing(api)
BY DEF Right, Wanted, ShouldApply, Filter, DesiredPortsForNode, PrivilegedAllowed,
       Existing, appliesToNode

LEMMA FollowsUnchanged ==
    ASSUME CacheFollows, DownIsSilent, UNCHANGED <<api, pending, cache>>,
           pc = "down" <=> pc' = "down"
    PROVE  CacheFollows' /\ DownIsSilent'
<1>1. CASE pc = "down"
  BY <1>1 DEF CacheFollows, DownIsSilent
<1>2. CASE pc # "down"
  BY <1>2 DEF CacheFollows, DownIsSilent
<1> QED
  BY <1>1, <1>2

LEMMA LastUnchanged ==
    ASSUME LastReconcile, NoStatusFault' => NoStatusFault, queue \subseteq queue',
           UNCHANGED <<api, pending, pc, listed, todo, denied>>
    PROVE  LastReconcile'
<1>1. Undisturbed' => Undisturbed
  BY DEF Undisturbed
<1>2. Existing(api)' = Existing(api) /\ \A n \in Existing(api) : Right(n)' <=> Right(n)
  BY RightUnchanged DEF Existing
<1> QED
  BY <1>1, <1>2 DEF LastReconcile

LEMMA StatusBudget ==
    ASSUME AgentTypeOK, StatusInv, [Next]_vars
    PROVE  /\ budget'["statusFault"] <= Budget["statusFault"]
           /\ NoStatusFault' => NoStatusFault
           /\ \A n \in Names : StatusFault(n) => ~NoStatusFault'
<1>1. ASSUME NEW kind \in Kinds, Spend(kind)
      PROVE  /\ budget'["statusFault"] <= budget["statusFault"]
             /\ kind = "statusFault" => budget'["statusFault"] < budget["statusFault"]
             /\ budget'["statusFault"] \in Nat
  BY <1>1 DEF Spend, AgentTypeOK, Kinds
<1>2. UNCHANGED budget \/ \E kind \in Kinds : Spend(kind)
  BY DEF Kinds, Next, Edit, CreateLBPort, UpdateLBPort, DeleteLBPort, WatchDeliver,
         Resync, ReconcileStep, StartReconcile, UpdateStatus, ApplyPort,
         ApplySucceeds, ApplyRefused, ReconcileDone, ApplyFault, StatusFault, Crash,
         Start, Host, vars, agentVars
<1>3. \A n \in Names : StatusFault(n) => Spend("statusFault")
  BY DEF StatusFault
<1>4. budget["statusFault"] \in Nat /\ Budget["statusFault"] \in Nat
      /\ budget["statusFault"] <= Budget["statusFault"]
  BY EnvironmentAssumption DEF AgentTypeOK, StatusInv, Kinds
<1>5. "statusFault" \in Kinds
  BY DEF Kinds
<1> QED
  BY <1>1, <1>2, <1>3, <1>4, <1>5 DEF NoStatusFault

LEMMA StatusNextInv == AgentInv /\ StatusInv /\ [Next]_vars => StatusInv'
<1> SUFFICES ASSUME AgentInv, StatusInv, [Next]_vars PROVE StatusInv'
  OBVIOUS
<1>0. /\ AgentTypeOK /\ CacheFollows /\ DownIsSilent /\ LastReconcile
      /\ CallMatchesPc /\ api \in [Names -> Objects] /\ cache \in [Names -> Objects]
  BY DEF AgentInv, AgentTypeOK, ClusterTypeOK, CacheTypeOK, StatusInv
<1>1. /\ budget'["statusFault"] <= Budget["statusFault"]
      /\ NoStatusFault' => NoStatusFault
      /\ \A n \in Names : StatusFault(n) => ~NoStatusFault'
  BY <1>0, StatusBudget
<1> DEFINE Goal == CacheFollows' /\ DownIsSilent' /\ LastReconcile'
<1> SUFFICES Goal
  BY <1>1 DEF StatusInv
<1>2. ASSUME NEW n \in Names, NEW lbport \in Objects, Store(n, lbport),
             UNCHANGED <<pc, cache>>
      PROVE  Goal
  <2>1. CacheFollows' /\ DownIsSilent' /\ (pc # "down" => pending' # <<>>)
    BY <1>0, <1>2, StoreFollows
  <2> QED
    BY <1>2, <2>1 DEF LastReconcile, Undisturbed
<1> HIDE DEF Goal
<1>3. CASE Edit
  <2>1. ASSUME NEW nodes \in NodeLists, NEW allowPrivileged \in BOOLEAN,
               NEW applied \in BOOLEAN
        PROVE  [nodes |-> nodes, allowPrivileged |-> allowPrivileged,
                applied |-> applied] \in Objects
    BY DEF Objects, LBPort
  <2>2. ASSUME NEW n \in Names, DeleteLBPort(n) PROVE Goal
    <3>1. Absent \in Objects /\ Store(n, Absent) /\ UNCHANGED <<pc, cache>>
      BY <2>2 DEF DeleteLBPort, Objects, workVars
    <3> QED
      BY <1>2, <3>1
  <2>3. ASSUME NEW n \in Names, NEW nodes \in NodeLists,
               NEW allowPrivileged \in BOOLEAN,
               CreateLBPort(n, nodes, allowPrivileged)
        PROVE  Goal
    BY <1>2, <2>1, <2>3 DEF CreateLBPort, workVars
  <2>4. ASSUME NEW n \in Names, NEW nodes \in NodeLists,
               NEW allowPrivileged \in BOOLEAN,
               UpdateLBPort(n, nodes, allowPrivileged)
        PROVE  Goal
    <3>1. api[n].applied \in BOOLEAN
      BY <1>0, <2>4 DEF UpdateLBPort, Objects, LBPort
    <3> QED
      BY <1>2, <2>1, <2>4, <3>1 DEF UpdateLBPort, workVars
  <2> QED
    BY <1>3, <2>2, <2>3, <2>4 DEF Edit
<1> USE DEF Goal
<1>4. CASE WatchDeliver
  <2>1. CacheFollows' /\ DownIsSilent' /\ queue' # {}
    BY <1>0, <1>4, DeliverFollows
  <2> QED
    BY <2>1 DEF LastReconcile, Undisturbed
<1>5. CASE Resync
  <2>1. UNCHANGED <<api, pending, cache, pc, listed, todo, denied>> /\ queue \subseteq queue'
    BY <1>5 DEF Resync, clusterVars
  <2> QED
    BY <1>0, <1>1, <2>1, FollowsUnchanged, LastUnchanged
<1>6. ASSUME NEW n \in Names, StartReconcile(n) PROVE Goal
  <2>1. /\ UNCHANGED <<api, pending, cache, denied>> /\ listed' = cache
        /\ pc = "idle" /\ pc' = "apply"
    BY <1>6 DEF StartReconcile, clusterVars
  <2>2. pending = <<>> => cache = api
    BY <1>0, <2>1 DEF CacheFollows
  <2>3. CacheFollows' /\ DownIsSilent'
    BY <1>0, <2>1, FollowsUnchanged
  <2> QED
    BY <2>1, <2>2, <2>3 DEF LastReconcile, Undisturbed
<1>7. CASE ApplySucceeds
  <2>1. /\ UNCHANGED <<api, pending, cache, queue, denied, listed, budget>>
        /\ todo' = Existing(listed) /\ pc = "apply" /\ pc' = "status"
    BY <1>0, <1>7 DEF ApplySucceeds, clusterVars, Save, CallMatchesPc
  <2>2. Undisturbed' => listed = api
    BY <1>0, <2>1 DEF Undisturbed, LastReconcile, NoStatusFault
  <2>3. CacheFollows' /\ DownIsSilent'
    BY <1>0, <2>1, FollowsUnchanged
  <2>4. Undisturbed' => Existing(api') \ todo' = {}
    BY <2>1, <2>2
  <2> QED
    BY <2>1, <2>2, <2>3, <2>4 DEF LastReconcile
<1>8. CASE ReconcileFails
  <2>1. /\ UNCHANGED <<api, pending, cache>> /\ queue' # {}
        /\ pc = "apply" /\ pc' = "idle"
    BY <1>0, <1>8 DEF ReconcileFails, ApplyFails, CallMatchesPc, clusterVars
  <2>2. CacheFollows' /\ DownIsSilent'
    BY <1>0, <2>1, FollowsUnchanged
  <2> QED
    BY <2>1, <2>2 DEF LastReconcile, Undisturbed
<1>9. ASSUME NEW n \in Names, UpdateStatus(n) PROVE Goal
  <2> DEFINE should == ShouldApply(listed, n, Filter(listed, denied))
  <2>1. /\ pc = "status" /\ n \in todo /\ todo' = todo \ {n}
        /\ UNCHANGED <<cache, queue, pc, listed, denied, budget>>
    BY <1>9 DEF UpdateStatus
  <2>2. IF StatusWritten(n, should) THEN Store(n, WithApplied(cache[n], should))
                                    ELSE UNCHANGED clusterVars
    BY <1>9, Zenon DEF UpdateStatus
  <2>3. should \in BOOLEAN
    BY DEF ShouldApply, appliesToNode
  <2>4. CASE StatusWritten(n, should)
    <3>1. cache[n] \in LBPort
      BY <1>0, <2>4 DEF StatusWritten, Objects
    <3>2. WithApplied(cache[n], should) \in Objects
      BY <2>3, <3>1, WithAppliedTypeOK DEF Objects
    <3> HIDE DEF should
    <3> QED
      BY <1>2, <2>1, <2>2, <2>4, <3>2
  <2>5. CASE ~StatusWritten(n, should)
    <3>1. UNCHANGED <<api, pending, denied>>
      BY <2>1, <2>2, <2>5 DEF clusterVars
    <3>2. CacheFollows' /\ DownIsSilent'
      BY <1>0, <2>1, <3>1 DEF CacheFollows, DownIsSilent
    <3>3. ASSUME Undisturbed' PROVE Right(n)
      <4>1. pending = <<>> /\ listed = api /\ cache = api
        BY <1>0, <1>1, <2>1, <3>1, <3>3
           DEF Undisturbed, LastReconcile, CacheFollows
      <4>2. should <=> ShouldApply(api, n, Wanted)
        BY <4>1 DEF Wanted
      <4>3. n \in Existing(listed)
        BY <1>0, <2>1 DEF AgentTypeOK, WorkTypeOK
      <4>4. cache[n] # Absent /\ cache[n].applied = should
        BY <2>5, <4>1, <4>3 DEF StatusWritten, Existing
      <4> QED
        BY <4>1, <4>2, <4>4 DEF Right
    <3>4. Undisturbed' => Undisturbed
      BY <1>1, <2>1, <3>1 DEF Undisturbed
    <3> HIDE DEF should
    <3> QED
      BY <1>0, <2>1, <3>1, <3>2, <3>3, <3>4, RightUnchanged
         DEF LastReconcile, Existing
  <2> QED
    BY <2>4, <2>5
<1>10. ASSUME NEW n \in Names, StatusFault(n) PROVE Goal
  <2>1. UNCHANGED <<api, pending, cache, pc>>
    BY <1>10 DEF StatusFault, clusterVars
  <2>2. CacheFollows' /\ DownIsSilent'
    BY <1>0, <2>1, FollowsUnchanged
  <2> QED
    BY <1>1, <1>10, <2>2 DEF LastReconcile, Undisturbed
<1>11. CASE ReconcileDone
  <2>1. /\ UNCHANGED <<api, pending, cache, queue, denied, budget>>
        /\ todo = {} /\ pc = "status" /\ pc' = "idle"
    BY <1>11 DEF ReconcileDone, clusterVars
  <2>2. Undisturbed' => Undisturbed
    BY <1>1, <2>1 DEF Undisturbed
  <2>3. CacheFollows' /\ DownIsSilent'
    BY <1>0, <2>1, FollowsUnchanged
  <2>4. Existing(api)' = Existing(api)
        /\ \A n \in Existing(api) : Right(n)' <=> Right(n)
    BY <2>1, RightUnchanged DEF Existing
  <2> QED
    BY <1>0, <2>1, <2>2, <2>3, <2>4 DEF LastReconcile
<1>12. CASE Crash
  <2>1. pc' = "down" /\ pending' = <<>>
    BY <1>12 DEF Crash
  <2> QED
    BY <2>1 DEF CacheFollows, DownIsSilent, LastReconcile
<1>13. CASE Start
  <2>1. /\ UNCHANGED <<api, pending>> /\ pc = "down" /\ pc' = "idle"
        /\ cache' = api /\ queue' = Existing(api)
    BY <1>13 DEF Start, clusterVars
  <2>2. pending = <<>>
    BY <1>0, <2>1 DEF DownIsSilent
  <2>3. CacheFollows'
    <3>1. pending' = <<>> /\ cache' = api'
      BY <2>1, <2>2
    <3> QED
      BY <3>1 DEF CacheFollows
  <2>4. Undisturbed' => Existing(api') = {}
    BY <2>1 DEF Undisturbed
  <2> QED
    BY <2>1, <2>3, <2>4 DEF DownIsSilent, LastReconcile
<1>14. CASE UNCHANGED <<api, pending, cache, queue, pc, listed, todo, denied>>
  BY <1>0, <1>1, <1>14, FollowsUnchanged, LastUnchanged
<1> HIDE DEF Goal
<1> QED
  BY <1>3, <1>4, <1>5, <1>6, <1>7, <1>8, <1>9, <1>10, <1>11, <1>12, <1>13, <1>14
     DEF Next, ReconcileStep, ApplyPort, ApplyRefused, ApplyFault, Host, vars,
         agentVars, workVars, clusterVars

(* firewall.go, updateLBPortStatuses: once there is nothing left to do, an *)
(* LBPort's status names this node exactly if its port is applied, through *)
(* stale reads, refused writes, failed Applies and crashes; only a status  *)
(* write that failed for another reason may leave a wrong one.             *)
THEOREM StatusesSettle == Spec => []StatusSettles
<1>1. Init => AgentInv /\ StatusInv
  <2>1. Init => AgentInv
    BY BackendInitInv, PolicyInitInv, NothingIsTyped, EnvironmentAssumption
       DEF Init, AgentInv, AgentTypeOK, BackendInv, PolicyInv, ClusterTypeOK,
           CacheTypeOK, WorkTypeOK, ReconcileKnowsItsWork
  <2>2. Init => StatusInv
    BY EnvironmentAssumption
       DEF Init, StatusInv, CacheFollows, DownIsSilent, LastReconcile, Kinds
  <2> QED
    BY <2>1, <2>2
<1>2. AgentInv /\ StatusInv /\ [Next]_vars => (AgentInv /\ StatusInv)'
  BY AgentNextInv, StatusNextInv
<1>3. StatusInv => StatusSettles
  BY DEF StatusInv, LastReconcile, Undisturbed, StatusSettles, Quiescent, Right
<1> QED
  BY <1>1, <1>2, <1>3, PTL DEF Spec
=============================================================================
