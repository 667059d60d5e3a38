-------------------------- MODULE ServiceController --------------------------
(***************************************************************************)
(* The bulb controller (internal/controller): for every LoadBalancer       *)
(* Service it keeps a proxy DaemonSet, an LBPort per port and DNSRecords,  *)
(* and writes the Service's status; for every other Service it removes     *)
(* them.  Children cannot be garbage collected by owner references, so     *)
(* everything depends on a reconcile running and getting to its end.       *)
(*                                                                         *)
(* One worker runs Reconcile as a script of stages.  It reads an informer  *)
(* cache and writes the API server; each write is a step of its own, and   *)
(* between two steps the cluster may change, the write may fail, or the    *)
(* controller may die.  The cache of a kind in Lagging follows the API     *)
(* server with a delay.  The others follow at once, which for Nodes and    *)
(* Endpoints is no loss: the controller never writes them, so a late event *)
(* is the same as a late change.                                           *)
(*                                                                         *)
(* Abstractions.  A Service's spec is what Reconcile makes of it.  Child   *)
(* objects are named after the Service (and port, or record type); the     *)
(* model keeps them in slots of that Service, so two Services never        *)
(* collide in a name, except where Taken says so.  Conditions are always   *)
(* written together and are one value.                                     *)
(***************************************************************************)
EXTENDS Naturals, Sequences, FiniteSets

CONSTANTS
    Svcs,       \* names of Services
    Ports,      \* (port, protocol) pairs
    Nodes,      \* nodes of the cluster
    Selected,   \* the nodes that the node selector of a Service matches
    Families,   \* the record types a node has a public address for
    Specs,      \* the Service specs that occur
    Taken,      \* (Service, port) whose LBPort name somebody else uses
    AgentNodes, \* the nodes that run a firewall-agent
    Lagging,    \* the kinds whose cache is late
    Budget,     \* how often each kind of outside event may happen
    Absent      \* no object

ServiceSpec ==
         [matches : BOOLEAN,            \* type=LoadBalancer and bulb's class
          ports : SUBSET Ports,
          selector : BOOLEAN,           \* restricted to the selected nodes
          local : BOOLEAN,              \* externalTrafficPolicy=Local
          keep : BOOLEAN,               \* keep-on-uninstall
          dnsName : BOOLEAN,            \* has a dns-name
          problem : {"none",
                     "selector",        \* BuildLBPorts fails
                     "duplicate",       \* declares a port twice
                     "unbuildable"}]    \* BuildDaemonSet fails

allNodesToken == "*"
RecordTypes == {"A", "AAAA"}
ChildKinds == {"ds", "lb", "dns"}
Events == {"edit", "crash", "fault", "cluster"}

ASSUME ControllerAssumption ==
    /\ allNodesToken \notin Nodes
    /\ Selected \subseteq Nodes
    /\ AgentNodes \subseteq Nodes
    /\ Families \in [Nodes -> SUBSET RecordTypes]
    /\ Specs \subseteq ServiceSpec
    /\ Taken \subseteq Svcs \X Ports
    /\ Lagging \subseteq ChildKinds \cup {"svc"}
    /\ Budget \in [Events -> Nat]

VARIABLES
    api,     \* the objects on the API server, by kind
    cache,   \* the informer caches
    wakes,   \* by lagging kind: Services that undelivered events will enqueue
    queue,   \* the work queue
    pc,      \* "down", "idle", or "busy"
    script,  \* the stages of the running Reconcile that are left
    job,     \* its local variables
    budget

vars == <<api, cache, wakes, queue, pc, script, job, budget>>

-----------------------------------------------------------------------------
(* Objects.                                                                *)

Conditions == {"None", "Reconciled", "PortConflict", "InvalidService",
               "NoReadyEndpoints"}

Service == [spec : Specs, ips : SUBSET (Nodes \X RecordTypes), cond : Conditions]
DaemonSet == [ports : SUBSET Ports, keep : BOOLEAN]
LBPort == [nodes : SUBSET (Nodes \cup {allNodesToken}), applied : SUBSET Nodes]

ASSUME AbsentAssumption ==
    /\ Absent \notin Service
    /\ Absent \notin DaemonSet
    /\ Absent \notin LBPort

Slots(kind) ==
    CASE kind = "ds" -> {"ds"}
      [] kind = "lb" -> Ports
      [] kind = "dns" -> RecordTypes

NoChildren(kind) == [slot \in Slots(kind) |-> Absent]

ObjectStore ==
    [svc : [Svcs -> Service \cup {Absent}],
     ds : [Svcs -> [Slots("ds") -> DaemonSet \cup {Absent}]],
     lb : [Svcs -> [Slots("lb") -> LBPort \cup {Absent}]],
     dns : [Svcs -> [Slots("dns") -> (SUBSET Nodes) \cup {Absent}]],
     node : SUBSET Nodes,    \* the schedulable nodes
     ep : SUBSET Svcs]       \* Services with ready endpoints

Present(children) == {slot \in DOMAIN children : children[slot] # Absent}

ServiceMatches(svc) == svc # Absent /\ svc.spec.matches

Matching(store) == {s \in Svcs : ServiceMatches(store.svc[s])}

Spend(event) ==
    /\ budget[event] > 0
    /\ budget' = [budget EXCEPT ![event] = @ - 1]

(* A change on the API server.  Its event enqueues ss: at once, or when    *)
(* the cache catches up.                                                   *)
Write(kind, value, ss) ==
    /\ api' = [api EXCEPT ![kind] = value]
    /\ IF pc = "down" THEN UNCHANGED <<cache, wakes, queue>>
       ELSE IF kind \in Lagging
       THEN /\ wakes' = [wakes EXCEPT ![kind] = @ \cup ss]
            /\ UNCHANGED <<cache, queue>>
       ELSE /\ cache' = [cache EXCEPT ![kind] = value]
            /\ queue' = queue \cup ss
            /\ UNCHANGED wakes

NoWrite == UNCHANGED <<api, cache, wakes, queue>>

\* Mutant: the predicate looks at the new object only.
MutWriteService(s, svc) ==
    Write("svc", [api.svc EXCEPT ![s] = svc],
          IF ServiceMatches(svc) THEN {s} ELSE {})

(* servicePredicate: one side of the change has to be bulb's.              *)
WriteService(s, svc) ==
    Write("svc", [api.svc EXCEPT ![s] = svc],
          IF ServiceMatches(api.svc[s]) \/ ServiceMatches(svc) THEN {s} ELSE {})

(* LBPorts are mapped to their Service; DaemonSets and DNSRecords are not  *)
(* watched.                                                                *)
WriteChild(kind, s, slot, child) ==
    Write(kind, [api[kind] EXCEPT ![s][slot] = child],
          IF kind = "lb" THEN {s} ELSE {})

-----------------------------------------------------------------------------
(* What Reconcile computes from the caches.                                *)

lbPortNodes(spec) ==
    IF spec.selector THEN cache.node \cap Selected ELSE {allNodesToken}

overlappingNodes(a, b) ==
    /\ a # {}
    /\ b # {}
    /\ allNodesToken \in a \cup b \/ a \cap b # {}

\* Mutant: only Services on exactly the same nodes are compared.
MutServicePortConflict(s, spec) ==
    \E t \in Matching(cache) \ {s} :
        LET other == cache.svc[t].spec IN
        /\ other.problem # "selector"
        /\ other.ports \cap spec.ports # {}
        /\ lbPortNodes(spec) = lbPortNodes(other)

(* A Service whose selector does not parse is skipped; one that is invalid *)
(* in another way, or has no endpoints, still holds its ports.             *)
servicePortConflict(s, spec) ==
    \E t \in Matching(cache) \ {s} :
        LET other == cache.svc[t].spec IN
        /\ other.problem # "selector"
        /\ other.ports \cap spec.ports # {}
        /\ overlappingNodes(lbPortNodes(spec), lbPortNodes(other))

detectPortConflict(s, spec) ==
    \/ spec.problem = "duplicate"
    \/ \E p \in spec.ports : <<s, p>> \in Taken
    \/ servicePortConflict(s, spec)

(* The condition that Reconcile ends with, in the order of its checks.     *)
Verdict(s, spec) ==
    IF spec.local /\ s \notin cache.ep THEN "NoReadyEndpoints"
    ELSE IF spec.problem = "selector" THEN "InvalidService"
    ELSE IF detectPortConflict(s, spec) THEN "PortConflict"
    ELSE IF spec.problem = "unbuildable" THEN "InvalidService"
    ELSE "Reconciled"

BuildDaemonSet(spec) ==
    [slot \in Slots("ds") |-> [ports |-> spec.ports, keep |-> spec.keep]]

BuildLBPorts(spec) ==
    [p \in Ports |-> IF p \in spec.ports
                     THEN [nodes |-> lbPortNodes(spec), applied |-> {}]
                     ELSE Absent]

Targets(type) == {n \in cache.node : type \in Families[n]}

nodePublicIPs ==
    {ip \in cache.node \X RecordTypes : ip[2] \in Families[ip[1]]}

(* With no target at all, an empty A record is kept as a signal.           *)
BuildDNSRecords(spec) ==
    [type \in RecordTypes |->
        IF /\ spec.dnsName
           /\ \/ Targets(type) # {}
              \/ type = "A" /\ Targets("AAAA") = {}
        THEN Targets(type) ELSE Absent]

SameSpec(kind, child, want) ==
    IF kind = "lb" /\ child # Absent /\ want # Absent
    THEN child.nodes = want.nodes ELSE child = want

-----------------------------------------------------------------------------
(* Reconcile.                                                              *)

\* Mutant: pruneStaleAppliedNodes is not called.
MutApplyScript == <<"ds", "lb", "dns", "status">>

ApplyScript == <<"ds", "lb", "prune", "dns", "status">>
CleanupScript == <<"-ds", "-lb", "-dns">>

StageKind(stage) ==
    CASE stage \in {"ds", "-ds"} -> "ds"
      [] stage \in {"lb", "-lb", "prune"} -> "lb"
      [] stage \in {"dns", "-dns"} -> "dns"

(* The children a stage wants.  The LBPorts were built before the checks;  *)
(* the node addresses are read when it is the DNSRecords' turn.  "prune"   *)
(* wants the LBPorts it lists, without the nodes that are not schedulable. *)
WantedAt(stage, svc, lbports, s) ==
    CASE stage = "ds" -> BuildDaemonSet(svc.spec)
      [] stage = "lb" -> lbports
      [] stage = "dns" -> BuildDNSRecords(svc.spec)
      [] stage = "prune" ->
            [p \in Ports |->
                IF cache.lb[s][p] = Absent THEN Absent
                ELSE [cache.lb[s][p] EXCEPT !.applied = @ \cap cache.node]]
      [] OTHER -> <<>>

TodoAt(stage, want, s) ==
    IF stage = "prune"
    THEN {p \in Present(want) : want[p] # cache.lb[s][p]}
    ELSE Present(want)

(* The local variables at the beginning of a stage.                        *)
AtStage(stage, j) ==
    LET want == WantedAt(stage, j.svc, j.lbports, j.s) IN
    [j EXCEPT !.want = want,
              !.todo = TodoAt(stage, want, j.s),
              !.stale = {},
              !.listed = FALSE,
              !.ips = IF stage = "dns" THEN nodePublicIPs ELSE @]

NoJob == <<>>

(* mode is cleanupByName's: "keep" leaves a DaemonSet that asks for it.    *)
StartReconcile(s) ==
    LET svc == cache.svc[s]
        gone == ~ServiceMatches(svc)
        verdict == IF gone THEN "None" ELSE Verdict(s, svc.spec)
        stages == IF gone THEN CleanupScript
                  ELSE IF verdict = "Reconciled" THEN ApplyScript
                  ELSE <<"status">> \o CleanupScript
        start == [s |-> s, svc |-> svc, cond |-> verdict,
                  mode |-> IF gone /\ (svc = Absent \/ svc.spec.keep)
                           THEN "keep" ELSE "force",
                  lbports |-> IF gone THEN <<>> ELSE BuildLBPorts(svc.spec),
                  want |-> <<>>, todo |-> {}, stale |-> {}, listed |-> FALSE,
                  ips |-> {}]
    IN  /\ pc = "idle"
        /\ s \in queue
        /\ queue' = queue \ {s}
        /\ pc' = "busy"
        /\ script' = stages
        /\ job' = AtStage(Head(stages), start)
        /\ UNCHANGED <<api, cache, wakes, budget>>

Stage == Head(script)

At(stages) == pc = "busy" /\ Stage \in stages

Cached(slot) == cache[StageKind(Stage)][job.s][slot]
Actual(slot) == api[StageKind(Stage)][job.s][slot]

(* applyDaemonSet, applyLBPorts and applyOneDNSRecord: Get from the cache, *)
(* then Create, Update or nothing.  Create fails on an object the cache    *)
(* does not show yet, Update on one the cache shows in an old version.     *)
(* The API server completes a DaemonSet with defaults and an annotation    *)
(* that BuildDaemonSet does not set, so it never compares as equal and is  *)
(* always written.                                                         *)
UpToDate(slot) ==
    /\ Stage # "ds"
    /\ SameSpec(StageKind(Stage), Cached(slot), job.want[slot])

PutChild(slot) ==
    /\ At({"ds", "lb", "dns"})
    /\ slot \in job.todo
    /\ job' = [job EXCEPT !.todo = @ \ {slot}]
    /\ \/ UpToDate(slot) /\ NoWrite
       \/ /\ ~UpToDate(slot)
          /\ Cached(slot) = Actual(slot)
          /\ WriteChild(StageKind(Stage), job.s, slot,
                IF Stage = "lb" /\ Actual(slot) # Absent
                THEN [Actual(slot) EXCEPT !.nodes = job.want[slot].nodes]
                ELSE job.want[slot])
    /\ UNCHANGED <<pc, script, budget>>

(* The children to delete, from the cache: those of the Service that the   *)
(* stage does not want.                                                    *)
ListStale ==
    /\ At({"ds", "lb", "dns", "-ds", "-lb", "-dns"})
    /\ job.todo = {}
    /\ ~job.listed
    /\ LET children == cache[StageKind(Stage)][job.s]
           unwanted == Present(children) \ Present(job.want)
           kept == IF Stage = "-ds" /\ job.mode = "keep"
                   THEN {slot \in unwanted : children[slot].keep} ELSE {}
       IN  job' = [job EXCEPT !.listed = TRUE, !.stale = unwanted \ kept]
    /\ UNCHANGED <<api, cache, wakes, queue, pc, script, budget>>

(* Delete carries no version, and an object that is gone is no error.      *)
DeleteChild(slot) ==
    /\ pc = "busy"
    /\ slot \in job.stale
    /\ job' = [job EXCEPT !.stale = @ \ {slot}]
    /\ IF Actual(slot) = Absent THEN NoWrite
       ELSE WriteChild(StageKind(Stage), job.s, slot, Absent)
    /\ UNCHANGED <<pc, script, budget>>

(* pruneStaleAppliedNodes writes what it listed into the version it gets   *)
(* afterwards.  Its first error ends it and is only logged.                *)
PruneApplied(slot) ==
    /\ At({"prune"})
    /\ slot \in job.todo
    /\ \/ /\ Cached(slot) # Absent
          /\ Cached(slot) = Actual(slot)
          /\ WriteChild("lb", job.s, slot,
                        [Actual(slot) EXCEPT !.applied = job.want[slot].applied])
          /\ job' = [job EXCEPT !.todo = @ \ {slot}]
          /\ UNCHANGED budget
       \/ /\ Cached(slot) = Absent \/ Cached(slot) # Actual(slot)
          /\ NoWrite
          /\ job' = [job EXCEPT !.todo = {}]
          /\ UNCHANGED budget
       \/ /\ Spend("fault")
          /\ NoWrite
          /\ job' = [job EXCEPT !.todo = {}]
    /\ UNCHANGED <<pc, script>>

GoOn ==
    IF Len(script) = 1
    THEN pc' = "idle" /\ script' = <<>> /\ job' = NoJob
    ELSE /\ script' = Tail(script)
         /\ job' = AtStage(Head(Tail(script)), job)
         /\ UNCHANGED pc

NextStage ==
    /\ pc = "busy"
    /\ Stage # "status"
    /\ job.todo = {}
    /\ job.stale = {}
    /\ job.listed \/ Stage = "prune"
    /\ GoOn
    /\ UNCHANGED <<api, cache, wakes, queue, budget>>

\* Mutant: only the conditions are compared.
MutStatusAsRead == job.svc.cond = job.cond

(* updateStatus sends what differs from the Service that was read at the   *)
(* start, and nothing if there is no difference.                           *)
StatusAsRead == job.svc.ips = job.ips /\ job.svc.cond = job.cond

UpdateStatus ==
    /\ At({"status"})
    /\ \/ StatusAsRead /\ NoWrite
       \/ /\ ~StatusAsRead
          /\ api.svc[job.s] # Absent
          /\ WriteService(job.s,
                [api.svc[job.s] EXCEPT
                    !.ips = IF job.ips = job.svc.ips THEN @ ELSE job.ips,
                    !.cond = IF job.cond = job.svc.cond THEN @ ELSE job.cond])
    /\ GoOn
    /\ UNCHANGED budget

(* An error ends Reconcile, and the work queue retries the request.        *)
ReconcileFails ==
    /\ pc' = "idle"
    /\ script' = <<>>
    /\ job' = NoJob
    /\ queue' = queue \cup {job.s}
    /\ UNCHANGED <<api, cache, wakes>>

Rejected ==
    \/ /\ At({"ds", "lb", "dns"})
       /\ \E slot \in job.todo : ~UpToDate(slot) /\ Cached(slot) # Actual(slot)
    \/ /\ At({"status"})
       /\ ~StatusAsRead
       /\ api.svc[job.s] = Absent

WriteRejected == Rejected /\ ReconcileFails /\ UNCHANGED budget

ReconcileFault ==
    /\ pc = "busy"
    /\ Stage # "prune"
    /\ Spend("fault")
    /\ ReconcileFails

-----------------------------------------------------------------------------
(* The cluster.                                                            *)

Unchanged == UNCHANGED <<pc, script, job>>

CreateService(s, spec) ==
    /\ api.svc[s] = Absent
    /\ Spend("edit")
    /\ WriteService(s, [spec |-> spec, ips |-> {}, cond |-> "None"])
    /\ Unchanged

(* The API server drops the addresses of a Service that is no longer of    *)
(* type LoadBalancer.                                                      *)
EditService(s, spec) ==
    /\ api.svc[s] # Absent
    /\ api.svc[s].spec # spec
    /\ Spend("edit")
    /\ WriteService(s, [api.svc[s] EXCEPT
                          !.spec = spec,
                          !.ips = IF spec.matches THEN @ ELSE {}])
    /\ Unchanged

DeleteService(s) ==
    /\ api.svc[s] # Absent
    /\ Spend("edit")
    /\ WriteService(s, Absent)
    /\ Unchanged

(* A node is cordoned or uncordoned (or leaves, or joins).  Any event of a *)
(* Node enqueues all of bulb's Services, and so does a heartbeat of its    *)
(* kubelet.                                                                *)
ToggleNode(n) ==
    /\ Spend("cluster")
    /\ Write("node", IF n \in api.node THEN api.node \ {n} ELSE api.node \cup {n},
             Matching(cache))
    /\ Unchanged

\* Mutant: Nodes are not mapped to Services.
MutNodeHeartbeat == pc # "down" /\ UNCHANGED vars

NodeHeartbeat ==
    /\ pc # "down"
    /\ queue' = queue \cup Matching(cache)
    /\ UNCHANGED <<api, cache, wakes, budget>>
    /\ Unchanged

ToggleEndpoints(s) ==
    /\ s \in api.ep \/ api.svc[s] # Absent
    /\ Spend("cluster")
    /\ Write("ep", IF s \in api.ep THEN api.ep \ {s} ELSE api.ep \cup {s}, {s})
    /\ Unchanged

\* Mutant: the agent reports the nodes of the spec instead of its own.
MutAgentReports(s, p, n) ==
    LET lbport == api.lb[s][p]
        meant == {allNodesToken, n} \cap lbport.nodes # {}
    IN  /\ lbport # Absent
        /\ (n \in lbport.applied) # meant
        /\ WriteChild("lb", s, p,
              [lbport EXCEPT !.applied = IF meant THEN @ \cup lbport.nodes ELSE @ \ {n}])
        /\ Unchanged
        /\ UNCHANGED budget

(* A firewall-agent puts its node into the status of the LBPorts that are  *)
(* meant for it, cordoned or not, and takes it out of the others.          *)
AgentReports(s, p, n) ==
    LET lbport == api.lb[s][p]
        meant == {allNodesToken, n} \cap lbport.nodes # {}
    IN  /\ lbport # Absent
        /\ (n \in lbport.applied) # meant
        /\ WriteChild("lb", s, p,
              [lbport EXCEPT !.applied = IF meant THEN @ \cup {n} ELSE @ \ {n}])
        /\ Unchanged
        /\ UNCHANGED budget

CatchUp(kind) ==
    /\ pc # "down"
    /\ <<cache[kind], wakes[kind]>> # <<api[kind], {}>>
    /\ cache' = [cache EXCEPT ![kind] = api[kind]]
    /\ queue' = queue \cup wakes[kind]
    /\ wakes' = [wakes EXCEPT ![kind] = {}]
    /\ UNCHANGED <<api, budget>>
    /\ Unchanged

Crash ==
    /\ pc # "down"
    /\ Spend("crash")
    /\ pc' = "down"
    /\ script' = <<>>
    /\ job' = NoJob
    /\ queue' = {}
    /\ wakes' = [kind \in Lagging |-> {}]
    /\ UNCHANGED <<api, cache>>

\* Mutant: LBPorts are not watched.
MutStart ==
    /\ pc = "down"
    /\ pc' = "idle"
    /\ cache' = api
    /\ queue' = {s \in Svcs : api.svc[s] # Absent} \cup api.ep
    /\ UNCHANGED <<api, wakes, script, job, budget>>

(* The informers list everything; what they find enqueues its Service,     *)
(* but a DaemonSet or a DNSRecord enqueues nothing.  eps: Services that    *)
(* have an Endpoints object although no endpoint is ready.                 *)
Start ==
    /\ pc = "down"
    /\ pc' = "idle"
    /\ cache' = api
    /\ \E eps \in SUBSET {s \in Svcs : api.svc[s] # Absent} :
          queue' = Matching(api) \cup {s \in Svcs : Present(api.lb[s]) # {}}
                       \cup api.ep \cup eps
    /\ UNCHANGED <<api, wakes, script, job, budget>>

-----------------------------------------------------------------------------
Init ==
    /\ api = [svc |-> [s \in Svcs |-> Absent],
              ds |-> [s \in Svcs |-> NoChildren("ds")],
              lb |-> [s \in Svcs |-> NoChildren("lb")],
              dns |-> [s \in Svcs |-> NoChildren("dns")],
              node |-> Nodes,
              ep |-> {}]
    /\ cache = api
    /\ wakes = [kind \in Lagging |-> {}]
    /\ queue = {}
    /\ pc = "down"
    /\ script = <<>>
    /\ job = NoJob
    /\ budget = Budget

Cluster ==
    \/ \E s \in Svcs :
          \/ DeleteService(s)
          \/ ToggleEndpoints(s)
          \/ \E spec \in Specs : CreateService(s, spec) \/ EditService(s, spec)
          \/ \E p \in Ports, n \in AgentNodes : AgentReports(s, p, n)
    \/ \E n \in Nodes : ToggleNode(n)

AllSlots == {"ds"} \cup Ports \cup RecordTypes

ReconcileStep ==
    \/ \E s \in Svcs : StartReconcile(s)
    \/ \E slot \in AllSlots :
          pc = "busy" /\ (PutChild(slot) \/ DeleteChild(slot) \/ PruneApplied(slot))
    \/ ListStale
    \/ NextStage
    \/ UpdateStatus
    \/ WriteRejected

Next ==
    \/ Cluster
    \/ NodeHeartbeat
    \/ \E kind \in Lagging : CatchUp(kind)
    \/ ReconcileStep
    \/ ReconcileFault
    \/ Crash
    \/ Start

Spec == Init /\ [][Next]_vars

(* The worker runs, the work queue is first-in-first-out (so no request    *)
(* waits for ever behind others), the informers deliver, kubelets send     *)
(* heartbeats, and a dead controller is replaced.                          *)
Fairness ==
    /\ WF_vars(ReconcileStep)
    /\ \A s \in Svcs : SF_vars(StartReconcile(s))
    /\ WF_vars(NodeHeartbeat)
    /\ \A kind \in Lagging : WF_vars(CatchUp(kind))
    /\ WF_vars(Start)

FairSpec == Spec /\ Fairness

-----------------------------------------------------------------------------
(* Properties.                                                             *)

ControllerTypeOK ==
    /\ api \in ObjectStore
    /\ cache \in ObjectStore
    /\ wakes \in [Lagging -> SUBSET Svcs]
    /\ queue \subseteq Svcs
    /\ pc \in {"down", "idle", "busy"}
    /\ pc = "busy" <=> script # <<>>
    /\ pc = "busy" => job.s \in Svcs
    /\ budget \in [Events -> Nat]

(* Nothing to do and nothing to learn.                                     *)
Settled ==
    /\ pc = "idle"
    /\ queue = {}
    /\ cache = api
    /\ \A kind \in Lagging : wakes[kind] = {}

Disowned(s) == ~ServiceMatches(api.svc[s])

(* Once settled, a Service that is gone or no longer bulb's has no LBPort, *)
(* so no agent keeps a port open for it: whatever crashed, failed or was   *)
(* read from an old cache on the way.                                      *)
LBPortsNeverOrphaned ==
    Settled => \A s \in Svcs : Disowned(s) => Present(api.lb[s]) = {}

(* Once settled, no two Services have an LBPort for the same port on the   *)
(* same node, so no two proxies fight for a hostPort.                      *)
NoPortShared ==
    Settled => \A s, t \in Svcs, p \in Ports :
        /\ s # t
        /\ p \in Present(api.lb[s])
        /\ p \in Present(api.lb[t])
        => ~overlappingNodes(api.lb[s][p].nodes, api.lb[t][p].nodes)

(* Once settled, a Service that is said to be reconciled really has its    *)
(* proxy, its LBPorts and its addresses as its spec and the nodes are now, *)
(* and one that is said to have failed has no port open and no address:    *)
(* whichever caches are late.                                              *)
TrafficTruthful ==
    Settled => \A s \in Matching(api) :
        LET svc == api.svc[s] IN
        IF svc.cond = "Reconciled"
        THEN /\ api.ds[s] = BuildDaemonSet(svc.spec)
             /\ \A p \in Ports :
                   SameSpec("lb", api.lb[s][p], BuildLBPorts(svc.spec)[p])
             /\ svc.ips = nodePublicIPs
        ELSE Present(api.lb[s]) = {} /\ svc.ips = {}

(* If the caches of DaemonSets and DNSRecords are not late, that is true   *)
(* of the DNSRecords too, and a Service that is said to have failed has no *)
(* child at all.  A late cache may hide a child that is to be deleted, and *)
(* neither kind wakes the controller when the cache catches up.            *)
StatusTruthful ==
    /\ TrafficTruthful
    /\ Settled => \A s \in Matching(api) :
           IF api.svc[s].cond = "Reconciled"
           THEN api.dns[s] = BuildDNSRecords(api.svc[s].spec)
           ELSE \A kind \in ChildKinds : Present(api[kind][s]) = {}

NoCallFailed == budget["fault"] = Budget["fault"]

(* Once settled, the status of an LBPort names no node that is gone or     *)
(* cordoned, although the agent there may have reported after the node     *)
(* was pruned, or while the controller held the older version. Reconcile   *)
(* only logs an error of pruneStaleAppliedNodes, so after a call that      *)
(* failed a stale node may stay until the next event.                      *)
StaleNodesPruned ==
    Settled /\ NoCallFailed => \A s \in Matching(api), p \in Ports :
        api.lb[s][p] # Absent => api.lb[s][p].applied \subseteq api.node

ProxyOrphaned(s) ==
    api.ds[s]["ds"] # Absent /\ ~api.ds[s]["ds"].keep

(* A Service that is gone or no longer bulb's has no proxy, unless the     *)
(* proxy is to be kept, and no DNSRecord.                                  *)
ChildrenGone ==
    Settled => \A s \in Svcs : Disowned(s) =>
        ~ProxyOrphaned(s) /\ Present(api.dns[s]) = {}

NoCrash == budget["crash"] = Budget["crash"]

(* reconciler.go: "Service is gone; clean up the DS we created for it."    *)
(* Once settled that is done, although nothing but the last event of the   *)
(* Service leads to it.  A crash loses that event: the next start lists    *)
(* Services, Endpoints and LBPorts, and finds a left proxy by none.        *)
ChildrenNeverOrphaned == NoCrash => ChildrenGone

(* In the end every Service has the condition it deserves, the loser of a  *)
(* port conflict that is over and a Service that has become ready too, and *)
(* what the condition promises.                                            *)
ServicesSettleInTheEnd ==
    <>[](\A s \in Matching(api) :
            /\ api.svc[s].cond = Verdict(s, api.svc[s].spec)
            /\ api.svc[s].cond = "Reconciled" =>
                   api.ds[s] = BuildDaemonSet(api.svc[s].spec))
=============================================================================
