# A TLA+ verification of bulb

bulb turns `type: LoadBalancer` Services of a bare-metal Kubernetes cluster into
proxies on the nodes. One binary has four roles: a **controller**, a **proxy**
(one DaemonSet per Service), a **firewall-agent** (one pod per node) and a
**labeler**. They share no memory: all coordination goes through objects on
the API server (Services, DaemonSets, LBPorts, DNSRecords, Nodes), the state file
of the agent and the node's firewall. Nothing is transactional, and nothing is
garbage collected by owner references, so correctness is a matter of what happens
when a process stops, a call fails, a cache is late or somebody else interferes
between two steps. That is what the modules here model.

## Inventory

| Component (under `src/`) | State | Operations | Hard part | What makes it correct |
|---|---|---|---|---|
| Service reconciler, `internal/controller/reconciler.go`, `status.go` | none of its own; Services, DaemonSets, LBPorts, DNSRecords on the API server, informer caches, work queue | `Reconcile`, `applyDaemonSet`, `cleanupByName`, `updateStatus`, predicates and watch mappings | crash between two writes, late caches, rejected writes, which event wakes which Service | children of a Service that is gone disappear; the status tells the truth; every Service settles |
| Conflict detection, `conflicts.go` | none | `detectPortConflict`, `overlappingNodes` | two Services judged in either order, from a late cache | no two Services hold one port on one node |
| LBPorts, `lbport.go` | LBPort spec (controller) and `appliedNodes` (agents and controller) | `BuildLBPorts`, `applyLBPorts`, `cleanupLBPorts`, `pruneStaleAppliedNodes` | two kinds of writers of one status | stale nodes go, live ones stay |
| DNSRecords, `dnsrecord.go` | DNSRecord objects | `BuildDNSRecords`, `applyDNSRecords`, cleanup | crash in the middle of a cleanup | records go with their Service |
| DaemonSet rendering, `daemonset.go`, and the proxy's start, `proxy.go` | arguments, listeners, endpoint counters | `BuildDaemonSet`, `portsAndArgs`, `Run`, `upstreamFor` | arguments must be those the proxy accepts, and go stale when endpoints change | the proxy starts, serves the Service's ports and forwards each to its own endpoints |
| Firewall-agent, `internal/firewall/firewall.go` | informer cache, work queue, denylist | `Reconcile`, `updateLBPortStatuses`, `Run` | stale reads, swallowed errors, restart | wanted ports open, unwanted ones close, only allowed ones ever open, statuses true |
| Port policy, `firewall.go` | none | `DesiredPortsForNode`, `Filter` | several LBPorts for one port | denied and privileged ports stay closed |
| firewalld backend, `firewalld.go`, `state.go` | zone, state file | `Apply`, `Load`, `Save` | no transaction around the D-Bus calls | never closes or adopts what is not bulb's |
| iptables and nftables backends, `iptables.go`, `nftables.go` | a chain of bulb's in each family and a jump to it; a table with two sets | `Apply` | many commands, two families, others who flush and insert | success means that the desired ports are admitted; failed calls are made up for |
| UDP forwarder, `internal/proxy/udp.go` | session map, upstream sockets, gauge | `run`, `getOrCreate`, `upstreamReadLoop`, `reap`, `dropSession`, `closeAllSessions` | five kinds of goroutines on one map, drops by key, shutdown | each socket has one owner and is closed once; idle sessions go, shutdown ends |
| TCP proxy, `internal/proxy/proxy.go`, `health.go` | listeners, connections, deadlines, wait groups | `Serve`, `acceptLoop`, `handle`, `splice`, `waitTimeout`, `readyz` | drain against cancellation, half-closed connections, failed binds | no stream is cut short but by a shutdown, nothing outlives `Serve`, shutdown ends whatever the peers do |
| Labeler, `internal/labeler/labeler.go` | Node annotations | `detectPublicIPs`, `annotateNode`, `runLoop` | addresses that change after detection, other writers of the Node | only addresses of the node are published, other writes survive, the annotations become right |
| Process wiring (`controller.go`, `config.go`, `main.go`, metrics, dry-run) | flags | start | - | - |

Interactions: users write Services; the controller writes DaemonSets, LBPorts and
DNSRecords and the Services' status; each agent reads LBPorts, changes its
node's firewall and writes its own entry of `status.appliedNodes`; that write wakes
the controller again, which prunes entries of nodes that are gone or cordoned; the
labeler's annotations become the addresses in the Services' status and the DNSRecords.

`PROJECT.json` lists every component with its status, the map from definitions
to source lines, and the hazards: what can go wrong here that a test would hardly
reach, each at its line and with the properties that would catch it.

## Modules

| Module | Models | Proofs |
|---|---|---|
| `FirewalldBackend` | one `Apply` as separate D-Bus calls, the state file, an operator, a reload | `FirewalldBackendProofs` |
| `PortPolicy` | the policy as operators on a list of LBPorts | (used by `FirewallAgentProofs`) |
| `FirewallAgent` | extends both: cache, queue, `Reconcile`, statuses, crash, restart | `FirewallAgentProofs` |
| `FirewallContract` | abstract: what `Backend.Apply` promises its caller | (refined in `BackendsProofs`) |
| `IPTablesBackend`, `NFTablesBackend` | one `Apply` as separate commands, the kernel's rules, others who change them | (in `BackendsProofs`) |
| `Backends` | extends `FirewalldBackend` and composes the three with an agent that wants ports; the refinement of the contract | `BackendsProofs` |
| `ServiceController` | the controller with its caches and the API objects | `ServiceControllerProofs` |
| `ProxyStart` | from a Service to arguments, a started proxy, its upstreams and its readiness | `ProxyStartProofs` |
| `TCPProxy` | `Serve`, accept loops, handlers, copiers, peers | `TCPProxyProofs` |
| `UDPForwarder` | the UDP proxy's goroutines | `UDPForwarderProofs` |
| `Labeler` | detection, read and write of a Node among other writers | `LabelerProofs` |
| `MC...` | the instances for TLC: ports, names, specs, budgets | |

### FirewalldBackend

`bulbOpen` and `operatorOpen` are the zone's entries by who created them,
`stateFile` the file's content, `toAdd`, `toRemove` and `nextManaged` the locals of
a running `Apply`. `opened`, `added` and `interrupted` are history: no action reads
them. `BeginApply` loads the file and reads the zone, `AddPort` and `RemovePort` are
one D-Bus call each, `Save` is the rename at the end, `ApplyFails` is any early
return or the death of the process. firewalld refuses to add a port that is there or
to remove one that is not, so `AddPort` needs the port to be absent by then. A zone
entry that is no single TCP or UDP port (`Foreign`) is misread by `GetPorts` as
`Reads` says (`parsePort`, `protocolFromString`); what it really opens is `Covers` in
`Backends`. A port that lies in a range, but is not its first, is added like any other:
that firewalld may refuse it is left to `ApplyFails`. bulb's ports have no permanent
configuration, so `Reload` drops them and keeps the operator's.

### FirewallAgent

`api` are the LBPorts, `pending` the ordered watch stream, `cache` and `queue` the
informer's cache and the work queue. `Reconcile` is `StartReconcile` (list, filter,
begin `Apply`), `ApplyPort`, `ApplySucceeds` or a failure, and one `UpdateStatus` per
listed LBPort. A status write carries the cached version: it is refused, and only
logged, if a newer one exists, which is when an event of that LBPort is still pending.
`StatusFault` is a write that fails for another reason; `StatusSettles` is stated while
none has happened (`NoStatusFault`), `StatusTrueInTheEnd` with them. `Start` reads the denylist and
enqueues what exists. The module's steps are the backend's steps, conjoined with
the agent's own; that they really are is the refinement `BackendSpec`.

### ServiceController

`Reconcile` is a script of stages, `<<"ds", "lb", "prune", "dns", "status">>` for a
Service in order, `<<"-ds", "-lb", "-dns">>` to clean up, the status first when the
Service is refused. `PutChild`, `ListStale`, `DeleteChild`, `PruneApplied` and
`UpdateStatus` are the calls within a stage. `job` holds the locals. `Verdict` is the
chain of checks. `Write` is any change on the API server: it puts the Services that
the event maps to into the queue, at once or, for a kind in `Lagging`, when
`CatchUp` delivers it. `wakes` keeps the requests of undelivered events. The API
server fills in defaults of a DaemonSet that `BuildDaemonSet` does not set, so
`applyDaemonSet` writes on every round (`UpToDate`). Children live in slots of their
Service; `Taken` is an LBPort name used by somebody else. `StatusAsRead`, the test
whether a status is written at all, compares conditions and addresses: a status that
differs in `observedGeneration` or in a message only is written too, with the same
conditions, so for the model it is the one that is there.

### Backends, IPTablesBackend, NFTablesBackend, FirewallContract

`Call` is the agent's call of `Backend.Apply` with the ports it wants at that time,
`Runs` one command of the running call. A call is made for a request in the work queue
(`queued`: an edit, an error of the call before) or, as long as there are LBPorts, at the
informer's resync. `Restart` empties the queue: with no LBPort left nothing calls `Apply`
any more. `Admits` is what the host lets in: for firewalld that is `OpenInZone`, in which
a range counts for the port it covers and an SCTP entry for none, and not what `GetPorts`
makes of the zone. The iptables backend runs, for each of its two
binaries, `EnsureChain`, `EnsureJump` (list `INPUT`), `InsertJump`, `ListChain`, and one
`DeleteRule` or `AppendRule` per port; `Refused` says when the kernel rejects the next
command because others have changed the rules since. `input` is the sequence of rules of
`INPUT`, of which only bulb's jump is told from others: a port counts as admitted if the
jump comes first and the chain accepts the port. Loading the nftables template is one
atomic step that adds to what is there; that `Apply` also gives up when the listing is
not of the expected form is one of the failures of `Fault`.

`FirewallContract` is what the agent relies on when it reports a port as applied. Its
variables are the admitted ports per family, whether a call runs and with which target,
and whether it returned nil. A step of a call moves towards the target (`Towards`) and a
successful return has met it (`Met`), exactly so for a backend that owns its rules
(iptables); after interference by others, and while the zone has an entry that is misread as a port
of the target (`Misread`), nothing is promised until the next call.
`ImplementsContract` is the refinement, with the admitted ports computed from the zone,
the chains or the sets. `exact` is false for firewalld, where others' ports are admitted
too, and for nftables, which never removes an element.

### ProxyStart

A listener is the place of a port in the Service and a family. `args` has, for each, the
upstream argument and the endpoint argument that `BuildDaemonSet` renders (with no
endpoints if there is none), and `phase` is the pod's life. `Run` parses them
(`endpointMap` keeps the last argument for a listen address), `Listen` binds one listener
after the other in the order of the specs (`Before`: TCP first, then as the ports are
listed), `StartHealth` the probe port. The API server takes no DaemonSet for a Service
port with a name of `RefusedNames`, so `ApplyDaemonSet` does nothing for it, however often
it is retried; below `UnprivilegedStart` the node lets the pod, which has no capabilities,
bind nothing (`Denied`). The code sorts the endpoints of a listener; here
they are a set, and `Nth` is the element at an index of the sorted list.
`Taken` is what Go does with an unspecified address: `net.Listen("tcp", ...)` binds both
families on 0.0.0.0 as on `[::]`. `ServedBy` is what kube-proxy does with a ClusterIP.
`upstreamFor` takes turns by a counter per listener; `dialed` is what it returned last.

### TCPProxy

`Serve` is `Bind`, `StartLoops`, and after `Cancel` `CloseListeners`, `Join`, `Drained`
or `DrainTimeout`, `ServeReturns`. `Accept` and `Spawn` are apart, so a connection may be
in an accept loop's hands while the listeners are closed. A handler dials, arms the
`AfterFunc`, writes the header and splices; `ExpireClient` and `ExpireServer` are the two
`SetDeadline` calls of that function. Each direction has a copier that alternates between
`Read` and `WriteReturns` and ends with `CloseWrite`. Peers send, finish, reset or do
nothing; `Chatty` names those that do something.

### Labeler

`Detect`, `GetNode` and `Update` are the three steps of a round, `Conflict` an update
against a newer Node (`current` is false once somebody else has written it).
`ReconcileEnds` tells the first round, whose error ends the process, from the later ones.
`Fault` is any other error of a step, of the detection as well as of the two calls, and
`Stop` the end of the process in the middle of a round or between two.

### UDPForwarder

`dropSession` is two steps, `Unlink` under the mutex and `CloseHand` after it, and
every goroutine has a `hand` in between. `Receive`, `Dial`, `Insert`, `Touch`,
`WriteUpstream` are `run` and `getOrCreate`; `Reply...` and `Loop...` are
`upstreamReadLoop`; `Reap...` the reaper; `Cancel`, `CloseFrontend`,
`CloseAllSessions` and `Serve...` the shutdown in `Serve`. `idle` stands for a
`lastActivity` older than the timeout.

## Runs

| Run | Result | What it shows |
|---|---|---|
| `FirewallAgent` | holds | refinement, policy, true statuses when quiet; in the end wanted ports are open, tracked ones closed and statuses right though failed writes are not retried: through a crash, a new denylist, a failed call and status write and an operator |
| `Backends` | holds | the three backends implement the contract; wanted ports are admitted in the end; the firewalld backend tracks what it opens, adopts nothing, closes nothing it never opened |
| `NFTablesLeak` | violated | the nftables backend never closes a port, although each of its calls succeeds |
| `ControllerLife` | holds | one Service with selectors, address families, a taken name, late caches, a crash and a fault: no LBPort is orphaned, the status is true, no stale node stays and, without a crash, no proxy or DNSRecord |
| `ControllerRivals` | holds | two Services and a late DaemonSet cache: no port is shared, statuses are true of proxy, ports and addresses, and Services settle in the end, also while an agent on a cordoned node and the controller undo each other's writes |
| `ProxyStart` | holds | but for named exceptions the proxy starts, listens on every port, forwards every connection to the right endpoints, and to fresh ones in the end |
| `ProxyDocumented` | violated | a proxy with a PROXY protocol version as documented exits at every start |
| `TCPProxy` | holds | streams end when they really have, nothing outlives `Serve`, none is added while it waits, a canceled `Serve` returns |
| `TCPDrain` | violated | a shutdown cuts connections off that are in flight |
| `UDPForwarder` | holds | ownership of sockets, gauge, nothing left after `Serve`; idle sessions close, shutdown completes |
| `UDPWrongSession` | violated | an active session is closed |
| `Labeler` | holds | nothing private is published, annotations become right through conflicts, failures and restarts |

A violated run states what a document, a comment or a test of the repository says;
`findings` in `PROJECT.json` quotes the line and describes the behaviour.

Some properties are stated, or checked, under a condition that the code needs. Dropping
the condition gives a counterexample in each case:

* `OpenPortsAccountedFor` and `TrackedPortsCloseInTheEnd` except ports of interrupted
  calls. `AddPort` takes effect at once, the state file is saved at the end of `Apply`;
  if a call in between fails, the retry finds the port open, does not add it and does
  not track it, and no later `Apply` closes it (README.md:45 promises that one does).
  What the accounting shows is that a port gets lost in no other way.
* `NeverClosesForeignPort` speaks of ports that bulb has never opened. A reload drops
  bulb's ports and not the state file; a port that an operator opens afterwards under
  the same number is closed as bulb's, against the changelog's "preserve coexistence
  with operator-managed rules" (`.changelogs/2026-04-28-01.md:137`).
* `TrackedPortsCloseInTheEnd` supposes that some LBPort is left. An agent that starts
  when there is none gets no event, and never compares its state file with the zone.
  `AdmittedInTheEnd` has the same exception for all backends (`Forgotten`).
* `ImplementsContract` and `AdmittedInTheEnd` except a port that `GetPorts` takes for open
  because of an entry of the zone that opens something else (`Misread`): with an SCTP
  entry of the same number `Apply` adds nothing, returns nil, and the TCP port stays
  closed. A range that begins with the port is misread, too, but does open it.
* `StatusSettles` supposes that no status write has failed but for being refused
  (`NoStatusFault`): such a failure is logged and not retried.
* `AdmittedInTheEnd` also excepts a second jump to bulb's chain, which every `Apply` reports
  and none repairs, a rule of somebody else in front of the jump, and an nft that
  refuses a set without elements when only one protocol is wanted. It asks for no more
  than the wanted ports of iptables only.
* `ImplementsContract` allows the call after a flush of `INPUT` to admit old ports for a
  moment: the jump is inserted before the chain is reconciled.
* `ChildrenNeverOrphaned` supposes that the controller has not died (`NoCrash`). The
  DaemonSet is created before the first LBPort and DaemonSets are not watched: if the
  controller dies in between and the Service is deleted before the next start, nothing
  enqueues its name again. And `cleanupByName` deletes the LBPorts, whose events bring a
  controller back to it, before the DNSRecords; a crash between the two leaves the
  DNSRecords.
* `ChildrenNeverOrphaned` and `StatusTruthful` are checked with caches of DaemonSets and
  DNSRecords that are up to date. With `"ds"` or `"dns"` in `Lagging` they fail:
  `cleanupByName` does not find a child that was just created and leaves it, and no event
  of these two kinds brings anybody back. What a late cache cannot do is make a status
  untrue of what carries traffic: `TrafficTruthful` is checked in `ControllerRivals` with
  a late DaemonSet cache and proved for all of them. Nor does a property say that a proxy
  marked keep-on-uninstall is kept: `cleanupByName` reads the mark from the cache, and
  with an old version deletes it.
* `StaleNodesPruned` supposes that no call has failed (an error of
  `pruneStaleAppliedNodes` is only logged, and the stale node stays until the next event)
  and that the system is settled. It need not settle: with an LBPort for all nodes and a
  cordoned node the agent there puts its node back into `appliedNodes` whenever the
  controller prunes it, and each of the two writes wakes the other side, for ever.
  `ServicesSettleInTheEnd` shows that the Services' conditions settle all the same.
* `StartsUnlessNamed` names five kinds of accepted Services whose proxy never comes up:
  PROXY protocol `v1` or `v2`, as the repository's README documents it, where the proxy
  takes `1` and `2` (the violated run); ClusterIPs of both families, whose two listeners
  take each other's port; TCP port 8081, which the health server needs; a port named
  `probes`, like the health server's, or with a name of more than 15 characters, which the
  API server refuses for a container port; and a privileged port on a node whose
  `net.ipv4.ip_unprivileged_port_start` is above it, since the pod drops all capabilities.
  `FreshInTheEnd` has the same exceptions.
* `ForwardsToOwnPort` names three ways in which traffic goes elsewhere: a ClusterIP is
  dialed on the target port instead of the Service port; a number that is used for
  TCP and UDP has one list of endpoints for both; and with traffic policy Local a family
  that has no endpoint is sent to the ClusterIP, which may lead to the other family or to
  another node.
* `AnnotationsRightInTheEnd` supposes an IPv4 default route and an address of the family:
  the last address a node had is never withdrawn. `PublishedWasPublic` leaves unique
  local IPv6 addresses out, which count as public.
* `NothingOutlivesServe` excepts connections when the drain has timed out, and
  `EndOfStreamIsReal` the shutdown: in-flight connections are not drained but cut off,
  since the deadline of now is set on all of them as soon as the context is canceled. That
  is what `TCPDrain` shows, against the comments of `ServeOptions` and of the tests.
* `ShutdownCompletes` says that the read loops end, not that they end before `Serve`
  returns: nothing waits for them, although the comment of `closeAllSessions` suggests it.

**Bounds.** Outside events are limited by a budget per kind (`Budget`, `Limit`): each
edit, crash, fault, operator's change or node change spends one. With two or three edits
an object is created, changed and deleted; one crash and one fault suffice to separate
any two steps of a round, and the properties speak of what is left afterwards.
The agent's run has a privileged port with two LBPorts for it, all nodes or another one,
and a denylist that a restart may change; two edits create and change, so that a port
is deleted while another LBPort is left is not among its histories, only that it is no
longer wanted here. The controller's have one Service through its
life, or two that compete. The backends have a TCP and a UDP port, and for firewalld a range
and an SCTP entry of the operator's; `MaxCopies` caps the copies of the nftables rules that are
counted, which nothing depends on beyond the first. ProxyStart has Services with none
to two ports, both families and both protocols, with every reason to be refused or not to
start, endpoints that change once, and any number of connections. TCPProxy has two
listeners and one connection with two chunks per direction: enough for a direction to
end while the other has data in flight and for an accept to race the shutdown of either
listener; connections do not touch each other but for the wait group. The UDP forwarder
is unbounded in time; one client and two session objects let a session be replaced while
the old one's read loop still runs. Sessions of different clients share the map and the
threads' hands only; the theorems on ownership hold for any number of them.
No run uses symmetry. The proxy's runs do not check for
deadlock: after shutdown, or when a pod can do nothing more, the system has stopped.

**Fairness.** Agent: the informer delivers and resyncs, the worker is scheduled, the
DaemonSet restarts a dead agent. Backends: a request that is in the queue is
taken, the resync comes as long as there are LBPorts, and a call goes on. Controller: the same, plus strong fairness of
taking a given Service from the queue (it is first-in-first-out) and kubelet heartbeats,
which update Nodes every few minutes and to which the code maps all Services. ProxyStart:
the controller is woken by Endpoints, the kubelet starts and probes pods. TCP: every
goroutine that can run does, a dial ends within its five seconds, and the timer of
`waitTimeout` goes off; nothing is assumed of peers, in particular not that a write to one ever returns. UDP: goroutines that can
run are scheduled, a read from a closed socket returns, and `select`, which chooses at
random among ready cases, does not ignore a canceled context for ever. Labeler: the
ticker ticks and the DaemonSet restarts the process. No run assumes that an edit, a
packet, a fault, a crash or a shutdown happens.

## Proofs

All theorems hold for every value of the constants that satisfies the named
assumptions (`BackendAssumption`, `PolicyAssumption`, `KeysAssumption`,
`EnvironmentAssumption`, `BackendsAssumption`, `UDPAssumption`, `FiniteAssumption`,
`TCPAssumption`, `LabelerAssumption`, `ControllerAssumption`, `AbsentAssumption`,
`ProxyAssumption`),
which say what kind of things the constants are: any number of Services, nodes, ports,
connections, any budget of edits, faults and crashes.

* **FirewalldBackendProofs.** `OpenPortsAccountedFor` is not inductive: a step of a
  running call depends on what the call decided at its start. `BackendInv` adds that
  what is tracked, or about to be closed, was once opened by bulb (`TrackedWereOpened`);
  that what the call will save was tracked before or is opened by the call
  (`CallKnowsItsPorts`); and that no tracked open port falls between the two loops
  (`CallCoversTracked`). From it follow the types, the accounting and the two action
  properties.
* **FirewallAgentProofs.** `AgentImplementsBackend`: each step of the agent is a step
  of the backend or leaves it alone, so the backend's theorems hold of the agent
  (`AgentInheritsBackend`). `AgentObeysPolicy` rests on `PolicyInv`: what a call has
  still to open comes from the LBPorts it listed and the denylist it has, which nothing
  changes before the call ends. `AgentTypeCorrect` uses `AgentInv`, with one lemma per
  group of variables.
  `StatusesSettle` proves `StatusSettles`, with its condition `NoStatusFault`. `StatusInv` adds that an LBPort
  without a pending event is in the cache as it is (`CacheFollows`), and that a Reconcile
  after which none is to come has listed the LBPorts as they are and has left none behind
  it with a wrong status (`LastReconcile`).
* **UDPForwarderProofs.** `UDPInv` says who owns a socket (the map, one hand, or `run`
  before it inserts) and keeps the books of each goroutine: a hand is full only between
  the two halves of `dropSession`; only `run` inserts, so from its first look to its
  insertion the client has no session; when `closeAllSessions` has listed the map,
  `run` has returned and the list covers the map. It follows that no socket leaks,
  none is held twice, the race of `getOrCreate` is never lost and nothing is left after
  `Serve`, for any number of clients and sessions. `UDPGaugeExact` needs `UDPInv`, too:
  unlinking moves a session from the map to a hand that `HandsMatchPc` says is empty, and
  an insertion never replaces one, so the two cardinalities add up to the gauge; that it
  is a natural number (`UDPTypeCorrect`) follows. Only these two need
  `FiniteAssumption`.
* **BackendsProofs.** `BackendsImplementContract` is the refinement of
  `FirewallContract`, with one step per command. `BackendsInv` says how far a call is. For
  firewalld: every target port is in the zone, about to be added, or misread. For iptables: the jump
  is there once the call is past inserting it, what the chain accepts and what is still to
  be appended or deleted make up the target, and the first family is done while the second
  is handled; and bulb's jump leads `INPUT` unless somebody has put a rule in front of it
  (`JumpLeads`). Each has the exception `disturbed`, for firewalls changed by others during
  the call. `BackendsSpareOperators` carries the theorems of the firewalld backend over to
  the composition.
* **TCPProxyProofs.** `TCPInv` has two halves. `ServeInv` says in which order `Serve` takes
  things down, so that what one wait has seen gone stays gone (`ServeClosesInOrder`), and
  that a connection between `Accept` and `conns.Add(1)` is held by one accept loop
  (`LoopsHoldNewConns`): with no loop left no handler starts. `NothingLeftBehind` and
  `NoAddBesideWait` follow. `StreamInv` follows the data of each direction: a copier passes
  on only what was sent, leaves its loop only for a real end of stream, a reset or the
  shutdown (`EndsAreReal`), and only then ends the other stream. `StreamsEndInFull` follows.
* **LabelerProofs.** `PublishedArePublic`: the addresses on the way from `Detect` through
  the read of the Node to `Update` are public ones of the node (`OnItsWay`).
  `OtherWritesSurvive`: no write of others that falls between the read and the update is
  undone, since what is about to be written is the Node as it is until somebody else
  writes it (`PatchIsCurrent`); no address is ever withdrawn.
* **ServiceControllerProofs.** The controller's invariant is about events. `ServiceLag` and
  `LBPortLag` say that a Service or an LBPort whose end or beginning the cache does not show
  yet has an undelivered event that will wake the Service; `ApplyingWoken` that a Reconcile that
  applies what is no longer true has a successor in the queue; `Claimed(kind)` that every
  child of a disowned Service has somebody to delete it: the running Reconcile or a queued
  one. `Delivers` is what each write does to the queue, and `OrdinaryInductive` shows once
  that a step which delivers its events preserves the invariant, so that an action's
  lemma has only its own writes to deal with. `LBPortsCleanedUp` holds for any lag, any
  number of crashes and faults. DaemonSets and DNSRecords wake nobody, so their claim can
  be lost, by two steps and no other: a cleanup that lists children from a cache which does
  not show one yet (`Overlooks`), and a start after the Service has gone, when no event is
  left that leads to its child (`Forgets`). `ChildrenCleanedUp` says that a behaviour
  without these two steps leaves nothing behind, whatever the caches, crashes and faults.
* **ServiceControllerProofs**, second part. What a Service has when the controller is settled depends on
  what its last Reconcile did, and on nothing having changed since it began. The invariant
  is therefore about Services that are `Quiet`: bulb's, not queued, and with no event under
  way. `Told(s)` is what is known of one. While its Reconcile runs, the Reconcile has the
  Service as it is (`KnowsService`), the stages behind it have left the children of their
  kind as wanted, or none, and the current stage has done so for all but its lists of
  things to do (`Progress`, `PrunedSoFar`); when none runs, children and addresses agree
  with the condition (`AddressesTold`). `VersionLag` makes the caches of a quiet Service
  exact (`QuietSeen`), and `Learns`, which every step but a start of a Reconcile or of the
  process satisfies, says that a change of the Service, of its LBPorts or of the nodes ends
  the quiet (`QuietBefore`). So for a Service that is quiet after a step, the step either
  left alone all that `Told` depends on (`Bystander`), or is a step of its own Reconcile
  within a stage (`KeepsWordInStage`) or out of one (`GoOnKeepsWord`). `HoldersAgree` adds
  that two quiet Services that have their ports, or are about to, do not clash: none comes
  to hold its ports but by the verdict at the start of its Reconcile, which sees every
  quiet Service as it is.
  `PortsNotShared`, `StaleNodesGone` and `StatusesTruthful`, which is about
  `TrafficTruthful`, hold for any lag, faults and crashes. For a late DaemonSet cache
  the proxy is right all the same, since `applyDaemonSet` writes on every round
  and a write against an old version is rejected and retried.

* **ProxyStartProofs.** `ProxyInv` has three parts. The arguments of a pod are those that
  `BuildDaemonSet` renders for endpoints that the Service once had, and the Service passed
  the checks that do not depend on endpoints (`ArgsRendered`). The process has the specs of
  those arguments, no two of its listeners have the same port, each counter is below the
  number of endpoints, and each connection went to an upstream of its listener
  (`ProcessConsistent`). A pod that serves has bound all listeners and the probe port, and
  one that exited had a reason (`PhasesMean`). `ProxyStartsUnlessNamed` follows: by
  `CompetingListeners` two listeners meet on a port only as the two families of one port,
  since the controller refuses a port that is listed twice. For `ProxyForwardsToOwnPort`,
  `EndpointsOfOnePort` shows that of the endpoint arguments for a listen address
  one is kept, and `OwnEndpoints` that it is the listener's own unless the other protocol
  uses the number, too. That `Nth` finds an element below the length (`NthExists`) needs no
  induction: the ranks of n elements are n different numbers below n. `ProxyAssumption`
  says what Kubernetes guarantees: the ports of a Service have names of their own.

Every action property and every invariant of the passing runs is proved but for two:
of `StatusTruthful` the part `TrafficTruthful`, and `ChildrenNeverOrphaned`, which needs
caches of the unwatched kinds that do not lag, in the form of `ChildrenCleanedUp`. Only
model-checked is what is about liveness: it is beyond this prover's reach, like `ENABLED`.

## Not modelled

Events, logs, metrics (other than the UDP gauge); the pod template's constants and the
translation of a label selector into node affinity; the bytes of the PROXY header (v2
ends with two bytes beyond its declared length, which is for a test); target ports given
by name; names of children and their collisions, since children are slots of their
Service; the priorities of other tables' nftables chains, whose verdicts come on top of
bulb's; parsing of the ConfigMap and of flags beyond what decides whether the proxy
starts; the dry-run backend, whose `Apply` does nothing; the command line and the
`dns-agent`, which is a stub. The API server, informers, work queue, firewalld,
netfilter, kube-proxy, kubelet, the network and the clock are external and modelled as
the code uses them. Optimistic concurrency is modelled by comparing the cached with the
stored object.

## Plan

What is left are the pure parts: names of children and their collisions over small
alphabets.
