----------------------------- MODULE ProxyStart -----------------------------
(***************************************************************************)
(* From a Service to a proxy that forwards for it: the arguments that the  *)
(* controller renders (portsAndArgs, internal/controller/daemonset.go),    *)
(* what the proxy makes of them when its pod starts (Run and Serve,        *)
(* internal/proxy/proxy.go), which upstream a connection then goes to      *)
(* (upstreamFor) and when the pod counts as ready (health.go).             *)
(*                                                                         *)
(* A listener is the number of a port in the Service and a family: there   *)
(* are an upstream argument and perhaps an endpoint argument for each.  An *)
(* argument is the record it stands for; a listen address is a family and  *)
(* a port, since the host is always the unspecified address.  Lists that   *)
(* the code sorts are sets with the order of their elements.  The ready    *)
(* endpoints of the Service change at any time, and a change that the      *)
(* controller sees replaces the pod.                                       *)
(***************************************************************************)
EXTENDS Naturals, Sequences, FiniteSets

CONSTANTS
    Services,           \* Services the controller may be given
    EndpointSets,       \* port name -> its endpoints, as the cluster may have
                        \* them
    RefusedNames,       \* names a Service port may have and a container port
                        \* of the proxy may not: "probes", which is taken, and
                        \* every name of more than 15 characters
    UnprivilegedStart,  \* the first port that a process without capabilities
                        \* may bind (net.ipv4.ip_unprivileged_port_start)
    MaxChanges          \* changes of the endpoints

Families == {"ipv4", "ipv6"}

ClusterIP(family, target) == <<"clusterIP", family, target>>
Endpoint(family, name, id) == <<"endpoint", family, name, id>>

ServicePort ==
    [name : STRING, port : Nat, protocol : STRING, target : Nat]

\* ips are the families that splitClusterIPs finds a ClusterIP for.
Service ==
    [ports : Seq(ServicePort), ips : SUBSET Families, local : BOOLEAN,
     allowPrivileged : BOOLEAN, proxyProtocol : STRING]

(* Kubernetes: the ports of a Service have names of their own, and each    *)
(* endpoint is one of a port.  The fourth part of an endpoint is its place *)
(* in the order of sort.Strings.                                           *)
ASSUME ProxyAssumption ==
    /\ Services \subseteq Service
    /\ \A s \in Services : \A i, j \in 1..Len(s.ports) :
           s.ports[i].name = s.ports[j].name => i = j
    /\ \A e \in EndpointSets :
           /\ \A s \in Services : \A i \in 1..Len(s.ports) :
                  s.ports[i].name \in DOMAIN e
           /\ \A n \in DOMAIN e :
                  /\ IsFiniteSet(e[n])
                  /\ e[n] \subseteq {"endpoint"} \X Families \X {n} \X Nat
                  /\ \A u, v \in e[n] : u[4] = v[4] => u = v
    /\ RefusedNames \subseteq STRING
    /\ UnprivilegedStart \in Nat

VARIABLES
    svc,        \* the Service
    endpoints,  \* port name -> set of its ready endpoints
    args,       \* of the DaemonSet: a sequence, of one record or of none
    phase,      \* of the pod: "none", "parse", "bind", "serving",
                \* "exited"
    specs,      \* of the process: listener -> its Spec
    bound,      \* the listeners that are bound
    counter,    \* listener -> its endpointCounter, modulo its endpoints
    dialed,     \* listener -> upstream of its last connection, or <<>>
    ready,      \* what the last readiness probe said
    changes     \* changes of the endpoints so far

processVars == <<specs, bound, counter, dialed, ready>>
vars == <<svc, endpoints, args, phase, processVars, changes>>

-----------------------------------------------------------------------------
(* The controller.                                                         *)

ServicePorts == {svc.ports[i] : i \in 1..Len(svc.ports)}

(* In portsAndArgs every port has a listener per ClusterIP.                *)
Listeners == (1..Len(svc.ports)) \X svc.ips

\* Mutant: the addresses of both families are given to both.
MutEndpointUpstreamsForFamily(eps, family) == eps

endpointUpstreamsForFamily(eps, family) == {e \in eps : e[2] = family}

(* --upstream or --udp-upstream, by the protocol.                          *)
UpstreamArg(p, family) ==
    [listen |-> <<family, p.port>>, upstream |-> ClusterIP(family, p.target),
     protocol |-> p.protocol]

(* appendEndpointArg, for a listen address and no protocol; there is no    *)
(* argument if there is no endpoint.                                       *)
EndpointArg(p, family, eps) ==
    [listen |-> <<family, p.port>>,
     endpoints |-> IF svc.local
                   THEN endpointUpstreamsForFamily(eps[p.name], family)
                   ELSE {}]

BuildDaemonSet(eps) ==
    [upstream |-> [k \in Listeners |-> UpstreamArg(svc.ports[k[1]], k[2])],
     endpoint |-> [k \in Listeners |->
                      EndpointArg(svc.ports[k[1]], k[2], eps)],
     proxyProtocol |-> svc.proxyProtocol]

(* duplicateServicePortConflict.                                           *)
DuplicatePort ==
    \E i, j \in 1..Len(svc.ports) :
        /\ i # j
        /\ svc.ports[i].port = svc.ports[j].port
        /\ svc.ports[i].protocol = svc.ports[j].protocol

(* Reconcile gives up before it renders, or BuildDaemonSet fails; the      *)
(* DaemonSet is removed.                                                   *)
Rejected ==
    \/ svc.local /\ \A p \in ServicePorts : endpoints[p.name] = {}
    \/ DuplicatePort
    \/ svc.ips = {}
    \/ svc.ports = <<>>
    \/ \E p \in ServicePorts :
           \/ p.port < 1024 /\ ~svc.allowPrivileged
           \/ p.protocol \notin {"TCP", "UDP"}

(* What a process had open is closed with it (closeAllOpened).             *)
NoProcess ==
    /\ specs' = <<>>
    /\ bound' = {}
    /\ counter' = <<>>
    /\ dialed' = <<>>
    /\ ready' = FALSE

(* The API server refuses a DaemonSet with such a container port, for as   *)
(* long as the Service has it: the create or update fails at every retry.  *)
Refused == \E p \in ServicePorts : p.name \in RefusedNames

Desired == IF Rejected THEN <<>> ELSE <<BuildDaemonSet(endpoints)>>

\* Mutant: an existing DaemonSet is left as it is.
MutApplyDaemonSet ==
    /\ args # Desired
    /\ Rejected \/ ~Refused
    /\ args = <<>>
    /\ args' = Desired
    /\ phase' = "parse"
    /\ NoProcess
    /\ UNCHANGED <<svc, endpoints, changes>>

(* applyDaemonSet, or cleanupByName; the pod is replaced or removed.       *)
ApplyDaemonSet ==
    /\ args # Desired
    /\ Rejected \/ ~Refused
    /\ args' = Desired
    /\ phase' = IF Rejected THEN "none" ELSE "parse"
    /\ NoProcess
    /\ UNCHANGED <<svc, endpoints, changes>>

EndpointsChange ==
    /\ changes < MaxChanges
    /\ changes' = changes + 1
    /\ endpoints' \in EndpointSets \ {endpoints}
    /\ UNCHANGED <<svc, args, phase, processVars>>

-----------------------------------------------------------------------------
(* The start of the proxy.                                                 *)

Exit ==
    /\ phase' = "exited"
    /\ NoProcess
    /\ UNCHANGED <<svc, endpoints, args, changes>>

(* parseEndpointPairs returns a map: of two arguments for one listen       *)
(* address the last one counts.                                            *)
endpointMap(listen) ==
    LET given == {k \in DOMAIN args[1].endpoint :
                     /\ args[1].endpoint[k].listen = listen
                     /\ args[1].endpoint[k].endpoints # {}}
    IN  UNION {args[1].endpoint[k].endpoints :
                  k \in {l \in given : \A m \in given : m[1] <= l[1]}}

ParsedSpecs ==
    [k \in DOMAIN args[1].upstream |->
        LET pair == args[1].upstream[k] IN
        [listen |-> pair.listen, upstream |-> pair.upstream,
         protocol |-> pair.protocol, endpoints |-> endpointMap(pair.listen)]]

\* Mutant: only the text version can be asked for.
MutRunAccepts == args[1].proxyProtocol \in {"", "1"}

RunAccepts == args[1].proxyProtocol \in {"", "1", "2"}

Run ==
    /\ phase = "parse"
    /\ RunAccepts
    /\ phase' = "bind"
    /\ specs' = ParsedSpecs
    /\ counter' = [k \in DOMAIN ParsedSpecs |-> 0]
    /\ dialed' = [k \in DOMAIN ParsedSpecs |-> <<>>]
    /\ UNCHANGED <<svc, endpoints, args, bound, ready, changes>>

RunFails ==
    /\ phase = "parse"
    /\ ~RunAccepts
    /\ Exit

(* net.Listen on an unspecified address, IPv4 or IPv6, takes the port in   *)
(* both families, so the second of two such listeners is refused.          *)
Taken(protocol, port) ==
    \E k \in bound : specs[k].protocol = protocol /\ specs[k].listen[2] = port

(* The pod does not run as root and has dropped all capabilities           *)
(* (hardenedSecurityContext).                                              *)
Denied(port) == port < UnprivilegedStart

(* The order of the specs: TCP ones first, then as the ports are listed,   *)
(* IPv4 first.                                                             *)
Before(k, l) ==
    \/ specs[k].protocol = "TCP" /\ specs[l].protocol = "UDP"
    \/ /\ specs[k].protocol = specs[l].protocol
       /\ k[1] < l[1] \/ (k[1] = l[1] /\ k[2] = "ipv4" /\ l[2] = "ipv6")

(* The loop over the specs in Serve binds the first that is left.          *)
ToBind ==
    LET left == DOMAIN specs \ bound
    IN  {k \in left : \A l \in left \ {k} : Before(k, l)}

Listen(k) ==
    /\ phase = "bind"
    /\ ~Taken(specs[k].protocol, specs[k].listen[2])
    /\ ~Denied(specs[k].listen[2])
    /\ bound' = bound \cup {k}
    /\ UNCHANGED <<svc, endpoints, args, phase, specs, counter, dialed, ready,
                   changes>>

ListenFails(k) ==
    /\ phase = "bind"
    /\ Taken(specs[k].protocol, specs[k].listen[2]) \/ Denied(specs[k].listen[2])
    /\ Exit

HealthPort == 8081

(* startHealthServer, after every listener.                                *)
StartHealth ==
    /\ phase = "bind"
    /\ bound = DOMAIN specs
    /\ ~Taken("TCP", HealthPort)
    /\ phase' = "serving"
    /\ UNCHANGED <<svc, endpoints, args, processVars, changes>>

HealthFails ==
    /\ phase = "bind"
    /\ bound = DOMAIN specs
    /\ Taken("TCP", HealthPort)
    /\ Exit

(* The kubelet.                                                            *)
Restart ==
    /\ phase = "exited"
    /\ phase' = "parse"
    /\ UNCHANGED <<svc, endpoints, args, processVars, changes>>

-----------------------------------------------------------------------------
(* The proxy at work.                                                      *)

(* The element with n smaller ones: out[n] of a list sorted by the code.   *)
Nth(set, n) ==
    CHOOSE e \in set : Cardinality({d \in set : d[4] < e[4]}) = n

(* upstreamFor, for a connection or session of listener k; the counter     *)
(* matters modulo the number of endpoints only.                            *)
upstreamFor(k) ==
    /\ phase = "serving"
    /\ LET spec == specs[k] IN
         \/ /\ spec.endpoints = {}
            /\ dialed' = [dialed EXCEPT ![k] = spec.upstream]
            /\ UNCHANGED counter
         \/ /\ spec.endpoints # {}
            /\ dialed' = [dialed EXCEPT ![k] = Nth(spec.endpoints, counter[k])]
            /\ counter' =
                   [counter EXCEPT ![k] = (@ + 1) % Cardinality(spec.endpoints)]
    /\ UNCHANGED <<svc, endpoints, args, phase, specs, bound, ready, changes>>

readinessUpstream(spec) ==
    IF spec.endpoints # {} THEN Nth(spec.endpoints, 0) ELSE spec.upstream

(* Kubernetes: a ClusterIP answers on the Service's own ports, and goes to *)
(* the endpoints of the port that has the number dialed.                   *)
ServedBy(upstream, protocol) ==
    IF upstream[1] = "endpoint" THEN {upstream}
    ELSE UNION {endpoints[p.name] :
                   p \in {q \in ServicePorts :
                             q.port = upstream[3] /\ q.protocol = protocol}}

Answers(upstream, protocol) ==
    \E n \in DOMAIN endpoints : ServedBy(upstream, protocol) \cap endpoints[n] # {}

(* readyz dials one upstream per TCP listener.                             *)
readyz ==
    /\ phase = "serving"
    /\ ready' = \A k \in DOMAIN specs :
                    specs[k].protocol = "TCP" =>
                        Answers(readinessUpstream(specs[k]), "TCP")
    /\ ready' # ready
    /\ UNCHANGED <<svc, endpoints, args, phase, specs, bound, counter, dialed,
                   changes>>

-----------------------------------------------------------------------------
Init ==
    /\ svc \in Services
    /\ endpoints \in EndpointSets
    /\ args = <<>>
    /\ phase = "none"
    /\ specs = <<>>
    /\ bound = {}
    /\ counter = <<>>
    /\ dialed = <<>>
    /\ ready = FALSE
    /\ changes = 0

Start ==
    \/ Run \/ RunFails \/ StartHealth \/ HealthFails
    \/ \E k \in ToBind : Listen(k) \/ ListenFails(k)

Next ==
    \/ ApplyDaemonSet \/ EndpointsChange \/ Start \/ Restart \/ readyz
    \/ \E k \in DOMAIN specs : upstreamFor(k)

(* The controller is woken by every change of the Endpoints, and the       *)
(* kubelet starts and probes pods.                                         *)
Spec ==
    /\ Init
    /\ [][Next]_vars
    /\ WF_vars(ApplyDaemonSet)
    /\ WF_vars(Start)
    /\ WF_vars(readyz)

-----------------------------------------------------------------------------
(* The five reasons for which the pod of an accepted Service never comes   *)
(* up: a port name that a container port cannot have, a version of the     *)
(* PROXY protocol that Run does not take, ClusterIPs of both families, TCP *)
(* port 8081, and a privileged port that the node does not let it bind.    *)
BadPorts ==
    \/ Refused
    \/ svc.ips = {"ipv4", "ipv6"}
    \/ \E p \in ServicePorts :
           \/ p.port = HealthPort /\ p.protocol = "TCP"
           \/ Denied(p.port)

Unstartable == BadPorts \/ svc.proxyProtocol \notin {"", "1", "2"}

(* The proxy exits for no other reason than those five, and one that       *)
(* serves has a listener for every port and family of the Service: the     *)
(* arguments the controller renders and the ones Run and Serve take        *)
(* otherwise agree (portsAndArgs, Run, Serve).                             *)
StartsUnlessNamed ==
    /\ phase = "exited" => Unstartable
    /\ phase = "serving" =>
           \A p \in ServicePorts : \A f \in svc.ips :
               \E k \in bound :
                   /\ specs[k].listen = <<f, p.port>>
                   /\ specs[k].protocol = p.protocol

(* What the README (README.md:73) and the help of the flag (proxy.go:41)   *)
(* say: the proxy takes the versions v1 and v2.  It does not: the          *)
(* controller passes the annotation on as it is, and Run wants 1 or 2, so  *)
(* the pod of such a Service exits each time it is started.                *)
DocumentedVersionsStart ==
    svc.proxyProtocol \in {"v1", "v2"} /\ ~BadPorts => phase # "exited"

(* Three ways in which traffic leaves for the wrong place: a ClusterIP     *)
(* dialed on the target port rather than the Service port; a number that   *)
(* the Service uses for TCP and for UDP, since --endpoint does not say     *)
(* which of the two it is for; and, with traffic policy Local, a family    *)
(* without endpoints, for which the proxy dials the ClusterIP after all.   *)
DialsTargetPort(k) ==
    /\ specs[k].endpoints = {}
    /\ specs[k].upstream[3] # specs[k].listen[2]

SharesNumber(k) ==
    \E p \in ServicePorts :
        /\ p.port = specs[k].listen[2]
        /\ p.protocol # specs[k].protocol

FallsBack(k) == svc.local /\ specs[k].endpoints = {}

PortNamed(name) == CHOOSE p \in ServicePorts : p.name = name

(* But for those three, every connection a listener forwards goes to an    *)
(* endpoint of the Service port it listens for, and with traffic policy    *)
(* Local to one of the listener's own address family (portsAndArgs,        *)
(* parseEndpointPairs, upstreamFor).                                       *)
ForwardsToOwnPort ==
    \A k \in DOMAIN dialed :
        dialed[k] = <<>> \/ DialsTargetPort(k) \/ SharesNumber(k) \/
        \A u \in ServedBy(dialed[k], specs[k].protocol) :
            /\ PortNamed(u[3]).port = specs[k].listen[2]
            /\ PortNamed(u[3]).protocol = specs[k].protocol
            /\ svc.local => FallsBack(k) \/ u[2] = specs[k].listen[1]

(* After the last change of the endpoints the proxy of a Service that can  *)
(* be served comes to serve with endpoints that exist, for good, and the   *)
(* pod is ready if its upstreams answer: the window in which a connection  *)
(* is sent to an endpoint that is gone closes.                             *)
FreshInTheEnd ==
    <>[](Unstartable \/ Rejected \/
         /\ phase = "serving"
         /\ \A k \in DOMAIN specs :
                specs[k].endpoints \subseteq
                    UNION {endpoints[n] : n \in DOMAIN endpoints}
         /\ (\A k \in DOMAIN specs :
                Answers(readinessUpstream(specs[k]), specs[k].protocol)) => ready)
=============================================================================
