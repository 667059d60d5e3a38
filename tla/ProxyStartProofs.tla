-------------------------- MODULE ProxyStartProofs --------------------------
(***************************************************************************)
(* That the proxy starts with the arguments the controller renders, and    *)
(* where it forwards, for any Service, any endpoints and any changes of    *)
(* them.                                                                   *)
(***************************************************************************)
EXTENDS ProxyStart, FiniteSetTheorems, TLAPS

(* What the controller has accepted does not change with the endpoints.    *)
Accepted == ~DuplicatePort /\ svc.ips # {} /\ svc.ports # <<>>

(* The arguments are those for endpoints that the Service once had.        *)
ArgsRendered ==
    /\ svc \in Services
    /\ endpoints \in EndpointSets
    /\ phase \in {"none", "parse", "bind", "serving", "exited"}
    /\ phase # "none" => /\ Accepted
                         /\ \E e \in EndpointSets : args = <<BuildDaemonSet(e)>>

(* A connection goes to an endpoint of the listener if it has any.         *)
Upstreams(k) ==
    IF specs[k].endpoints = {} THEN {specs[k].upstream} ELSE specs[k].endpoints

Running == phase \in {"bind", "serving"}

ProcessConsistent ==
    /\ Running =>
           /\ RunAccepts
           /\ specs = ParsedSpecs
           /\ bound \subseteq Listeners
           /\ \A k, l \in bound :
                  /\ specs[k].protocol = specs[l].protocol
                  /\ specs[k].listen[2] = specs[l].listen[2]
                  => k = l
           /\ counter \in [Listeners -> Nat]
           /\ \A k \in Listeners :
                  specs[k].endpoints # {} =>
                      counter[k] < Cardinality(specs[k].endpoints)
           /\ DOMAIN dialed = Listeners
           /\ \A k \in Listeners : dialed[k] \in {<<>>} \cup Upstreams(k)
    /\ ~Running => bound = {} /\ dialed = <<>> /\ specs = <<>>

PhasesMean ==
    /\ phase = "serving" => bound = Listeners /\ ~Taken("TCP", HealthPort)
    /\ phase = "exited" => Unstartable

ProxyInv == ArgsRendered /\ ProcessConsistent /\ PhasesMean

-----------------------------------------------------------------------------
(* An index below the length of a sorted list finds an element: the ranks  *)
(* of n elements are n different numbers below n, and so all of them.      *)
LEMMA NthExists ==
    ASSUME NEW S, IsFiniteSet(S), \A u \in S : u[4] \in Nat,
           \A u, v \in S : u[4] = v[4] => u = v,
           NEW n \in Nat, n < Cardinality(S)
    PROVE  Nth(S, n) \in S
<1> DEFINE Less(u) == {d \in S : d[4] < u[4]}
           N == Cardinality(S)
           rank == [u \in S |-> Cardinality(Less(u))]
<1> HIDE DEF Less, N, rank
<1>1. N \in Nat
  BY FS_CardinalityType DEF N
<1>2. ASSUME NEW u \in S
      PROVE  /\ IsFiniteSet(Less(u))
             /\ Cardinality(Less(u)) \in 0..(N - 1)
  <2>1. Less(u) \in SUBSET S /\ u \notin Less(u)
    BY DEF Less
  <2>2. /\ IsFiniteSet(Less(u))
        /\ Cardinality(Less(u)) <= N /\ Cardinality(Less(u)) # N
    BY <2>1, FS_Subset DEF N
  <2>3. Cardinality(Less(u)) \in Nat
    BY <2>2, FS_CardinalityType
  <2> QED
    BY <2>2, <2>3, <1>1
<1>3. ASSUME NEW u \in S, NEW v \in S, u[4] < v[4]
      PROVE  Cardinality(Less(u)) < Cardinality(Less(v))
  <2>1. Less(u) \in SUBSET Less(v)
    BY <1>3 DEF Less
  <2>2. u \in Less(v) /\ u \notin Less(u)
    BY <1>3 DEF Less
  <2>3. /\ Cardinality(Less(u)) <= Cardinality(Less(v))
        /\ Cardinality(Less(u)) # Cardinality(Less(v))
    BY <2>1, <2>2, <1>2, FS_Subset
  <2>4. Cardinality(Less(u)) \in Nat /\ Cardinality(Less(v)) \in Nat
    BY <1>2, <1>1
  <2> QED
    BY <2>3, <2>4
<1>4. rank \in [S -> 0..(N - 1)] /\ \A u \in S : rank[u] = Cardinality(Less(u))
  BY <1>2 DEF rank
<1>5. \A u, v \in S : rank[u] = rank[v] => u = v
  <2> SUFFICES ASSUME NEW u \in S, NEW v \in S, rank[u] = rank[v]
               PROVE  u[4] = v[4]
    OBVIOUS
  <2>1. Cardinality(Less(u)) = Cardinality(Less(v)) /\ Cardinality(Less(u)) \in Nat
    BY <1>2, <1>1, <1>4
  <2>2. ~(u[4] < v[4]) /\ ~(v[4] < u[4])
    BY <2>1, <1>3
  <2> QED
    BY <2>2
<1>6. rank \in Injection(S, 0..(N - 1))
  BY <1>4, <1>5 DEF Injection, IsInjective
<1>7. IsFiniteSet(0..(N - 1)) /\ Cardinality(0..(N - 1)) = N
  BY <1>1, FS_Interval
<1>8. rank \in Surjection(S, 0..(N - 1))
  BY <1>6, <1>7, FS_Injection DEF N
<1>9. n \in 0..(N - 1)
  BY <1>1 DEF N
<1>10. PICK u \in S : rank[u] = n
  BY <1>8, <1>9 DEF Surjection
<1>11. Cardinality(Less(u)) = n
  BY <1>10, <1>4
<1> QED
  BY <1>11 DEF Nth, Less

-----------------------------------------------------------------------------
(* A listener is a port of the Service and one of its families.            *)
LEMMA ListenerShape ==
    ASSUME svc \in Services
    PROVE  /\ Len(svc.ports) \in Nat
           /\ svc.ips \subseteq Families
           /\ \A i \in 1..Len(svc.ports) : svc.ports[i] \in ServicePort
           /\ \A k \in Listeners :
                  /\ k[1] \in 1..Len(svc.ports) /\ k[2] \in svc.ips
                  /\ k = <<k[1], k[2]>>
<1>1. svc \in Service
  BY ProxyAssumption
<1>2. /\ svc.ports \in Seq(ServicePort)
      /\ svc.ips \in SUBSET Families
  BY <1>1 DEF Service
<1>3. /\ Len(svc.ports) \in Nat
      /\ \A i \in 1..Len(svc.ports) : svc.ports[i] \in ServicePort
  BY <1>2
<1> QED
  BY <1>2, <1>3 DEF Listeners

(* The specs are the upstream arguments, with the endpoints of their       *)
(* listen address.                                                         *)
LEMMA SpecsShape ==
    ASSUME ArgsRendered, phase # "none"
    PROVE  /\ DOMAIN ParsedSpecs = Listeners
           /\ \A k \in Listeners :
                  LET p == svc.ports[k[1]] IN
                  /\ ParsedSpecs[k].listen = <<k[2], p.port>>
                  /\ ParsedSpecs[k].upstream = ClusterIP(k[2], p.target)
                  /\ ParsedSpecs[k].protocol = p.protocol
                  /\ ParsedSpecs[k].endpoints = endpointMap(<<k[2], p.port>>)
<1>1. PICK e \in EndpointSets : args = <<BuildDaemonSet(e)>>
  BY DEF ArgsRendered
<1>2. args[1].upstream = [k \in Listeners |-> UpstreamArg(svc.ports[k[1]], k[2])]
  BY <1>1 DEF BuildDaemonSet
<1>3. /\ DOMAIN args[1].upstream = Listeners
      /\ \A k \in Listeners :
             args[1].upstream[k] = UpstreamArg(svc.ports[k[1]], k[2])
  BY <1>2
<1>4. /\ DOMAIN ParsedSpecs = Listeners
      /\ \A k \in Listeners :
             LET pair == args[1].upstream[k] IN
             ParsedSpecs[k] = [listen |-> pair.listen, upstream |-> pair.upstream,
                               protocol |-> pair.protocol,
                               endpoints |-> endpointMap(pair.listen)]
  BY <1>3 DEF ParsedSpecs
<1>5. ASSUME NEW k \in Listeners, NEW p, p = svc.ports[k[1]]
      PROVE  /\ ParsedSpecs[k].listen = <<k[2], p.port>>
             /\ ParsedSpecs[k].upstream = ClusterIP(k[2], p.target)
             /\ ParsedSpecs[k].protocol = p.protocol
             /\ ParsedSpecs[k].endpoints = endpointMap(<<k[2], p.port>>)
  <2>1. args[1].upstream[k] = UpstreamArg(p, k[2])
    BY <1>3, <1>5
  <2>2. /\ args[1].upstream[k].listen = <<k[2], p.port>>
        /\ args[1].upstream[k].upstream = ClusterIP(k[2], p.target)
        /\ args[1].upstream[k].protocol = p.protocol
    BY <2>1 DEF UpstreamArg
  <2> HIDE <2>1
  <2> QED
    BY <1>4, <2>2
<1> QED
  BY <1>4, <1>5

(* The endpoints of a listener are those, at some time, of a port with the *)
(* same number: parseEndpointPairs keeps one argument per listen address.  *)
LEMMA EndpointsOfOnePort ==
    ASSUME ArgsRendered, phase # "none", NEW k \in Listeners,
           ParsedSpecs[k].endpoints # {}
    PROVE  \E l \in Listeners, e \in EndpointSets :
               /\ l[2] = k[2]
               /\ svc.ports[l[1]].port = svc.ports[k[1]].port
               /\ ParsedSpecs[k].endpoints =
                      endpointUpstreamsForFamily(e[svc.ports[l[1]].name], k[2])
<1> DEFINE listen == <<k[2], svc.ports[k[1]].port>>
           arg == args[1].endpoint
           given == {l \in DOMAIN arg :
                        arg[l].listen = listen /\ arg[l].endpoints # {}}
           last == {l \in given : \A m \in given : m[1] <= l[1]}
<1>1. PICK e \in EndpointSets : args = <<BuildDaemonSet(e)>>
  BY DEF ArgsRendered
<1>2. /\ DOMAIN arg = Listeners
      /\ \A l \in Listeners :
             arg[l] = EndpointArg(svc.ports[l[1]], l[2], e)
  BY <1>1 DEF BuildDaemonSet
<1> HIDE DEF arg
<1>3. \A l \in Listeners :
          /\ arg[l].listen = <<l[2], svc.ports[l[1]].port>>
          /\ arg[l].endpoints # {} =>
                 arg[l].endpoints =
                     endpointUpstreamsForFamily(e[svc.ports[l[1]].name], l[2])
  BY <1>2 DEF EndpointArg
<1>4. ParsedSpecs[k].endpoints = UNION {arg[l].endpoints : l \in last}
  BY SpecsShape DEF endpointMap, arg
<1>5. PICK l \in last : TRUE
  BY <1>4
<1>6. /\ l \in Listeners /\ l[2] = k[2]
      /\ svc.ports[l[1]].port = svc.ports[k[1]].port
      /\ arg[l].endpoints # {}
  BY <1>5, <1>2, <1>3
<1>7. ASSUME NEW m \in last
      PROVE  m = l
  <2>1. /\ m \in Listeners /\ arg[m].listen = listen
        /\ m[1] <= l[1] /\ l[1] <= m[1]
    BY <1>2, <1>5, <1>7
  <2>2. m = <<m[1], m[2]>> /\ l = <<l[1], l[2]>>
    BY <1>6, <2>1, ListenerShape DEF ArgsRendered
  <2>3. m[1] = l[1]
    <3>1. m[1] \in Nat /\ l[1] \in Nat
      BY <1>6, <2>1, ListenerShape DEF ArgsRendered
    <3> HIDE DEF last
    <3> QED
      BY <2>1, <3>1
  <2>4. arg[m].listen = <<m[2], svc.ports[m[1]].port>>
    BY <1>3, <2>1
  <2>5. m[2] = k[2]
    BY <2>1, <2>4
  <2> QED
    BY <1>6, <2>2, <2>3, <2>5
<1>8. last = {l}
  BY <1>5, <1>7
<1>9. ParsedSpecs[k].endpoints = arg[l].endpoints
  BY <1>4, <1>8
<1> QED
  BY <1>3, <1>6, <1>9

(* So they can be put in order, and are of the listener's family.          *)
LEMMA EndpointsSorted ==
    ASSUME ArgsRendered, phase # "none", NEW k \in Listeners,
           NEW E, E = ParsedSpecs[k].endpoints
    PROVE  /\ IsFiniteSet(E)
           /\ Cardinality(E) \in Nat
           /\ E # {} => Cardinality(E) # 0
           /\ \A u \in E : u[1] = "endpoint" /\ u[2] = k[2] /\ u[4] \in Nat
           /\ \A u, v \in E : u[4] = v[4] => u = v
<1>1. CASE E = {}
  BY <1>1, FS_EmptySet
<1>2. CASE E # {}
  <2>1. PICK l \in Listeners, e \in EndpointSets :
            E = endpointUpstreamsForFamily(e[svc.ports[l[1]].name], k[2])
    BY <1>2, EndpointsOfOnePort
  <2>2. l[1] \in 1..Len(svc.ports)
    BY ListenerShape DEF ArgsRendered
  <2> DEFINE n == svc.ports[l[1]].name
  <2>3. n \in DOMAIN e
    BY <2>2, ProxyAssumption DEF ArgsRendered
  <2>4. /\ IsFiniteSet(e[n])
        /\ e[n] \subseteq {"endpoint"} \X Families \X {n} \X Nat
        /\ \A u, v \in e[n] : u[4] = v[4] => u = v
    BY <2>3, ProxyAssumption
  <2>5. E \in SUBSET e[n] /\ \A u \in E : u[2] = k[2]
    BY <2>1 DEF endpointUpstreamsForFamily
  <2>6. \A u \in E : u[1] = "endpoint" /\ u[4] \in Nat
    BY <2>4, <2>5
  <2>7. IsFiniteSet(E)
    BY <2>4, <2>5, FS_Subset
  <2>8. Cardinality(E) \in Nat /\ Cardinality(E) # 0
    BY <1>2, <2>7, FS_CardinalityType, FS_EmptySet
  <2> QED
    BY <2>4, <2>5, <2>6, <2>7, <2>8
<1> QED
  BY <1>1, <1>2

-----------------------------------------------------------------------------
(* What the model derives from the Service and the arguments stays the     *)
(* same with them.                                                         *)
LEMMA SameService ==
    ASSUME svc' = svc
    PROVE  /\ Listeners' = Listeners
           /\ ServicePorts' = ServicePorts
           /\ Accepted' <=> Accepted
           /\ Unstartable' <=> Unstartable
           /\ \A e : BuildDaemonSet(e)' = BuildDaemonSet(e)
<1>1. Listeners' = Listeners /\ ServicePorts' = ServicePorts
  BY DEF Listeners, ServicePorts
<1>2. Accepted' <=> Accepted
  BY DEF Accepted, DuplicatePort
<1>3. Unstartable' <=> Unstartable
  BY <1>1 DEF Unstartable, BadPorts, Refused, Denied, HealthPort
<1>4. \A e : BuildDaemonSet(e)' = BuildDaemonSet(e)
  BY <1>1 DEF BuildDaemonSet, EndpointArg, UpstreamArg,
                endpointUpstreamsForFamily, ClusterIP
<1> QED
  BY <1>1, <1>2, <1>3, <1>4

LEMMA SameArgs ==
    ASSUME args' = args
    PROVE  /\ ParsedSpecs' = ParsedSpecs
           /\ RunAccepts' <=> RunAccepts
  BY DEF ParsedSpecs, endpointMap, RunAccepts

(* A step that leaves the Service, the arguments and the process as they   *)
(* are.                                                                    *)
LEMMA SameProcess ==
    ASSUME ProxyInv, UNCHANGED <<svc, args, phase, processVars>>,
           endpoints' \in EndpointSets
    PROVE  ProxyInv'
<1>1. /\ svc' = svc /\ args' = args /\ phase' = phase
      /\ specs' = specs /\ bound' = bound /\ counter' = counter /\ dialed' = dialed
  BY DEF processVars
<1>2. ArgsRendered'
  BY <1>1, SameService DEF ProxyInv, ArgsRendered
<1>3. ProcessConsistent'
  BY <1>1, SameService, SameArgs DEF ProxyInv, ProcessConsistent, Running, Upstreams
<1>4. PhasesMean'
  BY <1>1, SameService DEF ProxyInv, PhasesMean, Taken, HealthPort
<1> QED
  BY <1>2, <1>3, <1>4 DEF ProxyInv

(* A step after which there is no process.                                 *)
LEMMA AfterNoProcess ==
    ASSUME NoProcess, phase' \in {"none", "parse", "exited"},
           phase' = "exited" => Unstartable', ArgsRendered'
    PROVE  ProxyInv'
<1>1. ProcessConsistent'
  BY DEF NoProcess, ProcessConsistent, Running
<1>2. PhasesMean'
  BY DEF PhasesMean
<1> QED
  BY <1>1, <1>2 DEF ProxyInv

(* Exit is taken only for one of the reasons that are named.               *)
LEMMA ExitsForReason ==
    ASSUME ProxyInv, phase # "none", Unstartable, Exit
    PROVE  ProxyInv'
<1>1. UNCHANGED <<svc, args, endpoints>> /\ phase' = "exited" /\ NoProcess
  BY DEF Exit
<1>2. Unstartable'
  BY <1>1, SameService
<1>3. ArgsRendered'
  BY <1>1, SameService DEF ProxyInv, ArgsRendered
<1> QED
  BY <1>1, <1>2, <1>3, AfterNoProcess

(* What is bound, or about to be, in terms of the Service.                 *)
LEMMA RunningSpecs ==
    ASSUME ProxyInv, Running
    PROVE  /\ DOMAIN specs = Listeners
           /\ \A k \in Listeners :
                  /\ specs[k].listen = <<k[2], svc.ports[k[1]].port>>
                  /\ specs[k].protocol = svc.ports[k[1]].protocol
                  /\ specs[k].upstream = ClusterIP(k[2], svc.ports[k[1]].target)
<1>1. specs = ParsedSpecs /\ ArgsRendered /\ phase # "none"
  BY DEF ProxyInv, ProcessConsistent, Running
<1> QED
  BY <1>1, SpecsShape

(* Two listeners compete for a port only as the two families of one port   *)
(* of the Service.                                                         *)
LEMMA CompetingListeners ==
    ASSUME ProxyInv, Running, NEW k \in Listeners, NEW l \in Listeners, k # l,
           specs[k].protocol = specs[l].protocol,
           specs[k].listen[2] = specs[l].listen[2]
    PROVE  Unstartable
<1>1. /\ svc.ports[k[1]].protocol = svc.ports[l[1]].protocol
      /\ svc.ports[k[1]].port = svc.ports[l[1]].port
  BY RunningSpecs
<1>2. /\ k[1] \in 1..Len(svc.ports) /\ l[1] \in 1..Len(svc.ports)
      /\ k = <<k[1], k[2]>> /\ l = <<l[1], l[2]>>
      /\ k[2] \in svc.ips /\ l[2] \in svc.ips
      /\ svc.ips \subseteq Families
  BY ListenerShape DEF ProxyInv, ArgsRendered
<1>3. ~DuplicatePort
  BY DEF ProxyInv, ArgsRendered, Accepted, Running
<1>4. k[1] = l[1]
  BY <1>1, <1>2, <1>3 DEF DuplicatePort
<1>5. k[2] # l[2]
  BY <1>2, <1>4
<1>6. svc.ips = {"ipv4", "ipv6"}
  BY <1>2, <1>5 DEF Families
<1> QED
  BY <1>6 DEF Unstartable, BadPorts

(* There is no pod before the controller has seen the Service.             *)
LEMMA InitProxy ==
    Init => ProxyInv
  BY DEF Init, ProxyInv, ArgsRendered, ProcessConsistent, Running, PhasesMean

(* The controller: a new DaemonSet, or none.                               *)
LEMMA ApplyKeepsInv ==
    ASSUME ProxyInv, ApplyDaemonSet
    PROVE  ProxyInv'
<1>1. UNCHANGED <<svc, endpoints>> /\ NoProcess
  BY DEF ApplyDaemonSet
<1>2. CASE Rejected
  <2>1. phase' = "none"
    BY <1>2 DEF ApplyDaemonSet
  <2>2. ArgsRendered'
    BY <1>1, <2>1 DEF ProxyInv, ArgsRendered
  <2> QED
    BY <1>1, <2>1, <2>2, AfterNoProcess
<1>3. CASE ~Rejected
  <2>1. phase' = "parse" /\ args' = <<BuildDaemonSet(endpoints)>>
    BY <1>3 DEF ApplyDaemonSet, Desired
  <2>2. Accepted
    BY <1>3 DEF Accepted, Rejected
  <2>3. ArgsRendered'
    BY <1>1, <2>1, <2>2, SameService DEF ProxyInv, ArgsRendered
  <2> QED
    BY <1>1, <2>1, <2>3, AfterNoProcess
<1> QED
  BY <1>2, <1>3

(* Run with arguments it takes: no listener and no connection yet.         *)
LEMMA RunKeepsInv ==
    ASSUME ProxyInv, Run
    PROVE  ProxyInv'
<1>1. /\ phase = "parse" /\ phase' = "bind" /\ RunAccepts
      /\ svc' = svc /\ endpoints' = endpoints /\ args' = args
      /\ specs' = ParsedSpecs /\ bound' = bound
      /\ counter' = [k \in DOMAIN ParsedSpecs |-> 0]
      /\ dialed' = [k \in DOMAIN ParsedSpecs |-> <<>>]
  BY DEF Run
<1>2. ArgsRendered'
  BY <1>1, SameService DEF ProxyInv, ArgsRendered
<1>3. DOMAIN ParsedSpecs = Listeners /\ Listeners' = Listeners
  BY <1>1, SpecsShape, SameService DEF ProxyInv
<1>4. bound' = {} /\ specs' = ParsedSpecs' /\ RunAccepts'
  BY <1>1, SameArgs DEF ProxyInv, ProcessConsistent, Running
<1>5. ASSUME NEW k \in Listeners, specs'[k].endpoints # {}
      PROVE  counter'[k] < Cardinality(specs'[k].endpoints)
  <2>1. /\ Cardinality(ParsedSpecs[k].endpoints) \in Nat
        /\ Cardinality(ParsedSpecs[k].endpoints) # 0
    BY <1>1, <1>5, EndpointsSorted DEF ProxyInv
  <2> QED
    BY <1>1, <1>3, <2>1
<1>6. ProcessConsistent'
  BY <1>1, <1>3, <1>4, <1>5 DEF ProcessConsistent, Running
<1>7. PhasesMean'
  BY <1>1 DEF PhasesMean
<1> QED
  BY <1>2, <1>6, <1>7 DEF ProxyInv

(* A version of the PROXY protocol that Run refuses is the annotation's.   *)
LEMMA RunFailsKeepsInv ==
    ASSUME ProxyInv, RunFails
    PROVE  ProxyInv'
<1>1. phase = "parse" /\ ~RunAccepts /\ Exit
  BY DEF RunFails
<1>2. PICK e \in EndpointSets : args = <<BuildDaemonSet(e)>>
  BY <1>1 DEF ProxyInv, ArgsRendered
<1>3. args[1].proxyProtocol = svc.proxyProtocol
  BY <1>2 DEF BuildDaemonSet
<1>4. Unstartable
  BY <1>1, <1>3 DEF Unstartable, RunAccepts
<1> QED
  BY <1>1, <1>4, ExitsForReason

(* Serve binds a port that no listener has.                                *)
LEMMA ListenKeepsInv ==
    ASSUME ProxyInv, NEW k \in ToBind, Listen(k)
    PROVE  ProxyInv'
<1>1. /\ phase = "bind" /\ phase' = "bind"
      /\ ~Taken(specs[k].protocol, specs[k].listen[2])
      /\ bound' = bound \cup {k}
      /\ svc' = svc /\ endpoints' = endpoints /\ args' = args
      /\ specs' = specs /\ counter' = counter /\ dialed' = dialed
  BY DEF Listen
<1>2. k \in Listeners
  BY <1>1, RunningSpecs DEF ToBind, Running
<1>3. ArgsRendered'
  BY <1>1, SameService DEF ProxyInv, ArgsRendered
<1>4. ASSUME NEW l \in bound', NEW m \in bound',
             specs[l].protocol = specs[m].protocol,
             specs[l].listen[2] = specs[m].listen[2]
      PROVE  l = m
  BY <1>1, <1>4 DEF Taken, ProxyInv, ProcessConsistent, Running
<1>5. ProcessConsistent'
  BY <1>1, <1>2, <1>4, SameService, SameArgs
     DEF ProxyInv, ProcessConsistent, Running, Upstreams
<1>6. PhasesMean'
  BY <1>1 DEF PhasesMean
<1> QED
  BY <1>3, <1>5, <1>6 DEF ProxyInv

LEMMA ListenFailsKeepsInv ==
    ASSUME ProxyInv, NEW k \in ToBind, ListenFails(k)
    PROVE  ProxyInv'
<1>1. phase = "bind" /\ Exit
  BY DEF ListenFails
<1>2. k \in Listeners /\ k \notin bound /\ bound \subseteq Listeners
  BY <1>1, RunningSpecs DEF ToBind, Running, ProxyInv, ProcessConsistent
<1>3. CASE Taken(specs[k].protocol, specs[k].listen[2])
  <2>1. PICK l \in bound : /\ specs[l].protocol = specs[k].protocol
                           /\ specs[l].listen[2] = specs[k].listen[2]
    BY <1>3 DEF Taken
  <2>2. Unstartable
    BY <1>1, <1>2, <2>1, CompetingListeners DEF Running
  <2> QED
    BY <1>1, <2>2, ExitsForReason
<1>4. CASE Denied(specs[k].listen[2])
  <2>1. Denied(svc.ports[k[1]].port)
    BY <1>1, <1>2, <1>4, RunningSpecs DEF Running
  <2>2. svc.ports[k[1]] \in ServicePorts
    BY <1>2, ListenerShape DEF ServicePorts, ProxyInv, ArgsRendered
  <2>3. Unstartable
    BY <2>1, <2>2 DEF Unstartable, BadPorts
  <2> QED
    BY <1>1, <2>3, ExitsForReason
<1> QED
  BY <1>3, <1>4 DEF ListenFails

(* The health server binds its port when every listener is bound.          *)
LEMMA StartHealthKeepsInv ==
    ASSUME ProxyInv, StartHealth
    PROVE  ProxyInv'
<1>1. /\ phase = "bind" /\ phase' = "serving" /\ bound = DOMAIN specs
      /\ ~Taken("TCP", HealthPort)
      /\ svc' = svc /\ endpoints' = endpoints /\ args' = args
      /\ specs' = specs /\ bound' = bound /\ counter' = counter /\ dialed' = dialed
  BY DEF StartHealth, processVars
<1>2. bound' = Listeners'
  BY <1>1, RunningSpecs, SameService DEF Running
<1>3. ArgsRendered'
  BY <1>1, SameService DEF ProxyInv, ArgsRendered
<1>4. ProcessConsistent'
  BY <1>1, SameService, SameArgs DEF ProxyInv, ProcessConsistent, Running, Upstreams
<1>5. PhasesMean'
  BY <1>1, <1>2 DEF PhasesMean, Taken, HealthPort
<1> QED
  BY <1>3, <1>4, <1>5 DEF ProxyInv

LEMMA HealthFailsKeepsInv ==
    ASSUME ProxyInv, HealthFails
    PROVE  ProxyInv'
<1>1. phase = "bind" /\ Taken("TCP", HealthPort) /\ Exit
  BY DEF HealthFails
<1>2. PICK k \in bound : /\ specs[k].protocol = "TCP"
                         /\ specs[k].listen[2] = HealthPort
  BY <1>1 DEF Taken
<1>3. k \in Listeners
  BY <1>1, <1>2 DEF ProxyInv, ProcessConsistent, Running
<1>4. svc.ports[k[1]].protocol = "TCP" /\ svc.ports[k[1]].port = HealthPort
  BY <1>1, <1>2, <1>3, RunningSpecs DEF Running
<1>5. svc.ports[k[1]] \in ServicePorts
  BY <1>3, ListenerShape DEF ServicePorts, ProxyInv, ArgsRendered
<1>6. Unstartable
  BY <1>4, <1>5 DEF Unstartable, BadPorts
<1> QED
  BY <1>1, <1>6, ExitsForReason

LEMMA RestartKeepsInv ==
    ASSUME ProxyInv, Restart
    PROVE  ProxyInv'
<1>1. /\ phase = "exited" /\ phase' = "parse"
      /\ svc' = svc /\ endpoints' = endpoints /\ args' = args
      /\ specs' = specs /\ bound' = bound /\ counter' = counter /\ dialed' = dialed
  BY DEF Restart, processVars
<1>2. ArgsRendered'
  BY <1>1, SameService DEF ProxyInv, ArgsRendered
<1>3. ProcessConsistent' /\ PhasesMean'
  BY <1>1 DEF ProxyInv, ProcessConsistent, PhasesMean, Running
<1> QED
  BY <1>2, <1>3 DEF ProxyInv

(* upstreamFor takes an element of the list, whatever the counter.         *)
LEMMA UpstreamKeepsInv ==
    ASSUME ProxyInv, NEW k \in DOMAIN specs, upstreamFor(k)
    PROVE  ProxyInv'
<1>1. /\ phase = "serving" /\ phase' = phase
      /\ svc' = svc /\ endpoints' = endpoints /\ args' = args
      /\ specs' = specs /\ bound' = bound
  BY DEF upstreamFor
<1>2. /\ Running /\ k \in Listeners
      /\ specs = ParsedSpecs
      /\ counter \in [Listeners -> Nat] /\ DOMAIN dialed = Listeners
      /\ specs[k].endpoints # {} =>
             counter[k] < Cardinality(specs[k].endpoints)
  BY <1>1, RunningSpecs DEF ProxyInv, ProcessConsistent, Running
<1>3. PICK E : E = specs[k].endpoints
  OBVIOUS
<1>4. /\ IsFiniteSet(E)
      /\ Cardinality(E) \in Nat
      /\ E # {} => Cardinality(E) # 0
      /\ \A u \in E : u[4] \in Nat
      /\ \A u, v \in E : u[4] = v[4] => u = v
  BY <1>1, <1>2, <1>3, EndpointsSorted DEF ProxyInv
<1>5. ArgsRendered'
  BY <1>1, SameService DEF ProxyInv, ArgsRendered
<1>6. PhasesMean'
  BY <1>1, SameService DEF ProxyInv, PhasesMean, Taken, HealthPort
<1>7. ASSUME NEW u, dialed' = [dialed EXCEPT ![k] = u], u \in Upstreams(k),
             counter' \in [Listeners -> Nat],
             \A l \in Listeners : specs[l].endpoints # {} =>
                 counter'[l] < Cardinality(specs[l].endpoints)
      PROVE  ProcessConsistent'
  <2>1. /\ DOMAIN dialed' = Listeners
        /\ \A l \in Listeners : dialed'[l] \in {<<>>} \cup Upstreams(l)
    BY <1>2, <1>7 DEF ProxyInv, ProcessConsistent
  <2>2. \A l \in Listeners : Upstreams(l)' = Upstreams(l)
    BY <1>1 DEF Upstreams
  <2> HIDE <1>3, <1>4
  <2> QED
    BY <1>1, <1>2, <1>7, <2>1, <2>2, SameService, SameArgs
       DEF ProxyInv, ProcessConsistent, Running
<1>8. CASE E = {}
  <2>1. dialed' = [dialed EXCEPT ![k] = specs[k].upstream] /\ counter' = counter
    BY <1>3, <1>8 DEF upstreamFor
  <2>2. specs[k].upstream \in Upstreams(k)
    BY <1>3, <1>8 DEF Upstreams
  <2>3. ProcessConsistent'
    BY <1>2, <1>7, <2>1, <2>2 DEF ProxyInv, ProcessConsistent
  <2> QED
    BY <1>5, <1>6, <2>3 DEF ProxyInv
<1>9. CASE E # {}
  <2> DEFINE next == (counter[k] + 1) % Cardinality(E)
  <2>1. /\ dialed' = [dialed EXCEPT ![k] = Nth(E, counter[k])]
        /\ counter' = [counter EXCEPT ![k] = next]
    BY <1>3, <1>9 DEF upstreamFor
  <2>2. Nth(E, counter[k]) \in E
    BY <1>2, <1>3, <1>4, <1>9, NthExists
  <2>3. Nth(E, counter[k]) \in Upstreams(k)
    BY <1>3, <1>9, <2>2 DEF Upstreams
  <2>4. next \in Nat /\ next < Cardinality(E)
    <3>1. PICK c \in Nat, n \in Nat :
              c = counter[k] + 1 /\ n = Cardinality(E) /\ n # 0
      BY <1>2, <1>4, <1>9
    <3>2. c % n \in Nat /\ c % n < n
      BY <3>1
    <3> QED
      BY <3>1, <3>2
  <2> HIDE DEF next
  <2>5. counter' \in [Listeners -> Nat]
    BY <1>2, <2>1, <2>4
  <2>6. ASSUME NEW l \in Listeners, specs[l].endpoints # {}
        PROVE  counter'[l] < Cardinality(specs[l].endpoints)
    <3>1. CASE l = k
      BY <1>2, <1>3, <2>1, <2>4, <3>1
    <3>2. CASE l # k
      BY <1>2, <2>1, <2>6, <3>2 DEF ProxyInv, ProcessConsistent
    <3> QED
      BY <3>1, <3>2
  <2>7. ProcessConsistent'
    BY <1>7, <2>1, <2>3, <2>5, <2>6
  <2> QED
    BY <1>5, <1>6, <2>7 DEF ProxyInv
<1> QED
  BY <1>8, <1>9

(* A probe changes nothing but its answer.                                 *)
LEMMA ReadyzKeepsInv ==
    ASSUME ProxyInv, readyz
    PROVE  ProxyInv'
<1>1. /\ svc' = svc /\ endpoints' = endpoints /\ args' = args /\ phase' = phase
      /\ specs' = specs /\ bound' = bound /\ counter' = counter /\ dialed' = dialed
  BY DEF readyz
<1>2. ArgsRendered'
  BY <1>1, SameService DEF ProxyInv, ArgsRendered
<1>3. ProcessConsistent'
  BY <1>1, SameService, SameArgs DEF ProxyInv, ProcessConsistent, Running, Upstreams
<1>4. PhasesMean'
  BY <1>1, SameService DEF ProxyInv, PhasesMean, Taken, HealthPort
<1> QED
  BY <1>2, <1>3, <1>4 DEF ProxyInv

LEMMA NextKeepsInv ==
    ProxyInv /\ [Next]_vars => ProxyInv'
<1> SUFFICES ASSUME ProxyInv, [Next]_vars
             PROVE  ProxyInv'
  OBVIOUS
<1>1. CASE ApplyDaemonSet
  BY <1>1, ApplyKeepsInv
<1>2. CASE EndpointsChange
  BY <1>2, SameProcess DEF EndpointsChange
<1>3. CASE Start
  <2>1. CASE Run
    BY <2>1, RunKeepsInv
  <2>2. CASE RunFails
    BY <2>2, RunFailsKeepsInv
  <2>3. CASE StartHealth
    BY <2>3, StartHealthKeepsInv
  <2>4. CASE HealthFails
    BY <2>4, HealthFailsKeepsInv
  <2>5. ASSUME NEW k \in ToBind, Listen(k) \/ ListenFails(k)
        PROVE  ProxyInv'
    BY <2>5, ListenKeepsInv, ListenFailsKeepsInv
  <2> QED
    BY <1>3, <2>1, <2>2, <2>3, <2>4, <2>5 DEF Start
<1>4. CASE Restart
  BY <1>4, RestartKeepsInv
<1>5. CASE readyz
  BY <1>5, ReadyzKeepsInv
<1>6. ASSUME NEW k \in DOMAIN specs, upstreamFor(k)
      PROVE  ProxyInv'
  BY <1>6, UpstreamKeepsInv
<1>7. CASE UNCHANGED vars
  <2>1. UNCHANGED <<svc, args, phase, processVars>> /\ endpoints' = endpoints
    BY <1>7 DEF vars
  <2> QED
    BY <2>1, SameProcess DEF ProxyInv, ArgsRendered
<1> QED
  BY <1>1, <1>2, <1>3, <1>4, <1>5, <1>6, <1>7 DEF Next

LEMMA ProxyInvariant ==
    Spec => []ProxyInv
  BY InitProxy, NextKeepsInv, PTL DEF Spec

-----------------------------------------------------------------------------
(* The listeners of a proxy that serves are those of the Service.          *)
LEMMA ServesEveryPort ==
    ASSUME ProxyInv, phase = "serving", NEW p \in ServicePorts, NEW f \in svc.ips
    PROVE  \E k \in bound : /\ specs[k].listen = <<f, p.port>>
                            /\ specs[k].protocol = p.protocol
<1>1. PICK i \in 1..Len(svc.ports) : p = svc.ports[i]
  BY DEF ServicePorts
<1>2. <<i, f>> \in bound
  BY DEF Listeners, ProxyInv, PhasesMean
<1>3. /\ specs[<<i, f>>].listen = <<f, p.port>>
      /\ specs[<<i, f>>].protocol = p.protocol
  <2>1. <<i, f>> \in Listeners /\ Running
    BY DEF Listeners, Running
  <2> QED
    BY <1>1, <2>1, RunningSpecs
<1> QED
  BY <1>2, <1>3

(* For any Service, endpoints and changes of them: the proxy exits for no  *)
(* other reason than the five, and serves only with a listener for every   *)
(* port and family (portsAndArgs, Run, Serve).                             *)
THEOREM ProxyStartsUnlessNamed ==
    Spec => []StartsUnlessNamed
<1>1. ProxyInv => StartsUnlessNamed
  <2> SUFFICES ASSUME ProxyInv
               PROVE  StartsUnlessNamed
    OBVIOUS
  <2>1. phase = "exited" => Unstartable
    BY DEF ProxyInv, PhasesMean
  <2> QED
    BY <2>1, ServesEveryPort DEF StartsUnlessNamed
<1> QED
  BY <1>1, ProxyInvariant, PTL

-----------------------------------------------------------------------------
(* A port of the Service is found by its name.                             *)
LEMMA PortFound ==
    ASSUME svc \in Services, NEW p \in ServicePorts
    PROVE  PortNamed(p.name) = p
<1>1. \A q \in ServicePorts : q.name = p.name => q = p
  BY ProxyAssumption DEF ServicePorts
<1> QED
  BY <1>1 DEF PortNamed

(* The endpoints of a listener that shares its number with no port of the  *)
(* other protocol are those of its own port.                               *)
LEMMA OwnEndpoints ==
    ASSUME ProxyInv, Running, NEW k \in Listeners, ~SharesNumber(k),
           NEW u \in specs[k].endpoints
    PROVE  /\ u[1] = "endpoint" /\ u[2] = k[2]
           /\ u[3] = svc.ports[k[1]].name
<1>1. ArgsRendered /\ phase # "none" /\ specs = ParsedSpecs
  BY DEF ProxyInv, ProcessConsistent, Running
<1>2. u[1] = "endpoint" /\ u[2] = k[2]
  BY <1>1, EndpointsSorted
<1>3. PICK l \in Listeners, e \in EndpointSets :
          /\ l[2] = k[2]
          /\ svc.ports[l[1]].port = svc.ports[k[1]].port
          /\ specs[k].endpoints =
                 endpointUpstreamsForFamily(e[svc.ports[l[1]].name], k[2])
  BY <1>1, EndpointsOfOnePort
<1>4. l[1] \in 1..Len(svc.ports) /\ k[1] \in 1..Len(svc.ports)
  BY <1>1, ListenerShape DEF ArgsRendered
<1>5. svc.ports[l[1]].protocol = svc.ports[k[1]].protocol
  <2>1. svc.ports[l[1]] \in ServicePorts
    BY <1>4 DEF ServicePorts
  <2>2. /\ specs[k].protocol = svc.ports[k[1]].protocol
        /\ specs[k].listen[2] = svc.ports[k[1]].port
    BY RunningSpecs
  <2> QED
    BY <1>3, <2>1, <2>2 DEF SharesNumber
<1>6. l[1] = k[1]
  BY <1>1, <1>3, <1>4, <1>5 DEF ArgsRendered, Accepted, DuplicatePort
<1>7. u \in e[svc.ports[k[1]].name]
  BY <1>3, <1>6 DEF endpointUpstreamsForFamily
<1>8. svc.ports[k[1]].name \in DOMAIN e
  BY <1>1, <1>4, ProxyAssumption DEF ArgsRendered
<1>9. u \in {"endpoint"} \X Families \X {svc.ports[k[1]].name} \X Nat
  BY <1>7, <1>8, ProxyAssumption
<1> QED
  BY <1>2, <1>9

(* What kube-proxy sends a connection to is an endpoint of a port with the *)
(* number and the protocol dialed.                                         *)
LEMMA ServedByPort ==
    ASSUME ProxyInv, NEW upstream, NEW protocol, upstream[1] = "clusterIP",
           NEW u \in ServedBy(upstream, protocol)
    PROVE  \E p \in ServicePorts : /\ p.port = upstream[3] /\ p.protocol = protocol
                                   /\ u[3] = p.name
<1>1. PICK p \in ServicePorts : /\ p.port = upstream[3] /\ p.protocol = protocol
                                /\ u \in endpoints[p.name]
  BY DEF ServedBy
<1>2. p.name \in DOMAIN endpoints
  BY ProxyAssumption DEF ProxyInv, ArgsRendered, ServicePorts
<1>3. u \in {"endpoint"} \X Families \X {p.name} \X Nat
  BY <1>1, <1>2, ProxyAssumption DEF ProxyInv, ArgsRendered
<1>4. u[3] = p.name
  BY <1>3
<1> QED
  BY <1>1, <1>4

(* For any Service, endpoints and changes of them: but for a target port   *)
(* of another number and a number used for both protocols, a connection    *)
(* goes to an endpoint of the port it came in on, and with traffic policy  *)
(* Local to one of its family, if that had one when the proxy was started  *)
(* (portsAndArgs, parseEndpointPairs, upstreamFor).                        *)
THEOREM ProxyForwardsToOwnPort ==
    Spec => []ForwardsToOwnPort
<1>1. ProxyInv => ForwardsToOwnPort
  <2> SUFFICES ASSUME ProxyInv, NEW k \in DOMAIN dialed, dialed[k] # <<>>,
                      ~DialsTargetPort(k), ~SharesNumber(k),
                      NEW u \in ServedBy(dialed[k], specs[k].protocol)
               PROVE  /\ PortNamed(u[3]).port = specs[k].listen[2]
                      /\ PortNamed(u[3]).protocol = specs[k].protocol
                      /\ svc.local => \/ FallsBack(k)
                                      \/ u[2] = specs[k].listen[1]
    BY DEF ForwardsToOwnPort
  <2>1. Running
    BY DEF ProxyInv, ProcessConsistent
  <2>2. k \in Listeners /\ dialed[k] \in Upstreams(k) /\ svc \in Services
    BY <2>1 DEF ProxyInv, ProcessConsistent, ArgsRendered
  <2>3. PICK p \in ServicePorts : p = svc.ports[k[1]]
    BY <2>2, ListenerShape DEF ServicePorts
  <2>4. /\ specs[k].listen = <<k[2], p.port>>
        /\ specs[k].protocol = p.protocol
        /\ specs[k].upstream = ClusterIP(k[2], p.target)
    BY <2>1, <2>2, <2>3, RunningSpecs
  <2>5. CASE specs[k].endpoints = {}
    <3>1. dialed[k][1] = "clusterIP" /\ dialed[k][3] = p.port
      BY <2>2, <2>4, <2>5 DEF Upstreams, DialsTargetPort, ClusterIP
    <3>2. PICK q \in ServicePorts : /\ q.port = p.port /\ q.protocol = p.protocol
                                    /\ u[3] = q.name
      BY <2>4, <3>1, ServedByPort
    <3>3. PortNamed(u[3]) = q
      BY <2>2, <3>2, PortFound
    <3> QED
      BY <2>4, <2>5, <3>2, <3>3 DEF FallsBack
  <2>6. CASE specs[k].endpoints # {}
    <3>1. dialed[k] \in specs[k].endpoints
      BY <2>2, <2>6 DEF Upstreams
    <3>2. /\ dialed[k][1] = "endpoint" /\ dialed[k][2] = k[2]
          /\ dialed[k][3] = p.name
      BY <2>1, <2>2, <2>3, <3>1, OwnEndpoints
    <3>3. u = dialed[k]
      BY <3>2 DEF ServedBy
    <3>4. PortNamed(u[3]) = p
      BY <2>2, <3>2, <3>3, PortFound
    <3> QED
      BY <2>4, <3>2, <3>3, <3>4
  <2> QED
    BY <2>5, <2>6
<1> QED
  BY <1>1, ProxyInvariant, PTL
=============================================================================
