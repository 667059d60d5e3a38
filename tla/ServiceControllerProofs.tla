----------------------- MODULE ServiceControllerProofs -----------------------
(***************************************************************************)
(* What the controller leaves behind when it has nothing left to do, for   *)
(* any Services, ports and nodes, any of the caches late, and wherever a   *)
(* Reconcile is cut off.                                                   *)
(***************************************************************************)
EXTENDS ServiceController, SequenceTheorems, TLAPS

Kinds == {"svc", "ds", "lb", "dns", "node", "ep"}

KindValues(kind) ==
    CASE kind = "svc" -> [Svcs -> Service \cup {Absent}]
      [] kind = "ds" -> [Svcs -> [Slots("ds") -> DaemonSet \cup {Absent}]]
      [] kind = "lb" -> [Svcs -> [Slots("lb") -> LBPort \cup {Absent}]]
      [] kind = "dns" -> [Svcs -> [Slots("dns") -> (SUBSET Nodes) \cup {Absent}]]
      [] kind = "node" -> SUBSET Nodes
      [] kind = "ep" -> SUBSET Svcs

StoreTyped ==
    /\ api \in ObjectStore
    /\ cache \in ObjectStore
    /\ wakes \in [Lagging -> SUBSET Svcs]
    /\ queue \subseteq Svcs

-----------------------------------------------------------------------------
(* The running Reconcile.                                                  *)

(* What is left of a script, the whole of it first.                        *)
Apply5 == <<"ds", "lb", "prune", "dns", "status">>
Apply4 == <<"lb", "prune", "dns", "status">>
Apply3 == <<"prune", "dns", "status">>
Apply2 == <<"dns", "status">>
Apply1 == <<"status">>
Clean4 == <<"status", "-ds", "-lb", "-dns">>
Clean3 == <<"-ds", "-lb", "-dns">>
Clean2 == <<"-lb", "-dns">>
Clean1 == <<"-dns">>

Applying == {Apply5, Apply4, Apply3, Apply2, Apply1}
Cleaning == {Clean4, Clean3, Clean2, Clean1}

DSWants == [Slots("ds") -> DaemonSet \cup {Absent}]
LBWants == [Slots("lb") -> LBPort \cup {Absent}]
DNSWants == [Slots("dns") -> (SUBSET Nodes) \cup {Absent}]

Job == [s : Svcs, svc : Service \cup {Absent}, cond : Conditions,
        mode : {"keep", "force"}, lbports : LBWants \cup {<<>>},
        want : DSWants \cup LBWants \cup DNSWants \cup {<<>>},
        todo : SUBSET AllSlots, stale : SUBSET AllSlots, listed : BOOLEAN,
        ips : SUBSET (Nodes \X RecordTypes)]

Stages == {"ds", "lb", "prune", "dns", "status", "-ds", "-lb", "-dns"}

(* The children that the stage wants, and the ones it still has to write   *)
(* and to delete.                                                          *)
WantFits(stage, j) ==
    /\ stage = "ds" => j.want \in DSWants
    /\ stage \in {"lb", "prune"} => j.want \in LBWants
    /\ stage = "dns" => j.want \in DNSWants
    /\ stage \notin {"ds", "lb", "prune", "dns"} => j.want = <<>>
    /\ j.todo \subseteq Present(j.want)
    /\ stage # "status" => j.stale \subseteq Slots(StageKind(stage))
    /\ stage \in {"status", "prune"} => j.stale = {}

JobTyped ==
    /\ pc \in {"down", "idle", "busy"}
    /\ pc # "busy" => script = <<>>
    /\ pc = "busy" =>
          /\ script \in Applying \cup Cleaning
          /\ job \in Job
          /\ WantFits(Stage, job)
          /\ script \in Applying =>
                job.svc \in Service /\ job.svc # Absent /\ job.lbports \in LBWants

-----------------------------------------------------------------------------
(* The caches.                                                             *)

Woken(s) == s \in queue \/ \E kind \in Lagging : s \in wakes[kind]

CacheFresh == pc # "down" => \A kind \in Kinds \ Lagging : cache[kind] = api[kind]

(* If the cache still has a Service as bulb's that is no longer, or does   *)
(* not have an LBPort yet, then an event is under way.                     *)
ServiceLag ==
    pc # "down" /\ "svc" \in Lagging =>
        \A s \in Svcs : ServiceMatches(cache.svc[s]) /\ Disowned(s) =>
            s \in wakes["svc"]

LBPortLag ==
    pc # "down" /\ "lb" \in Lagging =>
        \A s \in Svcs, p \in Ports :
            api.lb[s][p] # Absent /\ cache.lb[s][p] = Absent => s \in wakes["lb"]

(* A Reconcile that renders children for a Service that is no longer       *)
(* bulb's will not be the last one.                                        *)
ApplyingWoken ==
    pc = "busy" /\ script \in Applying /\ Disowned(job.s) => Woken(job.s)

-----------------------------------------------------------------------------
(* Who takes care of the children of a Service that is no longer bulb's.   *)

Orphan(kind, s, slot) ==
    /\ Disowned(s)
    /\ api[kind][s][slot] # Absent
    /\ kind = "ds" => ~api.ds[s][slot].keep

CleanAhead(kind) ==
    CASE kind = "ds" -> {Clean4}
      [] kind = "lb" -> {Clean4, Clean3}
      [] kind = "dns" -> {Clean4, Clean3, Clean2}

CleanNow(kind) ==
    CASE kind = "ds" -> Clean3
      [] kind = "lb" -> Clean2
      [] kind = "dns" -> Clean1

WillDelete(kind, s, slot) ==
    /\ pc = "busy"
    /\ job.s = s
    /\ \/ script \in CleanAhead(kind)
       \/ script = CleanNow(kind) /\ (~job.listed \/ slot \in job.stale)

Claimed(kind) ==
    pc # "down" => \A s \in Svcs, slot \in Slots(kind) :
        Orphan(kind, s, slot) => Woken(s) \/ WillDelete(kind, s, slot)

BudgetTyped == budget \in [Events -> Nat]

ControllerInv ==
    /\ StoreTyped
    /\ JobTyped
    /\ BudgetTyped
    /\ CacheFresh
    /\ ServiceLag
    /\ LBPortLag
    /\ ApplyingWoken
    /\ Claimed("lb")

-----------------------------------------------------------------------------
LEMMA StoreKinds ==
    ASSUME NEW store \in ObjectStore
    PROVE  DOMAIN store = Kinds /\ \A k \in Kinds : store[k] \in KindValues(k)
BY DEF ObjectStore, KindValues, Kinds

LEMMA StoreUpdate ==
    ASSUME NEW store \in ObjectStore, NEW kind \in Kinds,
           NEW v \in KindValues(kind), NEW new, new = [store EXCEPT ![kind] = v]
    PROVE  new \in ObjectStore
<1>1. DOMAIN store = Kinds /\ \A k \in Kinds : store[k] \in KindValues(k)
  BY StoreKinds
<1>2. new = [k \in Kinds |-> new[k]]
  BY <1>1
<1>3. \A k \in Kinds : new[k] \in KindValues(k)
  BY <1>1
<1> QED
  BY <1>2, <1>3 DEF ObjectStore, KindValues, Kinds

(* What a change on the API server does to the caches and to the queue.    *)
LEMMA WriteFacts ==
    ASSUME StoreTyped, NEW kind \in Kinds, NEW v \in KindValues(kind),
           NEW ss \in SUBSET Svcs, Write(kind, v, ss)
    PROVE  /\ StoreTyped'
           /\ api'[kind] = v /\ \A k \in Kinds \ {kind} : api'[k] = api[k]
           /\ pc # "down" =>
                 /\ \A k \in Kinds \ Lagging :
                        cache[k] = api[k] => cache'[k] = api'[k]
                 /\ \A k \in Kinds \cap Lagging : cache'[k] = cache[k]
                 /\ \A k \in Lagging : wakes[k] \subseteq wakes'[k]
                 /\ kind \in Lagging => ss \subseteq wakes'[kind]
                 /\ \A s \in Svcs : Woken(s) \/ s \in ss => Woken(s)'
<1> USE DEF StoreTyped
<1>1. /\ api' \in ObjectStore
      /\ api'[kind] = v /\ \A k \in Kinds \ {kind} : api'[k] = api[k]
  <2>1. api' = [api EXCEPT ![kind] = v]
    BY DEF Write
  <2>2. api \in ObjectStore
    OBVIOUS
  <2> HIDE DEF StoreTyped
  <2>3. DOMAIN api = Kinds
    BY <2>2, StoreKinds
  <2> QED
    BY <2>1, <2>2, <2>3, StoreUpdate
<1>2. CASE pc = "down"
  BY <1>1, <1>2 DEF Write
<1>3. CASE pc # "down" /\ kind \in Lagging
  <2>1. /\ \A k \in Lagging : wakes'[k] =
               IF k = kind THEN wakes[k] \cup ss ELSE wakes[k]
        /\ wakes' \in [Lagging -> SUBSET Svcs]
        /\ UNCHANGED <<cache, queue>>
    BY <1>3 DEF Write
  <2> QED
    BY <1>1, <1>3, <2>1 DEF Woken
<1>4. CASE pc # "down" /\ kind \notin Lagging
  <2>1. UNCHANGED wakes /\ queue' = queue \cup ss
    BY <1>4 DEF Write
  <2>2. /\ cache' \in ObjectStore
        /\ cache'[kind] = v /\ \A k \in Kinds \ {kind} : cache'[k] = cache[k]
    <3>1. cache' = [cache EXCEPT ![kind] = v]
      BY <1>4 DEF Write
    <3>2. cache \in ObjectStore
      OBVIOUS
    <3> HIDE DEF StoreTyped
    <3>3. DOMAIN cache = Kinds
      BY <3>2, StoreKinds
    <3> QED
      BY <3>1, <3>2, <3>3, StoreUpdate
  <2> QED
    BY <1>1, <1>4, <2>1, <2>2 DEF Woken
<1> QED
  BY <1>2, <1>3, <1>4

-----------------------------------------------------------------------------
(* Types.                                                                  *)

LEMMA SlotsOfKinds ==
    /\ Slots("ds") = {"ds"} /\ Slots("lb") = Ports /\ Slots("dns") = RecordTypes
    /\ \A kind \in ChildKinds : Slots(kind) \subseteq AllSlots
BY DEF Slots, ChildKinds, AllSlots

LEMMA KindsOfStages ==
    /\ StageKind("ds") = "ds" /\ StageKind("-ds") = "ds"
    /\ StageKind("lb") = "lb" /\ StageKind("-lb") = "lb"
    /\ StageKind("prune") = "lb"
    /\ StageKind("dns") = "dns" /\ StageKind("-dns") = "dns"
    /\ \A stage \in Stages \ {"status"} : StageKind(stage) \in ChildKinds
BY DEF StageKind, Stages, ChildKinds

LEMMA StoreFields ==
    ASSUME NEW store \in ObjectStore
    PROVE  /\ store.svc \in KindValues("svc") /\ store.ds \in KindValues("ds")
           /\ store.lb \in KindValues("lb") /\ store.dns \in KindValues("dns")
           /\ store.node \in KindValues("node") /\ store.ep \in KindValues("ep")
BY DEF ObjectStore, KindValues

LEMMA ValuesOfKinds ==
    /\ KindValues("svc") = [Svcs -> Service \cup {Absent}]
    /\ KindValues("ds") = [Svcs -> DSWants]
    /\ KindValues("lb") = [Svcs -> LBWants]
    /\ KindValues("dns") = [Svcs -> DNSWants]
    /\ KindValues("node") = SUBSET Nodes
    /\ KindValues("ep") = SUBSET Svcs
BY DEF KindValues, DSWants, LBWants, DNSWants

(* A Service is written.                                                   *)
LEMMA ServiceValue ==
    ASSUME StoreTyped, NEW s \in Svcs, NEW svc \in Service \cup {Absent}
    PROVE  [api.svc EXCEPT ![s] = svc] \in KindValues("svc")
<1>1. api.svc \in [Svcs -> Service \cup {Absent}]
  BY StoreFields, ValuesOfKinds DEF StoreTyped
<1> QED
  BY <1>1, ValuesOfKinds

(* A child is written.                                                     *)
ChildSet(kind) ==
    CASE kind = "ds" -> DaemonSet
      [] kind = "lb" -> LBPort
      [] kind = "dns" -> SUBSET Nodes

LEMMA ChildValues ==
    ASSUME NEW kind \in ChildKinds
    PROVE  /\ kind \in Kinds \ {"svc", "node", "ep"}
           /\ KindValues(kind) =
                 [Svcs -> [Slots(kind) -> ChildSet(kind) \cup {Absent}]]
BY DEF ChildKinds, Kinds, KindValues, ChildSet

LEMMA ChildUpdate ==
    ASSUME NEW S, NEW T, NEW C, NEW old \in [S -> [T -> C]], NEW s \in S,
           NEW t \in T, NEW c \in C
    PROVE  LET new == [old EXCEPT ![s][t] = c] IN
           /\ new \in [S -> [T -> C]]
           /\ new[s][t] = c
           /\ \A x \in S, y \in T : x # s \/ y # t => new[x][y] = old[x][y]
OBVIOUS

LEMMA WantedTyped ==
    ASSUME StoreTyped, NEW stage \in Stages, NEW svc, NEW lbports,
           NEW s \in Svcs,
           stage \in {"ds", "lb", "dns"} => svc \in Service,
           stage = "lb" => lbports \in LBWants
    PROVE  LET want == WantedAt(stage, svc, lbports, s) IN
           /\ stage = "ds" => want \in DSWants
           /\ stage \in {"lb", "prune"} => want \in LBWants
           /\ stage = "dns" => want \in DNSWants
           /\ stage \notin {"ds", "lb", "prune", "dns"} => want = <<>>
<1>1. svc \in Service => svc.spec \in ServiceSpec
  BY ControllerAssumption DEF Service
<1>2. CASE stage = "ds"
  BY <1>1, <1>2 DEF WantedAt, BuildDaemonSet, DSWants, DaemonSet, ServiceSpec
<1>3. CASE stage = "lb"
  BY <1>3 DEF WantedAt
<1>4. CASE stage = "dns"
  <2>1. \A type : Targets(type) \in SUBSET Nodes
    BY StoreFields, ValuesOfKinds DEF Targets, StoreTyped
  <2>2. BuildDNSRecords(svc.spec) \in DNSWants
    BY <2>1, SlotsOfKinds DEF BuildDNSRecords, DNSWants
  <2> QED
    BY <1>4, <2>2 DEF WantedAt
<1>5. CASE stage = "prune"
  <2> DEFINE listed == cache.lb[s]
             want == [p \in Ports |->
                         IF listed[p] = Absent THEN Absent
                         ELSE [listed[p] EXCEPT !.applied = @ \cap cache.node]]
  <2>1. listed \in LBWants
    BY StoreFields, ValuesOfKinds DEF StoreTyped
  <2>2. WantedAt(stage, svc, lbports, s) = want
    BY <1>5 DEF WantedAt
  <2> HIDE DEF listed
  <2>3. want \in LBWants
    BY <2>1, SlotsOfKinds DEF LBWants, LBPort
  <2> QED
    BY <1>5, <2>2, <2>3
<1>6. CASE stage \notin {"ds", "lb", "prune", "dns"}
  BY <1>6 DEF WantedAt
<1> QED
  BY <1>2, <1>3, <1>4, <1>5, <1>6

LEMMA PresentIn ==
    ASSUME NEW want \in DSWants \cup LBWants \cup DNSWants \cup {<<>>}
    PROVE  Present(want) \subseteq AllSlots /\ Present(<<>>) = {}
BY SlotsOfKinds DEF Present, DSWants, LBWants, DNSWants, AllSlots

(* The local variables at the beginning of a stage.                        *)
LEMMA AtStageTyped ==
    ASSUME StoreTyped, NEW stage \in Stages, NEW j \in Job,
           stage \in {"ds", "lb", "dns"} => j.svc \in Service,
           stage = "lb" => j.lbports \in LBWants
    PROVE  LET n == AtStage(stage, j) IN
           /\ n \in Job
           /\ WantFits(stage, n)
           /\ n.s = j.s /\ n.svc = j.svc /\ n.mode = j.mode
           /\ n.lbports = j.lbports /\ n.cond = j.cond
           /\ n.stale = {} /\ n.listed = FALSE
<1> DEFINE want == WantedAt(stage, j.svc, j.lbports, j.s)
           todo == TodoAt(stage, want, j.s)
           ips == IF stage = "dns" THEN nodePublicIPs ELSE j.ips
           n == AtStage(stage, j)
<1>1. j.s \in Svcs /\ j.ips \in SUBSET (Nodes \X RecordTypes)
  BY DEF Job
<1>2. /\ stage = "ds" => want \in DSWants
      /\ stage \in {"lb", "prune"} => want \in LBWants
      /\ stage = "dns" => want \in DNSWants
      /\ stage \notin {"ds", "lb", "prune", "dns"} => want = <<>>
  BY <1>1, WantedTyped
<1>3. want \in DSWants \cup LBWants \cup DNSWants \cup {<<>>}
  BY <1>2
<1>4. todo \subseteq Present(want)
  BY DEF TodoAt
<1>5. ips \in SUBSET (Nodes \X RecordTypes)
  <2>1. nodePublicIPs \in SUBSET (Nodes \X RecordTypes)
    BY StoreFields, ValuesOfKinds DEF nodePublicIPs, StoreTyped
  <2> QED
    BY <1>1, <2>1
<1>6. Present(want) \subseteq AllSlots
  BY <1>3, PresentIn
<1>7. n = [j EXCEPT !.want = want, !.todo = todo, !.stale = {},
                    !.listed = FALSE, !.ips = ips]
  BY DEF AtStage
<1> HIDE DEF want, todo, ips, n
<1>8. /\ n \in Job
      /\ n.s = j.s /\ n.svc = j.svc /\ n.mode = j.mode
      /\ n.lbports = j.lbports /\ n.cond = j.cond
      /\ n.stale = {} /\ n.listed = FALSE
      /\ n.want = want /\ n.todo = todo
  BY <1>3, <1>4, <1>5, <1>6, <1>7 DEF Job
<1>9. WantFits(stage, n)
  BY <1>2, <1>4, <1>8 DEF WantFits
<1> QED
  BY <1>8, <1>9 DEF n

(* The stages in their order.                                              *)
LEMMA ScriptHeads ==
    /\ Head(Apply5) = "ds" /\ Head(Apply4) = "lb" /\ Head(Apply3) = "prune"
    /\ Head(Apply2) = "dns" /\ Head(Apply1) = "status"
    /\ Head(Clean4) = "status" /\ Head(Clean3) = "-ds" /\ Head(Clean2) = "-lb"
    /\ Head(Clean1) = "-dns"
BY DEF Apply5, Apply4, Apply3, Apply2, Apply1, Clean4, Clean3, Clean2, Clean1

LEMMA ScriptTails ==
    /\ Tail(Apply5) = Apply4 /\ Tail(Apply4) = Apply3 /\ Tail(Apply3) = Apply2
    /\ Tail(Apply2) = Apply1
    /\ Tail(Clean4) = Clean3 /\ Tail(Clean3) = Clean2 /\ Tail(Clean2) = Clean1
<1>1. Tail(Apply5) = Apply4 /\ Tail(Apply4) = Apply3
  BY DEF Apply5, Apply4, Apply3
<1>2. Tail(Apply3) = Apply2 /\ Tail(Apply2) = Apply1
  BY DEF Apply3, Apply2, Apply1
<1>3. Tail(Clean4) = Clean3 /\ Tail(Clean3) = Clean2
  BY DEF Clean4, Clean3, Clean2
<1>4. Tail(Clean2) = Clean1
  BY DEF Clean2, Clean1
<1> QED
  BY <1>1, <1>2, <1>3, <1>4

LEMMA ScriptLengths ==
    /\ Len(Apply5) # 1 /\ Len(Apply4) # 1 /\ Len(Apply3) # 1 /\ Len(Apply2) # 1
    /\ Len(Apply1) = 1
    /\ Len(Clean4) # 1 /\ Len(Clean3) # 1 /\ Len(Clean2) # 1 /\ Len(Clean1) = 1
BY DEF Apply5, Apply4, Apply3, Apply2, Apply1, Clean4, Clean3, Clean2, Clean1

LEMMA ScriptNames ==
    /\ ApplyScript = Apply5 /\ CleanupScript = Clean3
    /\ <<"status">> \o CleanupScript = Clean4
<1>1. ApplyScript = Apply5 /\ CleanupScript = Clean3
  BY DEF ApplyScript, CleanupScript, Apply5, Clean3
<1> DEFINE both == Apply1 \o Clean3
<1>2. Apply1 \in Seq(Stages) /\ Clean3 \in Seq(Stages) /\ Clean4 \in Seq(Stages)
  BY DEF Apply1, Clean3, Clean4, Stages
<1>3. /\ both \in Seq(Stages)
      /\ Len(both) = Len(Apply1) + Len(Clean3)
      /\ \A i \in 1 .. Len(Apply1) + Len(Clean3) :
            both[i] = IF i <= Len(Apply1) THEN Apply1[i] ELSE Clean3[i - Len(Apply1)]
  BY <1>2, ConcatProperties
<1> HIDE DEF both
<1>4. Len(both) = 4 /\ Len(Clean4) = 4 /\ \A i \in 1 .. 4 : both[i] = Clean4[i]
  BY <1>3 DEF Apply1, Clean3, Clean4
<1>5. both = Clean4
  BY <1>2, <1>3, <1>4, SeqEqual
<1> QED
  BY <1>1, <1>5 DEF both, Apply1

LEMMA ScriptsDiffer ==
    /\ Applying \cap Cleaning = {}
    /\ Clean4 # Clean3 /\ Clean4 # Clean2 /\ Clean4 # Clean1
    /\ Clean3 # Clean2 /\ Clean3 # Clean1 /\ Clean2 # Clean1
    /\ <<>> \notin Applying \cup Cleaning
BY DEF Applying, Cleaning,
       Apply5, Apply4, Apply3, Apply2, Apply1, Clean4, Clean3, Clean2, Clean1

-----------------------------------------------------------------------------
(* What a step does that is no start, no crash and no catching up.         *)

(* Events are delivered or are under way, and what enqueues a Service is   *)
(* not lost.                                                               *)
Delivers ==
    pc # "down" =>
        /\ \A k \in Kinds \ Lagging : cache[k] = api[k] => cache'[k] = api'[k]
        /\ \A k \in Kinds \cap Lagging : cache'[k] = cache[k]
        /\ \A k \in Lagging : wakes[k] \subseteq wakes'[k]
        /\ \A s \in Svcs : Woken(s) => Woken(s)'
        /\ \A s \in Svcs : Disowned(s)' /\ ~Disowned(s) =>
               Woken(s)' /\ ("svc" \in Lagging => s \in wakes'["svc"])
        /\ "lb" \in Lagging => \A s \in Svcs, p \in Ports :
               api'.lb[s][p] # Absent /\ api.lb[s][p] = Absent => s \in wakes'["lb"]

ChildrenAlone == \A kind \in ChildKinds : api'[kind] = api[kind]

LEMMA NoWriteDelivers ==
    ASSUME StoreTyped, UNCHANGED <<api, cache, wakes>>, queue \subseteq queue',
           queue' \subseteq Svcs
    PROVE  StoreTyped' /\ Delivers /\ ChildrenAlone
<1>1. \A s \in Svcs : Woken(s) => Woken(s)'
  BY DEF Woken
<1> QED
  BY <1>1 DEF StoreTyped, Delivers, Disowned, ServiceMatches, ChildrenAlone

(* Services.                                                               *)
LEMMA ServiceWritten ==
    ASSUME StoreTyped, NEW s \in Svcs, NEW svc \in Service \cup {Absent},
           WriteService(s, svc)
    PROVE  StoreTyped' /\ Delivers /\ ChildrenAlone
<1> DEFINE new == [api.svc EXCEPT ![s] = svc]
           ss == IF ServiceMatches(api.svc[s]) \/ ServiceMatches(svc)
                 THEN {s} ELSE {}
<1>1. new \in KindValues("svc") /\ ss \in SUBSET Svcs /\ Write("svc", new, ss)
  BY ServiceValue DEF WriteService
<1>2. "svc" \in Kinds /\ ChildKinds \subseteq Kinds \ {"svc"}
  BY DEF Kinds, ChildKinds
<1>3. \A t \in Svcs : new[t] = IF t = s THEN svc ELSE api.svc[t]
  BY StoreFields, ValuesOfKinds DEF StoreTyped
<1>4. s \in ss \/ (~ServiceMatches(api.svc[s]) /\ ~ServiceMatches(svc))
  OBVIOUS
<1> HIDE DEF new, ss
<1>5. /\ StoreTyped'
      /\ api'.svc = new /\ \A k \in Kinds \ {"svc"} : api'[k] = api[k]
      /\ pc # "down" =>
            /\ \A k \in Kinds \ Lagging :
                   cache[k] = api[k] => cache'[k] = api'[k]
            /\ \A k \in Kinds \cap Lagging : cache'[k] = cache[k]
            /\ \A k \in Lagging : wakes[k] \subseteq wakes'[k]
            /\ "svc" \in Lagging => ss \subseteq wakes'["svc"]
            /\ \A t \in Svcs : Woken(t) \/ t \in ss => Woken(t)'
  BY <1>1, <1>2, WriteFacts
<1>6. ChildrenAlone
  BY <1>2, <1>5 DEF ChildrenAlone
<1>7. \A t \in Svcs : Disowned(t)' /\ ~Disowned(t) => t \in ss
  BY <1>3, <1>4, <1>5 DEF Disowned
<1>8. api'.lb = api.lb
  BY <1>6 DEF ChildrenAlone, ChildKinds
<1> QED
  BY <1>5, <1>6, <1>7, <1>8 DEF Delivers

(* Nodes and Endpoints.                                                    *)
LEMMA OtherWritten ==
    ASSUME StoreTyped, NEW kind \in {"node", "ep"}, NEW v \in KindValues(kind),
           NEW ss \in SUBSET Svcs, Write(kind, v, ss)
    PROVE  StoreTyped' /\ Delivers /\ ChildrenAlone
<1>1. kind \in Kinds /\ ChildKinds \cup {"svc"} \subseteq Kinds \ {kind}
  BY DEF Kinds, ChildKinds
<1>2. /\ StoreTyped'
      /\ \A k \in Kinds \ {kind} : api'[k] = api[k]
      /\ pc # "down" =>
            /\ \A k \in Kinds \ Lagging :
                   cache[k] = api[k] => cache'[k] = api'[k]
            /\ \A k \in Kinds \cap Lagging : cache'[k] = cache[k]
            /\ \A k \in Lagging : wakes[k] \subseteq wakes'[k]
            /\ \A t \in Svcs : Woken(t) => Woken(t)'
  BY <1>1, WriteFacts
<1>3. ChildrenAlone
  BY <1>1, <1>2 DEF ChildrenAlone
<1>4. api'.lb = api.lb /\ api'.svc = api.svc
  BY <1>1, <1>2 DEF ChildKinds
<1> QED
  BY <1>2, <1>3, <1>4 DEF Delivers, Disowned

(* Children.                                                               *)
LEMMA ChildWritten ==
    ASSUME StoreTyped, NEW s \in Svcs, NEW kind \in ChildKinds,
           NEW slot \in Slots(kind), NEW child \in ChildSet(kind) \cup {Absent},
           WriteChild(kind, s, slot, child)
    PROVE  /\ StoreTyped' /\ Delivers
           /\ UNCHANGED api.svc
           /\ \A k \in ChildKinds \ {kind} : api'[k] = api[k]
           /\ \A t \in Svcs, other \in Slots(kind) :
                 /\ t # s \/ other # slot => api'[kind][t][other] = api[kind][t][other]
                 /\ t = s /\ other = slot => api'[kind][t][other] = child
           /\ pc # "down" /\ kind = "lb" => Woken(s)'
<1> DEFINE new == [api[kind] EXCEPT ![s][slot] = child]
           ss == IF kind = "lb" THEN {s} ELSE {}
<1>1. /\ new \in KindValues(kind)
      /\ new[s][slot] = child
      /\ \A t \in Svcs, other \in Slots(kind) :
            t # s \/ other # slot => new[t][other] = api[kind][t][other]
  <2>1. kind \in Kinds /\ KindValues(kind) =
            [Svcs -> [Slots(kind) -> ChildSet(kind) \cup {Absent}]]
    BY ChildValues
  <2>2. api[kind] \in KindValues(kind)
    BY <2>1, StoreKinds DEF StoreTyped
  <2> QED
    BY <2>1, <2>2, ChildUpdate
<1>2. ss \in SUBSET Svcs /\ Write(kind, new, ss) /\ (kind = "lb" => s \in ss)
  BY DEF WriteChild
<1>3. kind \in Kinds /\ ChildKinds \cup {"svc"} \subseteq Kinds /\ kind # "svc"
  BY DEF Kinds, ChildKinds
<1> HIDE DEF new, ss
<1>4. /\ StoreTyped'
      /\ api'[kind] = new /\ \A k \in Kinds \ {kind} : api'[k] = api[k]
      /\ pc # "down" =>
            /\ \A k \in Kinds \ Lagging :
                   cache[k] = api[k] => cache'[k] = api'[k]
            /\ \A k \in Kinds \cap Lagging : cache'[k] = cache[k]
            /\ \A k \in Lagging : wakes[k] \subseteq wakes'[k]
            /\ kind \in Lagging => ss \subseteq wakes'[kind]
            /\ \A t \in Svcs : Woken(t) \/ t \in ss => Woken(t)'
  BY <1>1, <1>2, <1>3, WriteFacts
<1>5. UNCHANGED api.svc
  BY <1>3, <1>4
<1>6. \A k \in ChildKinds \ {kind} : api'[k] = api[k]
  BY <1>3, <1>4
<1>7. \A t \in Svcs, other \in Slots(kind) :
         /\ t # s \/ other # slot => api'[kind][t][other] = api[kind][t][other]
         /\ t = s /\ other = slot => api'[kind][t][other] = child
  BY <1>1, <1>4
<1>8. pc # "down" /\ "lb" \in Lagging => \A t \in Svcs, p \in Ports :
         api'.lb[t][p] # Absent /\ api.lb[t][p] = Absent => t \in wakes'["lb"]
  <2>1. CASE kind = "lb"
    BY <1>2, <1>4, <1>7, <2>1, SlotsOfKinds
  <2>2. CASE kind # "lb"
    BY <1>6, <2>2 DEF ChildKinds
  <2> QED
    BY <2>1, <2>2
<1>9. Delivers
  BY <1>4, <1>5, <1>8 DEF Delivers, Disowned
<1> QED
  BY <1>2, <1>4, <1>5, <1>6, <1>7, <1>9

(* The Reconcile that runs is still the same one.                          *)
Continues ==
    /\ pc = "down" <=> pc' = "down"
    /\ pc' = "busy" =>
          /\ pc = "busy"
          /\ job'.s = job.s /\ job'.svc = job.svc /\ job'.mode = job.mode
          /\ script' \in Applying <=> script \in Applying

(* A child of a Service that is not bulb's comes to be only if somebody    *)
(* will look at it, and the deletion of one is not forgotten.              *)
NoNewOrphans(kind) ==
    pc # "down" => \A s \in Svcs, slot \in Slots(kind) :
        Orphan(kind, s, slot)' => Orphan(kind, s, slot) \/ Woken(s)'

StillDeletes(kind) ==
    pc # "down" => \A s \in Svcs, slot \in Slots(kind) :
        /\ WillDelete(kind, s, slot)
        /\ Orphan(kind, s, slot)
        /\ Orphan(kind, s, slot)'
        => WillDelete(kind, s, slot)' \/ Woken(s)'

(* A cleanup lists the children from a cache that does not show one, or    *)
(* shows a proxy as one to be kept that no longer is.                      *)
Overlooks ==
    /\ ListStale
    /\ At({"-ds", "-dns"})
    /\ \E slot \in Slots(StageKind(Stage)) :
          Orphan(StageKind(Stage), job.s, slot) /\ slot \notin job'.stale

(* All of this together.                                                   *)
OrdinaryStep ==
    /\ StoreTyped'
    /\ JobTyped'
    /\ BudgetTyped'
    /\ Delivers
    /\ Continues
    /\ \A kind \in ChildKinds : NoNewOrphans(kind)
    /\ \A kind \in ChildKinds : kind = "lb" \/ ~Overlooks => StillDeletes(kind)

LEMMA OrdinaryClaimed ==
    ASSUME NEW kind \in ChildKinds, Claimed(kind), Delivers, Continues,
           NoNewOrphans(kind), StillDeletes(kind)
    PROVE  Claimed(kind)'
<1> SUFFICES ASSUME pc' # "down", NEW s \in Svcs, NEW slot \in Slots(kind),
                    Orphan(kind, s, slot)'
             PROVE  Woken(s)' \/ WillDelete(kind, s, slot)'
  BY DEF Claimed
<1>1. pc # "down"
  BY DEF Continues
<1>2. CASE Orphan(kind, s, slot)
  <2>1. Woken(s) \/ WillDelete(kind, s, slot)
    BY <1>1, <1>2 DEF Claimed
  <2> QED
    BY <1>1, <1>2, <2>1 DEF Delivers, StillDeletes
<1>3. CASE ~Orphan(kind, s, slot)
  BY <1>1, <1>3 DEF NoNewOrphans
<1> QED
  BY <1>2, <1>3

LEMMA OrdinaryInductive ==
    ASSUME ControllerInv, OrdinaryStep
    PROVE  ControllerInv'
<1>1. StoreTyped' /\ JobTyped' /\ BudgetTyped'
  BY DEF OrdinaryStep
<1>2. Delivers /\ Continues
  BY DEF OrdinaryStep
<1>3. CacheFresh'
  BY <1>2 DEF ControllerInv, CacheFresh, Delivers, Continues
<1>4. ServiceLag'
  <2> SUFFICES ASSUME pc' # "down", "svc" \in Lagging, NEW s \in Svcs,
                      ServiceMatches(cache'.svc[s]), Disowned(s)'
               PROVE  s \in wakes'["svc"]
    BY DEF ServiceLag
  <2>1. cache'.svc = cache.svc
    BY <1>2 DEF Delivers, Continues, Kinds
  <2> QED
    BY <1>2, <2>1 DEF ControllerInv, ServiceLag, Delivers, Continues
<1>5. LBPortLag'
  <2> SUFFICES ASSUME pc' # "down", "lb" \in Lagging, NEW s \in Svcs,
                      NEW p \in Ports,
                      api'.lb[s][p] # Absent, cache'.lb[s][p] = Absent
               PROVE  s \in wakes'["lb"]
    BY DEF LBPortLag
  <2>1. cache'.lb = cache.lb
    BY <1>2 DEF Delivers, Continues, Kinds
  <2> QED
    BY <1>2, <2>1 DEF ControllerInv, LBPortLag, Delivers, Continues
<1>6. ApplyingWoken'
  <2> SUFFICES ASSUME (pc = "busy")', (script \in Applying)', Disowned(job.s)'
               PROVE  Woken(job.s)'
    BY DEF ApplyingWoken
  <2>1. /\ pc = "busy" /\ script \in Applying
        /\ job'.s = job.s /\ job.s \in Svcs
    BY <1>2 DEF ControllerInv, JobTyped, Job, Continues
  <2>2. Disowned(job.s) => Woken(job.s)
    BY <2>1 DEF ControllerInv, ApplyingWoken
  <2> DEFINE s == job.s
  <2>3. s \in Svcs /\ Disowned(s)' /\ (Disowned(s) => Woken(s))
    BY <2>1, <2>2 DEF Disowned
  <2>4. \A t \in Svcs : Disowned(t)' /\ (Disowned(t) => Woken(t)) => Woken(t)'
    BY <1>2, <2>1 DEF Delivers
  <2> QED
    BY <2>1, <2>3, <2>4 DEF Woken, Disowned
<1>7. Claimed("lb")'
  <2>1. "lb" \in ChildKinds /\ Claimed("lb") /\ NoNewOrphans("lb") /\ StillDeletes("lb")
    BY DEF OrdinaryStep, ChildKinds, ControllerInv
  <2> QED
    BY <1>2, <2>1, OrdinaryClaimed
<1> QED
  BY <1>1, <1>3, <1>4, <1>5, <1>6, <1>7 DEF ControllerInv

-----------------------------------------------------------------------------
(* The cluster.                                                            *)

LEMMA Spent ==
    ASSUME BudgetTyped, NEW event \in Events \ {"crash"}, Spend(event)
    PROVE  BudgetTyped'
BY DEF BudgetTyped, Spend, Events

LEMMA ClusterOrdinary ==
    ASSUME ControllerInv, UNCHANGED <<pc, script, job>>,
           BudgetTyped',
           StoreTyped', Delivers, api'.ds = api.ds, api'.dns = api.dns,
           \A s \in Svcs, p \in Ports :
               api'.lb[s][p] # Absent => api.lb[s][p] # Absent
    PROVE  OrdinaryStep
<1>1. JobTyped'
  BY DEF ControllerInv, JobTyped, Stage
<1>2. Continues
  BY DEF Continues
<1>3. ASSUME NEW kind \in ChildKinds PROVE NoNewOrphans(kind)
  <2> SUFFICES ASSUME pc # "down", NEW s \in Svcs, NEW slot \in Slots(kind),
                      Orphan(kind, s, slot)'
               PROVE  Orphan(kind, s, slot) \/ Woken(s)'
    BY DEF NoNewOrphans
  <2>1. Disowned(s) \/ Woken(s)'
    BY DEF Orphan, Delivers
  <2>2. CASE kind = "lb"
    BY <2>1, <2>2, SlotsOfKinds DEF Orphan
  <2>3. CASE kind # "lb"
    BY <1>3, <2>1, <2>3 DEF Orphan, ChildKinds
  <2> QED
    BY <2>2, <2>3
<1>4. ASSUME NEW kind \in ChildKinds PROVE StillDeletes(kind)
  BY <1>4 DEF StillDeletes, WillDelete
<1> QED
  BY <1>1, <1>2, <1>3, <1>4 DEF OrdinaryStep

LEMMA ServiceStep ==
    ASSUME ControllerInv, NEW s \in Svcs, NEW svc \in Service \cup {Absent},
           Spend("edit"), WriteService(s, svc), Unchanged
    PROVE  OrdinaryStep
<1>1. StoreTyped' /\ Delivers /\ ChildrenAlone
  BY ServiceWritten DEF ControllerInv
<1>2. BudgetTyped'
  BY Spent DEF ControllerInv, Events
<1>3. api'.ds = api.ds /\ api'.dns = api.dns /\ api'.lb = api.lb
  BY <1>1 DEF ChildrenAlone, ChildKinds
<1> QED
  BY <1>1, <1>2, <1>3, ClusterOrdinary DEF Unchanged

LEMMA ClusterSteps ==
    ASSUME ControllerInv, Cluster
    PROVE  OrdinaryStep
<1>0. /\ StoreTyped
      /\ api.svc \in [Svcs -> Service \cup {Absent}]
      /\ api.lb \in [Svcs -> LBWants]
      /\ api.node \in SUBSET Nodes /\ api.ep \in SUBSET Svcs
  BY StoreFields, ValuesOfKinds DEF ControllerInv, StoreTyped
<1>1. ASSUME NEW s \in Svcs, DeleteService(s) PROVE OrdinaryStep
  BY <1>1, ServiceStep DEF DeleteService
<1>2. ASSUME NEW s \in Svcs, NEW spec \in Specs, CreateService(s, spec)
      PROVE  OrdinaryStep
  <2>1. [spec |-> spec, ips |-> {}, cond |-> "None"] \in Service
    BY DEF Service, Conditions
  <2> QED
    BY <1>2, <2>1, ServiceStep DEF CreateService
<1>3. ASSUME NEW s \in Svcs, NEW spec \in Specs, EditService(s, spec)
      PROVE  OrdinaryStep
  <2> DEFINE svc == [api.svc[s] EXCEPT
                       !.spec = spec, !.ips = IF spec.matches THEN @ ELSE {}]
  <2>1. api.svc[s] \in Service
    BY <1>0, <1>3 DEF EditService
  <2>2. svc \in Service
    BY <2>1 DEF Service
  <2>3. Spend("edit") /\ WriteService(s, svc) /\ Unchanged
    BY <1>3 DEF EditService
  <2> QED
    BY <2>2, <2>3, ServiceStep
<1>4. ASSUME NEW s \in Svcs, ToggleEndpoints(s) PROVE OrdinaryStep
  <2> DEFINE v == IF s \in api.ep THEN api.ep \ {s} ELSE api.ep \cup {s}
  <2>1. v \in KindValues("ep")
    BY <1>0, ValuesOfKinds
  <2>2. Spend("cluster") /\ Write("ep", v, {s}) /\ Unchanged
    BY <1>4 DEF ToggleEndpoints
  <2>3. StoreTyped' /\ Delivers /\ ChildrenAlone
    BY <1>0, <2>1, <2>2, OtherWritten
  <2>4. BudgetTyped'
    BY <2>2, Spent DEF ControllerInv, Events
  <2>5. api'.ds = api.ds /\ api'.dns = api.dns /\ api'.lb = api.lb
    BY <2>3 DEF ChildrenAlone, ChildKinds
  <2> QED
    BY <2>2, <2>3, <2>4, <2>5, ClusterOrdinary DEF Unchanged
<1>5. ASSUME NEW n \in Nodes, ToggleNode(n) PROVE OrdinaryStep
  <2> DEFINE v == IF n \in api.node THEN api.node \ {n} ELSE api.node \cup {n}
  <2>1. v \in KindValues("node") /\ Matching(cache) \in SUBSET Svcs
    BY <1>0, ValuesOfKinds DEF Matching
  <2>2. Spend("cluster") /\ Write("node", v, Matching(cache)) /\ Unchanged
    BY <1>5 DEF ToggleNode
  <2>3. StoreTyped' /\ Delivers /\ ChildrenAlone
    BY <1>0, <2>1, <2>2, OtherWritten
  <2>4. BudgetTyped'
    BY <2>2, Spent DEF ControllerInv, Events
  <2>5. api'.ds = api.ds /\ api'.dns = api.dns /\ api'.lb = api.lb
    BY <2>3 DEF ChildrenAlone, ChildKinds
  <2> QED
    BY <2>2, <2>3, <2>4, <2>5, ClusterOrdinary DEF Unchanged
<1>6. ASSUME NEW s \in Svcs, NEW p \in Ports, NEW n \in AgentNodes,
             AgentReports(s, p, n)
      PROVE  OrdinaryStep
  <2> DEFINE old == api.lb[s][p]
             meant == {allNodesToken, n} \cap old.nodes # {}
             new == [old EXCEPT !.applied = IF meant THEN @ \cup {n} ELSE @ \ {n}]
  <2>1. old \in LBPort
    BY <1>0, <1>6, SlotsOfKinds DEF AgentReports, LBWants
  <2>2. new \in LBPort
    BY <2>1, ControllerAssumption DEF LBPort
  <2>3. old # Absent /\ WriteChild("lb", s, p, new) /\ Unchanged /\ UNCHANGED budget
    BY <1>6 DEF AgentReports
  <2> HIDE DEF new, meant
  <2>4. "lb" \in ChildKinds /\ p \in Slots("lb") /\ new \in ChildSet("lb") \cup {Absent}
    BY <2>2, SlotsOfKinds DEF ChildKinds, ChildSet
  <2>5. /\ StoreTyped' /\ Delivers
        /\ \A k \in ChildKinds \ {"lb"} : api'[k] = api[k]
        /\ \A t \in Svcs, q \in Slots("lb") :
              t # s \/ q # p => api'.lb[t][q] = api.lb[t][q]
    BY <1>0, <2>3, <2>4, ChildWritten
  <2>6. api'.ds = api.ds /\ api'.dns = api.dns
    BY <2>5 DEF ChildKinds
  <2>7. \A t \in Svcs, q \in Ports : api'.lb[t][q] # Absent => api.lb[t][q] # Absent
    BY <2>3, <2>5, SlotsOfKinds
  <2>8. BudgetTyped'
    BY <2>3 DEF ControllerInv, BudgetTyped
  <2> QED
    BY <2>3, <2>5, <2>6, <2>7, <2>8, ClusterOrdinary DEF Unchanged
<1> QED
  BY <1>1, <1>2, <1>3, <1>4, <1>5, <1>6 DEF Cluster

LEMMA HeartbeatStep ==
    ASSUME ControllerInv, NodeHeartbeat
    PROVE  OrdinaryStep
<1>1. queue' \subseteq Svcs /\ queue \subseteq queue'
  BY DEF NodeHeartbeat, Matching, ControllerInv, StoreTyped
<1>2. StoreTyped' /\ Delivers /\ ChildrenAlone
  BY <1>1, NoWriteDelivers DEF NodeHeartbeat, ControllerInv
<1>3. BudgetTyped'
  BY DEF NodeHeartbeat, ControllerInv, BudgetTyped
<1>4. api' = api /\ UNCHANGED <<pc, script, job>>
  BY DEF NodeHeartbeat, Unchanged
<1> QED
  BY <1>2, <1>3, <1>4, ClusterOrdinary

-----------------------------------------------------------------------------
(* Reconcile.                                                              *)

LEMMA StageScripts ==
    ASSUME NEW sc \in Applying \cup Cleaning
    PROVE  /\ Head(sc) \in Stages
           /\ Head(sc) \in {"ds", "lb", "prune", "dns"} => sc \in Applying
           /\ Head(sc) = "-ds" <=> sc = Clean3
           /\ Head(sc) = "-lb" <=> sc = Clean2
           /\ Head(sc) = "-dns" <=> sc = Clean1
           /\ Head(sc) = "status" <=> sc \in {Apply1, Clean4}
BY ScriptHeads DEF Applying, Cleaning, Stages

LEMMA CleanScripts ==
    ASSUME NEW kind \in ChildKinds
    PROVE  /\ CleanAhead(kind) \cup {CleanNow(kind)} \subseteq Cleaning
           /\ CleanNow(kind) \notin CleanAhead(kind)
           /\ StageKind(Head(CleanNow(kind))) = kind
           /\ Head(CleanNow(kind)) \in {"-ds", "-lb", "-dns"}
BY ScriptHeads, ScriptsDiffer, KindsOfStages
   DEF CleanAhead, CleanNow, Cleaning, ChildKinds

(* A step that leaves the Reconcile in its stage.                          *)
LEMMA SameStage ==
    ASSUME ControllerInv, pc = "busy", UNCHANGED <<pc, script>>,
           NEW todo \in SUBSET job.todo, NEW stale \in SUBSET AllSlots,
           NEW listed \in BOOLEAN,
           job' = [job EXCEPT !.todo = todo, !.stale = stale, !.listed = listed],
           Stage # "status" => stale \subseteq Slots(StageKind(Stage)),
           Stage \in {"status", "prune"} => stale = {}
    PROVE  JobTyped' /\ Continues
<1>1. job \in Job /\ WantFits(Stage, job)
  BY DEF ControllerInv, JobTyped
<1>2. todo \subseteq AllSlots
  BY <1>1 DEF Job
<1>3. /\ job' \in Job
      /\ job'.s = job.s /\ job'.svc = job.svc /\ job'.mode = job.mode
      /\ job'.lbports = job.lbports /\ job'.want = job.want
      /\ job'.todo = todo /\ job'.stale = stale
  BY <1>1, <1>2 DEF Job
<1>4. WantFits(Stage, job')
  BY <1>1, <1>3 DEF WantFits
<1>5. JobTyped'
  BY <1>3, <1>4 DEF ControllerInv, JobTyped, Stage
<1> QED
  BY <1>3, <1>5 DEF Continues

(* A Reconcile that renders a child of a Service that is not bulb's.       *)
LEMMA ApplyOrdinary ==
    ASSUME ControllerInv, pc = "busy", script \in Applying,
           JobTyped', Continues, UNCHANGED script,
           BudgetTyped',
           StoreTyped', Delivers, UNCHANGED api.svc,
           \A kind \in ChildKinds : \A s \in Svcs, slot \in Slots(kind) :
               s # job.s => api'[kind][s][slot] = api[kind][s][slot]
    PROVE  OrdinaryStep
<1>2. job.s \in Svcs
  BY DEF ControllerInv, JobTyped, Job
<1>3. \A s \in Svcs : s = job.s /\ Disowned(s) => Woken(s)'
  <2>1. \A s \in Svcs : s = job.s /\ Disowned(s) => Woken(s)
    BY <1>2 DEF ControllerInv, ApplyingWoken
  <2> QED
    BY <2>1 DEF Delivers
<1>4. ASSUME NEW kind \in ChildKinds PROVE NoNewOrphans(kind)
  <2> SUFFICES ASSUME NEW s \in Svcs, NEW slot \in Slots(kind),
                      Orphan(kind, s, slot)'
               PROVE  Orphan(kind, s, slot) \/ Woken(s)'
    BY DEF NoNewOrphans
  <2>1. Disowned(s)
    BY DEF Orphan, Disowned
  <2>2. CASE s = job.s
    BY <1>3, <2>1, <2>2
  <2>3. CASE s # job.s
    <3>1. api'[kind][s][slot] = api[kind][s][slot]
      BY <1>4, <2>3
    <3> QED
      BY <2>1, <3>1 DEF Orphan
  <2> QED
    BY <2>2, <2>3
<1>5. ASSUME NEW kind \in ChildKinds PROVE StillDeletes(kind)
  BY <1>5, CleanScripts, ScriptsDiffer DEF StillDeletes, WillDelete
<1> QED
  BY <1>4, <1>5 DEF OrdinaryStep

LEMMA JobFacts ==
    ASSUME ControllerInv, pc = "busy"
    PROVE  /\ StoreTyped /\ BudgetTyped
           /\ job \in Job /\ job.s \in Svcs
           /\ script \in Applying \cup Cleaning /\ Stage \in Stages
           /\ WantFits(Stage, job)
BY StageScripts DEF ControllerInv, JobTyped, Job, Stage

LEMMA PutSteps ==
    ASSUME ControllerInv, NEW slot, PutChild(slot)
    PROVE  OrdinaryStep
<1>1. pc = "busy" /\ Stage \in {"ds", "lb", "dns"} /\ slot \in job.todo
  BY DEF PutChild, At
<1>2. /\ StoreTyped /\ BudgetTyped
      /\ job \in Job /\ job.s \in Svcs
      /\ script \in Applying \cup Cleaning /\ Stage \in Stages
      /\ WantFits(Stage, job)
  BY <1>1, JobFacts
<1>3. script \in Applying
  BY <1>1, <1>2, StageScripts DEF Stage
<1>4. JobTyped' /\ Continues /\ UNCHANGED <<pc, script, budget>>
  <2> DEFINE todo == job.todo \ {slot}
  <2>1. job' = [job EXCEPT !.todo = todo, !.stale = job.stale, !.listed = job.listed]
    BY <1>2 DEF PutChild, Job
  <2>2. /\ job.stale \in SUBSET AllSlots /\ job.listed \in BOOLEAN
        /\ todo \in SUBSET job.todo
        /\ Stage # "status" => job.stale \subseteq Slots(StageKind(Stage))
        /\ Stage \in {"status", "prune"} => job.stale = {}
    BY <1>2 DEF Job, WantFits
  <2>3. UNCHANGED <<pc, script, budget>>
    BY DEF PutChild
  <2> HIDE DEF todo
  <2> QED
    BY <1>1, <2>1, <2>2, <2>3, SameStage
<1>5. BudgetTyped'
  BY <1>2, <1>4 DEF BudgetTyped
<1>6. CASE NoWrite
  <2>1. StoreTyped' /\ Delivers /\ ChildrenAlone /\ UNCHANGED api
    BY <1>2, <1>6, NoWriteDelivers DEF NoWrite, StoreTyped
  <2> QED
    BY <1>1, <1>3, <1>4, <1>5, <2>1, ApplyOrdinary
<1>7. CASE ~NoWrite
  <2> DEFINE kind == StageKind(Stage)
             child == IF Stage = "lb" /\ Actual(slot) # Absent
                      THEN [Actual(slot) EXCEPT !.nodes = job.want[slot].nodes]
                      ELSE job.want[slot]
  <2>1. WriteChild(kind, job.s, slot, child)
    BY <1>7 DEF PutChild
  <2>2. /\ kind \in ChildKinds /\ kind = Stage
        /\ job.want \in [Slots(kind) -> ChildSet(kind) \cup {Absent}]
    BY <1>1, <1>2, KindsOfStages
       DEF WantFits, DSWants, LBWants, DNSWants, ChildSet, ChildKinds
  <2>3. slot \in Slots(kind) /\ job.want[slot] \in ChildSet(kind)
    BY <1>1, <1>2, <2>2 DEF WantFits, Present
  <2>4. child \in ChildSet(kind) \cup {Absent}
    <3>1. CASE Stage = "lb" /\ Actual(slot) # Absent
      <4>1. ChildSet(kind) = LBPort /\ Actual(slot) = api.lb[job.s][slot]
        BY <2>2, <3>1, KindsOfStages DEF ChildSet, Actual
      <4>2. Actual(slot) \in LBPort
        BY <1>2, <2>2, <2>3, <3>1, <4>1, StoreFields, ValuesOfKinds
           DEF StoreTyped, LBWants
      <4>3. child = [Actual(slot) EXCEPT !.nodes = job.want[slot].nodes]
        BY <3>1
      <4>4. child \in LBPort
        BY <2>3, <4>1, <4>2, <4>3 DEF LBPort
      <4> QED
        BY <4>1, <4>4
    <3>2. CASE ~(Stage = "lb" /\ Actual(slot) # Absent)
      BY <2>3, <3>2
    <3> QED
      BY <3>1, <3>2
  <2> HIDE DEF kind, child
  <2>5. /\ StoreTyped' /\ Delivers /\ UNCHANGED api.svc
        /\ \A k \in ChildKinds \ {kind} : api'[k] = api[k]
        /\ \A t \in Svcs, other \in Slots(kind) :
              t # job.s => api'[kind][t][other] = api[kind][t][other]
    BY <1>2, <2>1, <2>2, <2>3, <2>4, ChildWritten
  <2>6. \A k \in ChildKinds : \A t \in Svcs, other \in Slots(k) :
           t # job.s => api'[k][t][other] = api[k][t][other]
    BY <2>5
  <2> QED
    BY <1>1, <1>3, <1>4, <1>5, <2>5, <2>6, ApplyOrdinary
<1> QED
  BY <1>6, <1>7

LEMMA PruneSteps ==
    ASSUME ControllerInv, NEW slot, PruneApplied(slot)
    PROVE  OrdinaryStep
<1>1. pc = "busy" /\ Stage = "prune" /\ slot \in job.todo /\ UNCHANGED <<pc, script>>
  BY DEF PruneApplied, At
<1>2. /\ StoreTyped /\ BudgetTyped
      /\ job \in Job /\ job.s \in Svcs
      /\ script \in Applying \cup Cleaning /\ Stage \in Stages
      /\ WantFits(Stage, job)
  BY <1>1, JobFacts
<1>3. script \in Applying
  BY <1>1, <1>2, StageScripts DEF Stage
<1>4. JobTyped' /\ Continues
  <2>1. PICK todo \in {job.todo \ {slot}, {}} : job' = [job EXCEPT !.todo = todo]
    BY DEF PruneApplied
  <2>2. job' = [job EXCEPT !.todo = todo, !.stale = job.stale, !.listed = job.listed]
    BY <1>2, <2>1 DEF Job
  <2>3. /\ job.stale \in SUBSET AllSlots /\ job.listed \in BOOLEAN
        /\ todo \in SUBSET job.todo
        /\ job.stale = {}
    BY <1>1, <1>2, <2>1 DEF Job, WantFits
  <2> QED
    BY <1>1, <2>2, <2>3, SameStage
<1>5. BudgetTyped'
  <2>1. CASE UNCHANGED budget
    BY <1>2, <2>1 DEF BudgetTyped
  <2>2. CASE Spend("fault")
    BY <1>2, <2>2, Spent DEF Events
  <2> QED
    BY <2>1, <2>2 DEF PruneApplied
<1>6. CASE NoWrite
  <2>1. StoreTyped' /\ Delivers /\ ChildrenAlone /\ UNCHANGED api
    BY <1>2, <1>6, NoWriteDelivers DEF NoWrite, StoreTyped
  <2> QED
    BY <1>1, <1>3, <1>4, <1>5, <2>1, ApplyOrdinary
<1>7. CASE ~NoWrite
  <2> DEFINE child == [Actual(slot) EXCEPT !.applied = job.want[slot].applied]
  <2>1. /\ WriteChild("lb", job.s, slot, child)
        /\ Actual(slot) # Absent
    BY <1>7 DEF PruneApplied
  <2>2. job.want \in [Ports -> LBPort \cup {Absent}]
    BY <1>1, <1>2, SlotsOfKinds DEF WantFits, LBWants
  <2>3. slot \in Ports /\ job.want[slot] \in LBPort
    BY <1>1, <1>2, <2>2 DEF WantFits, Present
  <2>4. Actual(slot) = api.lb[job.s][slot]
    BY <1>1, KindsOfStages DEF Actual
  <2>5. Actual(slot) \in LBPort
    BY <1>2, <2>1, <2>3, <2>4, StoreFields, ValuesOfKinds, SlotsOfKinds
       DEF StoreTyped, LBWants
  <2>6. child \in LBPort
    BY <2>3, <2>5 DEF LBPort
  <2> HIDE DEF child
  <2>7. /\ "lb" \in ChildKinds /\ slot \in Slots("lb")
        /\ child \in ChildSet("lb") \cup {Absent}
    BY <2>3, <2>6, SlotsOfKinds DEF ChildKinds, ChildSet
  <2>8. /\ StoreTyped' /\ Delivers /\ UNCHANGED api.svc
        /\ \A k \in ChildKinds \ {"lb"} : api'[k] = api[k]
        /\ \A t \in Svcs, other \in Slots("lb") :
              t # job.s => api'.lb[t][other] = api.lb[t][other]
    BY <1>2, <2>1, <2>7, ChildWritten
  <2>9. \A k \in ChildKinds : \A t \in Svcs, other \in Slots(k) :
           t # job.s => api'[k][t][other] = api[k][t][other]
    BY <2>8
  <2> QED
    BY <1>1, <1>3, <1>4, <1>5, <2>8, <2>9, ApplyOrdinary
<1> QED
  BY <1>6, <1>7

LEMMA DeleteSteps ==
    ASSUME ControllerInv, NEW slot, DeleteChild(slot)
    PROVE  OrdinaryStep
<1>1. pc = "busy" /\ slot \in job.stale /\ UNCHANGED <<pc, script, budget>>
  BY DEF DeleteChild
<1>2. /\ StoreTyped /\ BudgetTyped
      /\ job \in Job /\ job.s \in Svcs
      /\ script \in Applying \cup Cleaning /\ Stage \in Stages
      /\ WantFits(Stage, job)
  BY <1>1, JobFacts
<1> DEFINE kind == StageKind(Stage)
<1>3. Stage \notin {"status", "prune"} /\ kind \in ChildKinds /\ slot \in Slots(kind)
  BY <1>1, <1>2, KindsOfStages DEF WantFits
<1>4. /\ job'.stale = job.stale \ {slot} /\ job'.listed = job.listed
      /\ job'.s = job.s /\ job'.mode = job.mode /\ job'.svc = job.svc
  BY <1>2 DEF DeleteChild, Job
<1>5. JobTyped' /\ Continues
  <2> DEFINE stale == job.stale \ {slot}
  <2>1. job' = [job EXCEPT !.todo = job.todo, !.stale = stale, !.listed = job.listed]
    BY <1>2 DEF DeleteChild, Job
  <2>2. /\ stale \in SUBSET AllSlots /\ job.listed \in BOOLEAN
        /\ job.todo \in SUBSET job.todo
        /\ stale \subseteq Slots(StageKind(Stage))
    BY <1>2, <1>3 DEF Job, WantFits
  <2> HIDE DEF stale
  <2> QED
    BY <1>1, <1>3, <2>1, <2>2, SameStage
<1>6. BudgetTyped'
  BY <1>1, <1>2 DEF BudgetTyped
<1>7. /\ StoreTyped' /\ Delivers /\ UNCHANGED api.svc
      /\ \A k \in ChildKinds : \A t \in Svcs, other \in Slots(k) :
            \/ api'[k][t][other] = api[k][t][other]
            \/ /\ api'[k][t][other] = Absent
               /\ k = kind /\ t = job.s /\ other = slot
      /\ api'[kind][job.s][slot] = Absent
  <2>1. CASE Actual(slot) = Absent
    <3>1. NoWrite
      BY <2>1 DEF DeleteChild
    <3>2. StoreTyped' /\ Delivers /\ UNCHANGED api
      BY <1>2, <3>1, NoWriteDelivers DEF NoWrite, StoreTyped
    <3> QED
      BY <2>1, <3>2 DEF Actual
  <2>2. CASE Actual(slot) # Absent
    <3>1. WriteChild(kind, job.s, slot, Absent)
      BY <2>2 DEF DeleteChild
    <3> HIDE DEF kind
    <3>2. /\ StoreTyped' /\ Delivers /\ UNCHANGED api.svc
          /\ \A k \in ChildKinds \ {kind} : api'[k] = api[k]
          /\ \A t \in Svcs, other \in Slots(kind) :
                /\ t # job.s \/ other # slot =>
                       api'[kind][t][other] = api[kind][t][other]
                /\ t = job.s /\ other = slot => api'[kind][t][other] = Absent
      BY <1>2, <1>3, <3>1, ChildWritten
    <3> QED
      BY <1>2, <1>3, <3>2
  <2> QED
    BY <2>1, <2>2
<1> HIDE DEF kind
<1>9. ASSUME NEW k \in ChildKinds PROVE NoNewOrphans(k)
  BY <1>7, <1>9 DEF NoNewOrphans, Orphan, Disowned
<1>10. ASSUME NEW k \in ChildKinds PROVE StillDeletes(k)
  <2> SUFFICES ASSUME NEW s \in Svcs, NEW other \in Slots(k),
                      WillDelete(k, s, other), Orphan(k, s, other)'
               PROVE  WillDelete(k, s, other)'
    BY DEF StillDeletes
  <2>1. s = job.s /\ job'.s = s /\ script' = script /\ pc' = "busy"
    BY <1>1, <1>4 DEF WillDelete
  <2>2. CASE script \in CleanAhead(k)
    BY <2>1, <2>2 DEF WillDelete
  <2>3. CASE script = CleanNow(k) /\ ~job.listed
    BY <1>4, <2>1, <2>3 DEF WillDelete
  <2>4. CASE script = CleanNow(k) /\ other \in job.stale
    <3>1. k = kind
      BY <1>10, <2>4, CleanScripts DEF kind, Stage
    <3>2. other # slot
      BY <1>7, <2>1, <3>1 DEF Orphan
    <3> QED
      BY <1>4, <2>1, <2>4, <3>2 DEF WillDelete
  <2> QED
    BY <2>2, <2>3, <2>4 DEF WillDelete
<1> QED
  BY <1>5, <1>6, <1>7, <1>9, <1>10 DEF OrdinaryStep

LEMMA ListSteps ==
    ASSUME ControllerInv, ListStale
    PROVE  OrdinaryStep
<1>1. /\ pc = "busy" /\ Stage \in {"ds", "lb", "dns", "-ds", "-lb", "-dns"}
      /\ UNCHANGED <<api, cache, wakes, queue, pc, script, budget>>
      /\ ~job.listed
  BY DEF ListStale, At
<1>2. /\ StoreTyped /\ BudgetTyped
      /\ job \in Job /\ job.s \in Svcs
      /\ script \in Applying \cup Cleaning /\ Stage \in Stages
      /\ WantFits(Stage, job)
  BY <1>1, JobFacts
<1> DEFINE kind == StageKind(Stage)
           children == cache[kind][job.s]
           unwanted == Present(children) \ Present(job.want)
           kept == IF Stage = "-ds" /\ job.mode = "keep"
                   THEN {slot \in unwanted : children[slot].keep} ELSE {}
           stale == unwanted \ kept
<1>3. job' = [job EXCEPT !.listed = TRUE, !.stale = stale]
  BY DEF ListStale
<1>4. kind \in ChildKinds /\ kind \in Kinds
  BY <1>1, <1>2, KindsOfStages DEF ChildKinds, Kinds
<1>5. DOMAIN children = Slots(kind)
  <2>1. KindValues(kind) = [Svcs -> [Slots(kind) -> ChildSet(kind) \cup {Absent}]]
    BY <1>4, ChildValues
  <2>2. cache[kind] \in KindValues(kind)
    BY <1>2, <1>4, StoreKinds DEF StoreTyped
  <2> HIDE DEF kind
  <2> QED
    BY <1>2, <2>1, <2>2
<1>6. stale \subseteq Slots(kind) /\ Slots(kind) \subseteq AllSlots
  BY <1>4, <1>5, SlotsOfKinds DEF Present
<1> HIDE DEF kind
<1>7. /\ job'.stale = stale /\ job'.listed = TRUE
      /\ job'.s = job.s /\ job'.mode = job.mode /\ job'.svc = job.svc
  BY <1>2, <1>3 DEF Job
<1>8. JobTyped' /\ Continues
  <2>1. job' = [job EXCEPT !.todo = job.todo, !.stale = stale, !.listed = TRUE]
    BY <1>2, <1>3 DEF Job
  <2>2. stale \in SUBSET AllSlots /\ stale \subseteq Slots(StageKind(Stage))
    BY <1>6 DEF kind
  <2> HIDE DEF stale
  <2> QED
    BY <1>1, <2>1, <2>2, SameStage
<1>9. BudgetTyped'
  BY <1>1, <1>2 DEF BudgetTyped
<1>10. StoreTyped' /\ Delivers
  BY <1>1, <1>2, NoWriteDelivers DEF StoreTyped
<1>12. ASSUME NEW k \in ChildKinds PROVE NoNewOrphans(k)
  BY <1>1 DEF NoNewOrphans, Orphan, Disowned
<1>13. ASSUME NEW k \in ChildKinds, k = "lb" \/ ~Overlooks
       PROVE  StillDeletes(k)
  <2> SUFFICES ASSUME NEW s \in Svcs, NEW slot \in Slots(k),
                      WillDelete(k, s, slot), Orphan(k, s, slot)
               PROVE  WillDelete(k, s, slot)' \/ Woken(s)'
    BY DEF StillDeletes
  <2>1. s = job.s /\ job'.s = s /\ script' = script /\ pc' = "busy"
    BY <1>1, <1>7 DEF WillDelete
  <2>2. CASE script \in CleanAhead(k)
    BY <2>1, <2>2 DEF WillDelete
  <2>3. CASE script = CleanNow(k)
    <3>1. k = kind /\ Stage \in {"-ds", "-lb", "-dns"}
      BY <1>13, <2>3, CleanScripts DEF kind, Stage
    <3>2. Present(job.want) = {}
      BY <1>2, <3>1, PresentIn DEF WantFits
    <3>3. api[k][s][slot] # Absent
      BY DEF Orphan
    <3>4. CASE k = "lb" /\ cache[k][s][slot] = Absent
      <4>1. k \in Lagging
        BY <1>1, <3>3, <3>4 DEF ControllerInv, CacheFresh, Kinds
      <4>2. s \in wakes["lb"]
        BY <1>1, <3>3, <3>4, <4>1, SlotsOfKinds DEF ControllerInv, LBPortLag
      <4> QED
        BY <1>1, <3>4, <4>1, <4>2 DEF Woken
    <3>5. CASE k = "lb" /\ cache[k][s][slot] # Absent
      <4>1. slot \in unwanted
        BY <1>5, <2>1, <3>1, <3>2, <3>5 DEF Present
      <4>2. kept = {}
        BY <3>1, <3>5, KindsOfStages DEF kind
      <4>3. slot \in job'.stale
        BY <1>7, <4>1, <4>2
      <4> QED
        BY <2>1, <2>3, <4>3 DEF WillDelete
    <3>6. CASE k # "lb"
      <4>1. Stage \in {"-ds", "-dns"} /\ k = StageKind(Stage)
        BY <3>1, <3>6, KindsOfStages DEF kind
      <4>2. slot \in job'.stale
        BY <1>1, <1>13, <2>1, <3>6, <4>1 DEF Overlooks, At
      <4> QED
        BY <2>1, <2>3, <4>2 DEF WillDelete
    <3> QED
      BY <3>4, <3>5, <3>6
  <2> QED
    BY <2>2, <2>3 DEF WillDelete
<1> QED
  BY <1>8, <1>9, <1>10, <1>12, <1>13 DEF OrdinaryStep

(* A stage is over.                                                        *)
LEMMA GoOnFacts ==
    ASSUME ControllerInv, pc = "busy", GoOn
    PROVE  /\ JobTyped' /\ Continues
           /\ pc' = "busy" => job'.stale = {} /\ job'.listed = FALSE
           /\ pc' = "busy" => script' = Tail(script)
           /\ \A kind \in ChildKinds : script \in CleanAhead(kind) =>
                 /\ pc' = "busy" /\ job'.s = job.s /\ ~job'.listed
                 /\ script' \in CleanAhead(kind) \cup {CleanNow(kind)}
<1>1. /\ StoreTyped
      /\ job \in Job
      /\ script \in Applying \cup Cleaning
  BY JobFacts
<1>2. CASE Len(script) = 1
  <2>1. pc' = "idle" /\ script' = <<>>
    BY <1>2 DEF GoOn
  <2>2. \A kind \in ChildKinds : script \notin CleanAhead(kind)
    BY <1>2, ScriptLengths DEF CleanAhead, ChildKinds
  <2> QED
    BY <2>1, <2>2 DEF JobTyped, Continues
<1>3. CASE Len(script) # 1
  <2> DEFINE rest == Tail(script)
  <2>1. rest \in Applying \cup Cleaning /\ (rest \in Applying <=> script \in Applying)
    BY <1>1, <1>3, ScriptLengths, ScriptTails, ScriptsDiffer DEF Applying, Cleaning
  <2>2. script' = rest /\ job' = AtStage(Head(rest), job) /\ pc' = "busy"
    BY <1>3 DEF GoOn
  <2>3. \A kind \in ChildKinds : script \in CleanAhead(kind) =>
            rest \in CleanAhead(kind) \cup {CleanNow(kind)}
    BY ScriptTails DEF CleanAhead, CleanNow, ChildKinds
  <2> HIDE DEF rest
  <2>4. /\ Head(rest) \in Stages
        /\ Head(rest) \in {"ds", "lb", "dns"} =>
              job.svc \in Service /\ job.lbports \in LBWants
    BY <2>1, StageScripts DEF ControllerInv, JobTyped
  <2>5. /\ job' \in Job
        /\ WantFits(Head(rest), job')
        /\ job'.s = job.s /\ job'.svc = job.svc /\ job'.mode = job.mode
        /\ job'.lbports = job.lbports
        /\ job'.stale = {} /\ job'.listed = FALSE
    BY <1>1, <2>2, <2>4, AtStageTyped
  <2>6. JobTyped'
    BY <2>1, <2>2, <2>5 DEF ControllerInv, JobTyped, Stage
  <2>7. Continues
    BY <2>1, <2>2, <2>5 DEF Continues
  <2> QED
    BY <2>2, <2>3, <2>5, <2>6, <2>7 DEF rest
<1> QED
  BY <1>2, <1>3

(* A step that ends a stage and leaves the children alone.                 *)
LEMMA GoOnOrdinary ==
    ASSUME ControllerInv, pc = "busy", GoOn, StoreTyped', Delivers, ChildrenAlone,
           BudgetTyped',
           \A kind \in ChildKinds : script = CleanNow(kind) =>
               job.listed /\ job.stale = {}
    PROVE  OrdinaryStep
<1>1. /\ JobTyped' /\ Continues
      /\ pc' = "busy" => job'.stale = {} /\ job'.listed = FALSE
      /\ \A kind \in ChildKinds : script \in CleanAhead(kind) =>
            /\ pc' = "busy" /\ job'.s = job.s /\ ~job'.listed
            /\ script' \in CleanAhead(kind) \cup {CleanNow(kind)}
  BY GoOnFacts
<1>3. ASSUME NEW kind \in ChildKinds PROVE NoNewOrphans(kind)
  <2> SUFFICES ASSUME NEW s \in Svcs, NEW slot \in Slots(kind),
                      Orphan(kind, s, slot)'
               PROVE  Orphan(kind, s, slot) \/ Woken(s)'
    BY DEF NoNewOrphans
  <2>1. Disowned(s) \/ Woken(s)'
    BY DEF Orphan, Delivers
  <2>2. api'[kind] = api[kind]
    BY <1>3 DEF ChildrenAlone
  <2> QED
    BY <2>1, <2>2 DEF Orphan
<1>4. ASSUME NEW kind \in ChildKinds PROVE StillDeletes(kind)
  <2> SUFFICES ASSUME NEW s \in Svcs, NEW slot \in Slots(kind),
                      WillDelete(kind, s, slot)
               PROVE  WillDelete(kind, s, slot)'
    BY DEF StillDeletes
  <2>1. script \in CleanAhead(kind)
    BY <1>4 DEF WillDelete
  <2> QED
    BY <1>1, <1>4, <2>1 DEF WillDelete
<1> QED
  BY <1>1, <1>3, <1>4 DEF OrdinaryStep

LEMMA StageSteps ==
    ASSUME ControllerInv, NextStage
    PROVE  OrdinaryStep
<1>1. /\ pc = "busy" /\ GoOn /\ UNCHANGED <<api, cache, wakes, queue, budget>>
      /\ job.stale = {} /\ (job.listed \/ Stage = "prune")
  BY DEF NextStage
<1>2. StoreTyped' /\ Delivers /\ ChildrenAlone
  BY <1>1, NoWriteDelivers DEF ControllerInv, StoreTyped
<1>3. BudgetTyped'
  BY <1>1 DEF ControllerInv, BudgetTyped
<1>4. \A kind \in ChildKinds : script = CleanNow(kind) =>
          job.listed /\ job.stale = {}
  BY <1>1, CleanScripts DEF Stage
<1> QED
  BY <1>1, <1>2, <1>3, <1>4, GoOnOrdinary

LEMMA StatusSteps ==
    ASSUME ControllerInv, UpdateStatus
    PROVE  OrdinaryStep
<1>1. pc = "busy" /\ Stage = "status" /\ GoOn /\ UNCHANGED budget
  BY DEF UpdateStatus, At
<1>2. StoreTyped /\ job \in Job /\ job.s \in Svcs
  BY <1>1, JobFacts
<1>3. StoreTyped' /\ Delivers /\ ChildrenAlone
  <2>1. CASE NoWrite
    BY <1>2, <2>1, NoWriteDelivers DEF NoWrite, StoreTyped
  <2>2. CASE ~NoWrite
    <3> DEFINE old == api.svc[job.s]
               new == [old EXCEPT
                         !.ips = IF job.ips = job.svc.ips THEN @ ELSE job.ips,
                         !.cond = IF job.cond = job.svc.cond THEN @ ELSE job.cond]
    <3>1. old # Absent /\ WriteService(job.s, new)
      BY <2>2 DEF UpdateStatus
    <3>2. old \in Service
      BY <1>2, <3>1, StoreFields, ValuesOfKinds DEF StoreTyped
    <3>3. job.ips \in SUBSET (Nodes \X RecordTypes) /\ job.cond \in Conditions
      BY <1>2 DEF Job
    <3>4. new \in Service
      BY <3>2, <3>3 DEF Service
    <3> HIDE DEF new
    <3> QED
      BY <1>2, <3>1, <3>4, ServiceWritten
  <2> QED
    BY <2>1, <2>2
<1>4. BudgetTyped'
  BY <1>1 DEF ControllerInv, BudgetTyped
<1>5. \A kind \in ChildKinds : script # CleanNow(kind)
  BY <1>1, CleanScripts DEF Stage
<1> QED
  BY <1>1, <1>3, <1>4, <1>5, GoOnOrdinary

LEMMA FailSteps ==
    ASSUME ControllerInv, pc = "busy", ReconcileFails,
           BudgetTyped'
    PROVE  OrdinaryStep
<1>1. /\ StoreTyped /\ job.s \in Svcs
  BY JobFacts
<1>2. StoreTyped' /\ Delivers /\ ChildrenAlone /\ UNCHANGED api
  BY <1>1, NoWriteDelivers DEF ReconcileFails, StoreTyped
<1>3. JobTyped' /\ Continues
  BY DEF ReconcileFails, JobTyped, Continues
<1>4. ASSUME NEW kind \in ChildKinds PROVE NoNewOrphans(kind)
  BY <1>2 DEF NoNewOrphans, Orphan, Disowned
<1>5. \A s \in Svcs : s = job.s => Woken(s)'
  BY DEF ReconcileFails, Woken
<1>6. ASSUME NEW kind \in ChildKinds PROVE StillDeletes(kind)
  BY <1>5 DEF StillDeletes, WillDelete
<1> QED
  BY <1>2, <1>3, <1>4, <1>6 DEF OrdinaryStep

LEMMA BuildTyped ==
    ASSUME StoreTyped, NEW svc \in Service
    PROVE  BuildLBPorts(svc.spec) \in LBWants
<1>1. lbPortNodes(svc.spec) \in SUBSET (Nodes \cup {allNodesToken})
  BY StoreFields, ValuesOfKinds DEF lbPortNodes, StoreTyped
<1> QED
  BY <1>1, SlotsOfKinds DEF BuildLBPorts, LBWants, LBPort

LEMMA StartInductive ==
    ASSUME ControllerInv, NEW s \in Svcs, StartReconcile(s)
    PROVE  ControllerInv' /\ \A kind \in ChildKinds : Claimed(kind) => Claimed(kind)'
<1> DEFINE svc == cache.svc[s]
           gone == ~ServiceMatches(svc)
           verdict == IF gone THEN "None" ELSE Verdict(s, svc.spec)
           stages == IF gone THEN CleanupScript
                     ELSE IF verdict = "Reconciled" THEN ApplyScript
                     ELSE <<"status">> \o CleanupScript
           mode == IF gone /\ (svc = Absent \/ svc.spec.keep)
                   THEN "keep" ELSE "force"
           lbports == IF gone THEN <<>> ELSE BuildLBPorts(svc.spec)
           start == [s |-> s, svc |-> svc, cond |-> verdict, mode |-> mode,
                     lbports |-> lbports,
                     want |-> <<>>, todo |-> {}, stale |-> {}, listed |-> FALSE,
                     ips |-> {}]
<1>1. /\ pc = "idle" /\ pc' = "busy" /\ queue' = queue \ {s}
      /\ script' = stages /\ job' = AtStage(Head(stages), start)
      /\ UNCHANGED <<api, cache, wakes, budget>>
  BY DEF StartReconcile
<1>2. StoreTyped /\ svc \in Service \cup {Absent} /\ (~gone => svc \in Service /\ svc # Absent)
  BY StoreFields, ValuesOfKinds DEF ControllerInv, StoreTyped, ServiceMatches
<1>3. verdict \in Conditions
  BY DEF Verdict, Conditions
<1>4. /\ gone => stages = Clean3 /\ stages # Apply5 /\ stages # Clean4
      /\ ~gone => stages \in {Apply5, Clean4}
      /\ stages \in {Clean3, Apply5, Clean4}
  BY ScriptNames, ScriptsDiffer DEF Applying, Cleaning
<1>5. lbports \in LBWants \cup {<<>>} /\ (~gone => lbports \in LBWants)
  BY <1>2, BuildTyped
<1>7. start \in Job
  <2>1. mode \in {"keep", "force"}
    OBVIOUS
  <2> HIDE DEF svc, gone, verdict, stages, mode, lbports
  <2> QED
    BY <1>2, <1>3, <1>5, <2>1 DEF Job
<1>8. start.s = s /\ start.svc = svc /\ start.mode = mode /\ start.lbports = lbports
  OBVIOUS
<1> HIDE DEF start, mode, verdict, stages, lbports
<1>9. stages \in Applying <=> stages = Apply5
  BY <1>4, ScriptsDiffer DEF Applying, Cleaning
<1>10. /\ Head(stages) \in Stages
       /\ Head(stages) \in {"ds", "lb", "dns"} => ~gone
  BY <1>4, ScriptHeads DEF Stages
<1>11. /\ job' \in Job
       /\ WantFits(Head(stages), job')
       /\ job'.s = s /\ job'.svc = svc /\ job'.mode = mode /\ job'.lbports = lbports
       /\ job'.stale = {} /\ job'.listed = FALSE
  BY <1>1, <1>2, <1>5, <1>7, <1>8, <1>10, AtStageTyped
<1> HIDE DEF gone, svc
<1>12. JobTyped'
  BY <1>1, <1>2, <1>4, <1>5, <1>9, <1>11 DEF JobTyped, Stage, Applying, Cleaning
<1>13. StoreTyped' /\ BudgetTyped'
  BY <1>1 DEF ControllerInv, StoreTyped, BudgetTyped
<1>14. CacheFresh' /\ ServiceLag' /\ LBPortLag'
  BY <1>1 DEF ControllerInv, CacheFresh, ServiceLag, LBPortLag, Disowned
<1>15. \A t \in Svcs \ {s} : Woken(t) => Woken(t)'
  BY <1>1 DEF Woken
<1>16. ~gone /\ Disowned(s) => Woken(s)'
  <2> SUFFICES ASSUME ~gone, Disowned(s) PROVE Woken(s)'
    OBVIOUS
  <2>1. "svc" \in Lagging
    BY <1>1 DEF gone, svc, Disowned, ControllerInv, CacheFresh, Kinds
  <2>2. s \in wakes["svc"]
    BY <1>1, <2>1 DEF gone, svc, ControllerInv, ServiceLag
  <2> QED
    BY <1>1, <2>1, <2>2 DEF Woken
<1>17. ApplyingWoken'
  <2>1. script' \in Applying /\ Disowned(s)' => Woken(s)'
    BY <1>1, <1>4, <1>9, <1>16 DEF Disowned
  <2> QED
    BY <1>11, <2>1 DEF ApplyingWoken, Disowned, Woken
<1>18. ASSUME NEW kind \in ChildKinds, Claimed(kind) PROVE Claimed(kind)'
  <2> SUFFICES ASSUME NEW t \in Svcs, NEW slot \in Slots(kind),
                      Orphan(kind, t, slot)'
               PROVE  Woken(t)' \/ WillDelete(kind, t, slot)'
    BY DEF Claimed
  <2>1. Orphan(kind, t, slot)
    BY <1>1 DEF Orphan, Disowned
  <2>2. CASE t # s
    BY <1>1, <1>15, <1>18, <2>1, <2>2 DEF Claimed, WillDelete
  <2>3. CASE t = s /\ stages = Apply5
    BY <1>4, <1>16, <2>1, <2>3 DEF Orphan
  <2>4. CASE t = s /\ stages \in {Clean3, Clean4}
    <3>1. stages \in CleanAhead(kind) \cup {CleanNow(kind)}
      BY <2>4 DEF CleanAhead, CleanNow, ChildKinds
    <3> QED
      BY <1>1, <1>11, <2>4, <3>1 DEF WillDelete
  <2> QED
    BY <1>4, <2>2, <2>3, <2>4
<1>19. Claimed("lb")'
  BY <1>18 DEF ControllerInv, ChildKinds
<1> QED
  BY <1>12, <1>13, <1>14, <1>17, <1>18, <1>19 DEF ControllerInv

-----------------------------------------------------------------------------
(* The informers, and the process.                                         *)

LEMMA CatchUpInductive ==
    ASSUME ControllerInv, NEW kind \in Lagging, CatchUp(kind)
    PROVE  ControllerInv' /\ \A k \in ChildKinds : Claimed(k) => Claimed(k)'
<1>1. /\ pc # "down" /\ UNCHANGED <<api, budget, pc, script, job>>
      /\ cache' = [cache EXCEPT ![kind] = api[kind]]
      /\ queue' = queue \cup wakes[kind]
      /\ wakes' = [wakes EXCEPT ![kind] = {}]
  BY DEF CatchUp, Unchanged
<1>2. kind \in Kinds
  BY ControllerAssumption DEF ChildKinds, Kinds
<1>3. StoreTyped
  BY DEF ControllerInv
<1>4. /\ cache' \in ObjectStore
      /\ cache'[kind] = api[kind]
      /\ \A k \in Kinds \ {kind} : cache'[k] = cache[k]
  <2>1. api \in ObjectStore /\ cache \in ObjectStore
    BY <1>3 DEF StoreTyped
  <2>2. DOMAIN cache = Kinds /\ api[kind] \in KindValues(kind)
    BY <1>2, <2>1, StoreKinds
  <2> QED
    BY <1>1, <1>2, <2>1, <2>2, StoreUpdate
<1>5. /\ wakes' \in [Lagging -> SUBSET Svcs]
      /\ \A k \in Lagging \ {kind} : wakes'[k] = wakes[k]
      /\ \A t : Woken(t) => Woken(t)'
  BY <1>1, <1>3 DEF StoreTyped, Woken
<1>6. StoreTyped'
  BY <1>1, <1>3, <1>4, <1>5 DEF StoreTyped
<1>7. JobTyped' /\ BudgetTyped'
  BY <1>1 DEF ControllerInv, JobTyped, BudgetTyped, Stage
<1>8. CacheFresh'
  BY <1>1, <1>4 DEF ControllerInv, CacheFresh
<1>9. ServiceLag'
  <2>1. CASE kind = "svc"
    BY <1>1, <1>4, <2>1 DEF ServiceLag, Disowned
  <2>2. CASE kind # "svc"
    <3>1. cache'.svc = cache.svc
      BY <1>4, <2>2 DEF Kinds
    <3> QED
      BY <1>1, <1>5, <2>2, <3>1 DEF ControllerInv, ServiceLag, Disowned
  <2> QED
    BY <2>1, <2>2
<1>10. LBPortLag'
  <2>1. CASE kind = "lb"
    BY <1>1, <1>4, <2>1 DEF LBPortLag
  <2>2. CASE kind # "lb"
    <3>1. cache'.lb = cache.lb
      BY <1>4, <2>2 DEF Kinds
    <3> QED
      BY <1>1, <1>5, <2>2, <3>1 DEF ControllerInv, LBPortLag
  <2> QED
    BY <2>1, <2>2
<1>11. ApplyingWoken'
  <2>1. pc = "busy" /\ script \in Applying /\ Disowned(job.s) => Woken(job.s)'
    BY <1>1, <1>5 DEF ControllerInv, ApplyingWoken
  <2> QED
    BY <1>1, <2>1 DEF ApplyingWoken, Disowned
<1>12. ASSUME NEW k \in ChildKinds, Claimed(k) PROVE Claimed(k)'
  <2> SUFFICES ASSUME NEW t \in Svcs, NEW slot \in Slots(k),
                      Orphan(k, t, slot)'
               PROVE  Woken(t)' \/ WillDelete(k, t, slot)'
    BY DEF Claimed
  <2>1. Woken(t) \/ WillDelete(k, t, slot)
    BY <1>1, <1>12 DEF Claimed, Orphan, Disowned
  <2> QED
    BY <1>1, <1>5, <2>1 DEF WillDelete
<1>13. Claimed("lb")'
  BY <1>12 DEF ControllerInv, ChildKinds
<1> QED
  BY <1>6, <1>7, <1>8, <1>9, <1>10, <1>11, <1>12, <1>13 DEF ControllerInv

LEMMA CrashInductive ==
    ASSUME ControllerInv, Crash
    PROVE  ControllerInv'
<1>1. /\ pc' = "down" /\ script' = <<>> /\ queue' = {}
      /\ wakes' = [kind \in Lagging |-> {}] /\ UNCHANGED <<api, cache>>
  BY DEF Crash
<1>2. StoreTyped' /\ JobTyped'
  BY <1>1 DEF ControllerInv, StoreTyped, JobTyped
<1>3. BudgetTyped'
  BY DEF Crash, Spend, ControllerInv, BudgetTyped, Events
<1>4. /\ CacheFresh' /\ ServiceLag' /\ LBPortLag' /\ ApplyingWoken'
      /\ Claimed("lb")'
  BY <1>1 DEF CacheFresh, ServiceLag, LBPortLag, ApplyingWoken, Claimed
<1> QED
  BY <1>2, <1>3, <1>4 DEF ControllerInv

LEMMA RestartInductive ==
    ASSUME ControllerInv, Start
    PROVE  ControllerInv'
<1>1. /\ pc = "down" /\ pc' = "idle" /\ cache' = api
      /\ UNCHANGED <<api, wakes, script, job, budget>>
      /\ {s \in Svcs : Present(api.lb[s]) # {}} \subseteq queue'
  BY DEF Start
<1>2. StoreTyped'
  <2>1. queue' \subseteq Svcs
    BY StoreFields, ValuesOfKinds
       DEF Start, Matching, ControllerInv, StoreTyped
  <2> QED
    BY <1>1, <2>1 DEF ControllerInv, StoreTyped
<1>3. JobTyped' /\ BudgetTyped'
  BY <1>1 DEF ControllerInv, JobTyped, BudgetTyped
<1>4. CacheFresh' /\ ServiceLag' /\ LBPortLag' /\ ApplyingWoken'
  BY <1>1 DEF CacheFresh, ServiceLag, LBPortLag, ApplyingWoken, Disowned
<1>5. Claimed("lb")'
  <2> SUFFICES ASSUME NEW s \in Svcs, NEW p \in Slots("lb"), Orphan("lb", s, p)'
               PROVE  Woken(s)'
    BY DEF Claimed
  <2>1. api.lb[s][p] # Absent
    BY <1>1 DEF Orphan
  <2>2. api.lb[s] \in LBWants
    BY StoreFields, ValuesOfKinds DEF ControllerInv, StoreTyped
  <2>3. p \in Present(api.lb[s])
    BY <2>1, <2>2 DEF Present, LBWants
  <2> QED
    BY <1>1, <2>3 DEF Woken
<1> QED
  BY <1>2, <1>3, <1>4, <1>5 DEF ControllerInv

-----------------------------------------------------------------------------
LEMMA InitialStore == Init => StoreTyped
<1> SUFFICES ASSUME Init PROVE StoreTyped
  OBVIOUS
<1>1. \A kind \in ChildKinds : NoChildren(kind) =
          [slot \in Slots(kind) |-> Absent]
  BY DEF NoChildren
<1>2. /\ [s \in Svcs |-> NoChildren("ds")] \in KindValues("ds")
      /\ [s \in Svcs |-> NoChildren("lb")] \in KindValues("lb")
      /\ [s \in Svcs |-> NoChildren("dns")] \in KindValues("dns")
      /\ [s \in Svcs |-> Absent] \in KindValues("svc")
  BY <1>1, ValuesOfKinds DEF ChildKinds, DSWants, LBWants, DNSWants
<1>3. api \in ObjectStore
  BY <1>2 DEF Init, ObjectStore, KindValues
<1> QED
  BY <1>3 DEF Init, StoreTyped

LEMMA InitialController == Init => ControllerInv
<1> SUFFICES ASSUME Init PROVE ControllerInv
  OBVIOUS
<1>1. pc = "down" /\ script = <<>> /\ budget = Budget
  BY DEF Init
<1>2. StoreTyped /\ JobTyped /\ BudgetTyped
  BY <1>1, InitialStore, ControllerAssumption DEF JobTyped, BudgetTyped, Events
<1>3. CacheFresh /\ ServiceLag /\ LBPortLag /\ ApplyingWoken /\ Claimed("lb")
  BY <1>1 DEF CacheFresh, ServiceLag, LBPortLag, ApplyingWoken, Claimed
<1> QED
  BY <1>2, <1>3 DEF ControllerInv

LEMMA OrdinarySteps ==
    ASSUME ControllerInv,
           \/ Cluster \/ NodeHeartbeat \/ ReconcileFault
           \/ \E slot \in AllSlots :
                 PutChild(slot) \/ DeleteChild(slot) \/ PruneApplied(slot)
           \/ ListStale \/ NextStage \/ UpdateStatus \/ WriteRejected
    PROVE  OrdinaryStep
<1>1. CASE ReconcileFault
  <2>1. pc = "busy" /\ Spend("fault") /\ ReconcileFails
    BY <1>1 DEF ReconcileFault
  <2>2. BudgetTyped'
    BY <2>1, Spent DEF ControllerInv, Events
  <2> QED
    BY <2>1, <2>2, FailSteps
<1>2. CASE WriteRejected
  <2>1. pc = "busy" /\ ReconcileFails /\ UNCHANGED budget
    BY <1>2 DEF WriteRejected, Rejected, At
  <2>2. BudgetTyped'
    BY <2>1 DEF ControllerInv, BudgetTyped
  <2> QED
    BY <2>1, <2>2, FailSteps
<1> QED
  BY <1>1, <1>2, ClusterSteps, HeartbeatStep, PutSteps, DeleteSteps, PruneSteps,
     ListSteps, StageSteps, StatusSteps

LEMMA ControllerStutters ==
    ASSUME ControllerInv, UNCHANGED vars
    PROVE  ControllerInv'
<1>1. UNCHANGED <<api, cache, wakes, queue, pc, script, job, budget>>
  BY DEF vars
<1>2. StoreTyped' /\ Delivers /\ ChildrenAlone
  BY <1>1, NoWriteDelivers DEF ControllerInv, StoreTyped
<1>3. BudgetTyped'
  BY <1>1 DEF ControllerInv, BudgetTyped
<1> QED
  BY <1>1, <1>2, <1>3, ClusterOrdinary, OrdinaryInductive

LEMMA ControllerInductive ==
    ControllerInv /\ [Next]_vars => ControllerInv'
<1> SUFFICES ASSUME ControllerInv, [Next]_vars PROVE ControllerInv'
  OBVIOUS
<1>1. ASSUME NEW s \in Svcs, StartReconcile(s) PROVE ControllerInv'
  BY <1>1, StartInductive
<1>2. ASSUME NEW kind \in Lagging, CatchUp(kind) PROVE ControllerInv'
  BY <1>2, CatchUpInductive
<1>3. CASE Crash
  BY <1>3, CrashInductive
<1>4. CASE Start
  BY <1>4, RestartInductive
<1>5. CASE UNCHANGED vars
  BY <1>5, ControllerStutters
<1> QED
  BY <1>1, <1>2, <1>3, <1>4, <1>5, OrdinarySteps, OrdinaryInductive
     DEF Next, ReconcileStep

(* The inductive invariant holds, whatever is late, fails or crashes.      *)
THEOREM ControllerInvariant == Spec => []ControllerInv
<1>1. Init => ControllerInv
  BY InitialController
<1>2. ControllerInv /\ [Next]_vars => ControllerInv'
  BY ControllerInductive
<1> QED
  BY <1>1, <1>2, PTL DEF Spec

(* The objects, the caches and the work queue of the controller only ever  *)
(* hold what its types allow, and a Reconcile runs exactly while there are *)
(* stages left of it.                                                      *)
THEOREM ControllerTypeCorrect == Spec => []ControllerTypeOK
<1>1. ControllerInv => ControllerTypeOK
  <2>1. JobTyped => (pc = "busy" => job.s \in Svcs /\ script # <<>>)
    BY ScriptsDiffer DEF JobTyped, Job
  <2> QED
    BY <2>1 DEF ControllerInv, StoreTyped, JobTyped, BudgetTyped, ControllerTypeOK
<1> QED
  BY <1>1, ControllerInvariant, PTL

LEMMA SettledUnclaimed ==
    ASSUME Settled, NEW kind \in ChildKinds, Claimed(kind), NEW s \in Svcs,
           NEW slot \in Slots(kind)
    PROVE  ~Orphan(kind, s, slot)
BY DEF Settled, Claimed, Woken, WillDelete

(* reconciler.go, cleanup: with nothing left to do, a Service that is gone *)
(* or no longer bulb's has no LBPort.  This holds whichever caches are     *)
(* late, wherever calls fail and however often the controller dies,        *)
(* because an LBPort wakes its Service.                                    *)
THEOREM LBPortsCleanedUp == Spec => []LBPortsNeverOrphaned
<1>1. ControllerInv => LBPortsNeverOrphaned
  <2> SUFFICES ASSUME ControllerInv, Settled, NEW s \in Svcs, Disowned(s),
                      NEW p \in Present(api.lb[s])
               PROVE  FALSE
    BY DEF LBPortsNeverOrphaned
  <2>1. api.lb[s] \in LBWants
    BY StoreFields, ValuesOfKinds DEF ControllerInv, StoreTyped
  <2>2. p \in Slots("lb") /\ api.lb[s][p] # Absent
    BY <2>1 DEF LBWants, Present
  <2>3. Orphan("lb", s, p)
    BY <2>2 DEF Orphan
  <2>4. "lb" \in ChildKinds /\ Claimed("lb")
    BY DEF ControllerInv, ChildKinds
  <2> QED
    BY <2>2, <2>3, <2>4, SettledUnclaimed
<1> QED
  BY <1>1, ControllerInvariant, PTL

(* A controller that starts does not hear of a Service whose proxy or      *)
(* whose DNSRecords are left.                                              *)
Forgets ==
    /\ Start
    /\ \E kind \in {"ds", "dns"}, s \in Svcs \ queue' :
          \E slot \in Slots(kind) : Orphan(kind, s, slot)

Attended == Claimed("ds") /\ Claimed("dns")

LEMMA StaysAttended ==
    ASSUME ControllerInv, Attended, [Next]_vars, ~Overlooks, ~Forgets
    PROVE  Attended'
<1>1. /\ {"ds", "dns"} \subseteq ChildKinds
      /\ \A kind \in {"ds", "dns"} : Claimed(kind)
  BY DEF ChildKinds, Attended
<1> SUFFICES ASSUME NEW kind \in {"ds", "dns"} PROVE Claimed(kind)'
  BY DEF Attended
<1>2. ASSUME NEW s \in Svcs, StartReconcile(s) PROVE Claimed(kind)'
  BY <1>1, <1>2, StartInductive
<1>3. ASSUME NEW k \in Lagging, CatchUp(k) PROVE Claimed(kind)'
  BY <1>1, <1>3, CatchUpInductive
<1>4. CASE Crash
  BY <1>4 DEF Crash, Claimed
<1>5. CASE Start
  <2> SUFFICES ASSUME NEW s \in Svcs, NEW slot \in Slots(kind),
                      Orphan(kind, s, slot)'
               PROVE  s \in queue'
    BY DEF Claimed, Woken
  <2>1. Orphan(kind, s, slot)
    BY <1>5 DEF Start, Orphan, Disowned
  <2> QED
    BY <1>5, <2>1 DEF Forgets
<1>6. CASE OrdinaryStep
  BY <1>1, <1>6, OrdinaryClaimed DEF OrdinaryStep
<1>7. CASE UNCHANGED vars
  <2>1. UNCHANGED <<api, cache, wakes, queue, pc, script, job, budget>>
    BY <1>7 DEF vars
  <2> QED
    BY <1>1, <2>1 DEF Claimed, Orphan, Disowned, Woken, WillDelete
<1> QED
  BY <1>2, <1>3, <1>4, <1>5, <1>6, <1>7, OrdinarySteps DEF Next, ReconcileStep

(* The same of the proxy and of the DNSRecords, which wake nobody.  Only   *)
(* two things leave one behind: a cleanup that lists the children from a   *)
(* cache that does not show it yet, or a start after the Service was       *)
(* deleted, when no event of the Service is left.  Short of these two it   *)
(* holds whichever caches are late, wherever calls fail and however often  *)
(* the controller dies.                                                    *)
THEOREM ChildrenCleanedUp ==
    Spec /\ [][~Overlooks /\ ~Forgets]_vars => []ChildrenGone
<1>1. Init => Attended
  BY DEF Init, Attended, Claimed
<1>2. ControllerInv /\ Attended /\ [Next]_vars /\ [~Overlooks /\ ~Forgets]_vars
          => Attended'
  <2> SUFFICES ASSUME ControllerInv, Attended, [Next]_vars,
                      [~Overlooks /\ ~Forgets]_vars
               PROVE  Attended'
    OBVIOUS
  <2>1. CASE ~Overlooks /\ ~Forgets
    BY <2>1, StaysAttended
  <2>2. CASE UNCHANGED vars
    <3>1. UNCHANGED <<api, cache, wakes, queue, pc, script, job, budget>>
      BY <2>2 DEF vars
    <3> QED
      BY <3>1 DEF Attended, Claimed, Orphan, Disowned, Woken, WillDelete
  <2> QED
    BY <2>1, <2>2
<1>3. ControllerInv /\ Attended => ChildrenGone
  <2> SUFFICES ASSUME ControllerInv, Attended, Settled, NEW s \in Svcs, Disowned(s)
               PROVE  ~ProxyOrphaned(s) /\ Present(api.dns[s]) = {}
    BY DEF ChildrenGone
  <2>1. "ds" \in ChildKinds /\ "dns" \in ChildKinds /\ Claimed("ds") /\ Claimed("dns")
    BY DEF Attended, ChildKinds
  <2>2. "ds" \in Slots("ds") /\ ~Orphan("ds", s, "ds")
    BY <2>1, SlotsOfKinds, SettledUnclaimed
  <2>3. \A slot \in Slots("dns") : ~Orphan("dns", s, slot)
    BY <2>1, SettledUnclaimed
  <2>4. api.dns[s] \in DNSWants
    BY StoreFields, ValuesOfKinds DEF ControllerInv, StoreTyped
  <2>5. ~ProxyOrphaned(s)
    BY <2>2 DEF Orphan, ProxyOrphaned
  <2>6. Present(api.dns[s]) = {}
    BY <2>3, <2>4 DEF Orphan, Present, DNSWants
  <2> QED
    BY <2>5, <2>6
<1> QED
  BY <1>1, <1>2, <1>3, ControllerInvariant, PTL DEF Spec

-----------------------------------------------------------------------------
(* What the status of a Service is worth, and what the controller has done *)
(* for a Service when it has nothing left to do.  The argument is about    *)
(* Services that are quiet: bulb's, and neither in the work queue nor in   *)
(* an event under way.  A change of anything that a Reconcile of such a    *)
(* Service depends on ends the quiet, so its last Reconcile was right, or  *)
(* will be when it is through.                                             *)

(* If the cache has another version of a Service of bulb's, or of its      *)
(* LBPorts, then an event is under way.                                    *)
VersionLag ==
    pc # "down" => \A s \in Svcs :
        /\ /\ "svc" \in Lagging
           /\ cache.svc[s] # api.svc[s]
           /\ ServiceMatches(cache.svc[s]) \/ ServiceMatches(api.svc[s])
           => s \in wakes["svc"]
        /\ "lb" \in Lagging /\ cache.lb[s] # api.lb[s] => s \in wakes["lb"]

(* Nothing has happened to the Service that its next Reconcile does not    *)
(* know already.                                                           *)
Quiet(s) == ServiceMatches(api.svc[s]) /\ ~Woken(s)

Running(s) == pc = "busy" /\ job.s = s

(* The children of the Service as it is now.                               *)
WantOf(kind, s) ==
    CASE kind = "ds" -> BuildDaemonSet(api.svc[s].spec)
      [] kind = "lb" -> BuildLBPorts(api.svc[s].spec)
      [] kind = "dns" -> BuildDNSRecords(api.svc[s].spec)

AsWanted(kind, s) ==
    \A slot \in Slots(kind) :
        SameSpec(kind, api[kind][s][slot], WantOf(kind, s)[slot])

NoneLeft(kind, s) == \A slot \in Slots(kind) : api[kind][s][slot] = Absent

(* The running Reconcile knows its Service, and has come to a verdict.     *)
VerdictFitsScript ==
    pc = "busy" =>
        /\ job.cond = "Reconciled" <=> script \in Applying
        /\ job.cond # "Reconciled" => job.ips = {}
        /\ job.cond # "None" => job.mode = "force"

KnowsService(s) ==
    Running(s) =>
        /\ job.cond # "None"
        /\ job.svc = api.svc[s]
        /\ script \in Applying => job.lbports = WantOf("lb", s)
        /\ script \in {Apply2, Apply1} => job.ips = nodePublicIPs
        /\ script \in {Clean3, Clean2, Clean1} =>
              api.svc[s].cond = job.cond /\ api.svc[s].ips = {}

ApplyNow(kind) ==
    CASE kind = "ds" -> Apply5
      [] kind = "lb" -> Apply4
      [] kind = "dns" -> Apply2

ApplyDone(kind) ==
    CASE kind = "ds" -> {Apply4, Apply3, Apply2, Apply1}
      [] kind = "lb" -> {Apply3, Apply2, Apply1}
      [] kind = "dns" -> {Apply1}

CleanDone(kind) ==
    CASE kind = "ds" -> {Clean2, Clean1}
      [] kind = "lb" -> {Clean1}
      [] kind = "dns" -> {}

(* What a stage has done so far: written the children it no longer has to  *)
(* write, and deleted those that it does not want and does not list.       *)
PutSoFar(kind, s) ==
    /\ job.want = WantOf(kind, s)
    /\ \A slot \in Slots(kind) \ job.todo : job.want[slot] # Absent =>
           SameSpec(kind, api[kind][s][slot], job.want[slot])
    /\ \A slot \in Slots(kind) \ job.stale :
           job.listed /\ job.want[slot] = Absent => api[kind][s][slot] = Absent
    /\ \A slot \in job.stale : job.want[slot] = Absent

DeletedSoFar(kind, s) ==
    job.listed => \A slot \in Slots(kind) \ job.stale : api[kind][s][slot] = Absent

(* A cache that shows every child, or an event that is under way.          *)
Reliable(kind) == kind = "lb" \/ kind \notin Lagging

(* The proxy is written in every Reconcile that applies, whatever the      *)
(* cache shows; but it is deleted only if the cache shows it.              *)
Writes(kind) == kind = "ds" \/ Reliable(kind)

Progress(kind, s) ==
    /\ Running(s) /\ script = ApplyNow(kind) => PutSoFar(kind, s)
    /\ Running(s) /\ script \in ApplyDone(kind) => AsWanted(kind, s)
    /\ ~Running(s) /\ api.svc[s].cond = "Reconciled" => AsWanted(kind, s)
    /\ Reliable(kind) =>
          /\ Running(s) /\ script = CleanNow(kind) => DeletedSoFar(kind, s)
          /\ Running(s) /\ script \in CleanDone(kind) => NoneLeft(kind, s)
          /\ ~Running(s) /\ api.svc[s].cond # "Reconciled" => NoneLeft(kind, s)

AddressesTold(s) ==
    ~Running(s) =>
        api.svc[s].ips = IF api.svc[s].cond = "Reconciled" THEN nodePublicIPs ELSE {}

AppliedThere(s, p) == api.lb[s][p] # Absent => api.lb[s][p].applied \subseteq api.node

PrunedSoFar(s) ==
    /\ Running(s) /\ script = Apply3 =>
          /\ \A p \in job.todo : api.lb[s][p] # Absent
          /\ \A p \in Ports \ job.todo : AppliedThere(s, p)
    /\ Running(s) /\ script \in {Apply2, Apply1} =>
          \A p \in Ports : AppliedThere(s, p)
    /\ ~Running(s) => \A p \in Ports : AppliedThere(s, p)

(* The Service has its ports, or is about to have them.                    *)
Holds(s) ==
    /\ Quiet(s)
    /\ Running(s) => job.cond = "Reconciled"
    /\ ~Running(s) => api.svc[s].cond = "Reconciled"

Clash(s, t) ==
    /\ api.svc[s].spec.ports \cap api.svc[t].spec.ports # {}
    /\ overlappingNodes(lbPortNodes(api.svc[s].spec), lbPortNodes(api.svc[t].spec))

HoldersAgree ==
    /\ \A s \in Svcs : Holds(s) => api.svc[s].spec.problem # "selector"
    /\ \A s, t \in Svcs : s # t /\ Holds(s) /\ Holds(t) => ~Clash(s, t)

FaultsCounted == budget["fault"] <= Budget["fault"]

(* What is known of a Service that is quiet.                               *)
Told(s) ==
    /\ KnowsService(s)
    /\ AddressesTold(s)
    /\ \A kind \in ChildKinds : Writes(kind) => Progress(kind, s)
    /\ NoCallFailed => PrunedSoFar(s)

StatusInv ==
    /\ VersionLag
    /\ VerdictFitsScript
    /\ FaultsCounted
    /\ pc # "down" =>
          /\ \A s \in Svcs : Quiet(s) => Told(s)
          /\ HoldersAgree

-----------------------------------------------------------------------------
(* What ends the quiet of a Service.                                       *)

Learns ==
    /\ \A s \in Svcs : Woken(s) => Woken(s)'
    /\ \A s \in Svcs :
          /\ api'.svc[s] # api.svc[s]
          /\ ServiceMatches(api.svc[s]) \/ ServiceMatches(api'.svc[s])
          => Woken(s)'
    /\ \A s \in Svcs : api'.lb[s] # api.lb[s] => Woken(s)'
    /\ api'.node # api.node => \A s \in Matching(cache) : Woken(s)'

LEMMA WriteChanges ==
    ASSUME StoreTyped, NEW kind \in Kinds, NEW v, NEW ss, Write(kind, v, ss)
    PROVE  api'[kind] = v /\ \A k \in Kinds \ {kind} : api'[k] = api[k]
<1>1. DOMAIN api = Kinds
  BY StoreKinds DEF StoreTyped
<1> QED
  BY <1>1 DEF Write

LEMMA WriteLearns ==
    ASSUME StoreTyped, VersionLag, pc # "down",
           NEW kind \in Kinds, NEW v, NEW ss \in SUBSET Svcs, Write(kind, v, ss),
           kind = "svc" => \A s \in Svcs :
               /\ v[s] # api.svc[s]
               /\ ServiceMatches(api.svc[s]) \/ ServiceMatches(v[s])
               => s \in ss,
           kind = "lb" => \A s \in Svcs : v[s] # api.lb[s] => s \in ss,
           kind = "node" => Matching(cache) \subseteq ss
    PROVE  Learns /\ VersionLag'
<1>1. api'[kind] = v /\ \A k \in Kinds \ {kind} : api'[k] = api[k]
  BY WriteChanges
<1>2. wakes \in [Lagging -> SUBSET Svcs]
  BY DEF StoreTyped
<1>3. \A s \in Svcs : Woken(s) \/ s \in ss => Woken(s)'
  BY <1>2 DEF Write, Woken
<1>4. /\ kind # "svc" => api'.svc = api.svc
      /\ kind # "lb" => api'.lb = api.lb
      /\ kind # "node" => api'.node = api.node
  BY <1>1 DEF Kinds
<1>5. Learns
  BY <1>1, <1>3, <1>4 DEF Learns, Matching
<1>6. \A k \in Kinds \cap Lagging :
         /\ cache'[k] = cache[k] /\ wakes[k] \subseteq wakes'[k]
         /\ k = kind => ss \subseteq wakes'[k]
  <2>1. DOMAIN cache = Kinds
    BY StoreKinds DEF StoreTyped
  <2> QED
    BY <1>2, <2>1 DEF Write
<1>7. VersionLag'
  <2> SUFFICES ASSUME NEW s \in Svcs
               PROVE  /\ /\ "svc" \in Lagging
                         /\ cache'.svc[s] # api'.svc[s]
                         /\ \/ ServiceMatches(cache'.svc[s])
                            \/ ServiceMatches(api'.svc[s])
                         => s \in wakes'["svc"]
                      /\ "lb" \in Lagging /\ cache'.lb[s] # api'.lb[s] =>
                            s \in wakes'["lb"]
    BY DEF VersionLag
  <2>1. "lb" \in Lagging /\ cache'.lb[s] # api'.lb[s] => s \in wakes'["lb"]
    BY <1>1, <1>4, <1>6 DEF VersionLag, Kinds
  <2>2. ASSUME "svc" \in Lagging, cache'.svc[s] # api'.svc[s],
               ServiceMatches(cache'.svc[s]) \/ ServiceMatches(api'.svc[s])
        PROVE  s \in wakes'["svc"]
    <3>1. cache'.svc = cache.svc /\ wakes["svc"] \subseteq wakes'["svc"]
      BY <1>6, <2>2 DEF Kinds
    <3>2. CASE api'.svc[s] = api.svc[s]
      BY <2>2, <3>1, <3>2 DEF VersionLag
    <3>3. CASE api'.svc[s] # api.svc[s]
      <4>1. kind = "svc" /\ v = api'.svc /\ ss \subseteq wakes'["svc"]
        BY <1>1, <1>4, <1>6, <2>2, <3>3 DEF Kinds
      <4>2. CASE ServiceMatches(api.svc[s]) \/ ServiceMatches(api'.svc[s])
        BY <3>3, <4>1, <4>2
      <4>3. CASE ~ServiceMatches(api.svc[s]) /\ ~ServiceMatches(api'.svc[s])
        <5>1. cache.svc[s] # api.svc[s] /\ ServiceMatches(cache.svc[s])
          BY <2>2, <3>1, <4>3
        <5> QED
          BY <2>2, <3>1, <5>1 DEF VersionLag
      <4> QED
        BY <4>2, <4>3
    <3> QED
      BY <3>2, <3>3
  <2> QED
    BY <2>1, <2>2
<1> QED
  BY <1>5, <1>7

LEMMA NoWriteLearns ==
    ASSUME StoreTyped, VersionLag, UNCHANGED <<api, cache, wakes>>,
           queue \subseteq queue', pc # "down"
    PROVE  Learns /\ VersionLag'
<1>1. \A s \in Svcs : Woken(s) => Woken(s)'
  BY DEF Woken
<1> QED
  BY <1>1 DEF Learns, VersionLag

LEMMA ServiceWriteLearns ==
    ASSUME StoreTyped, VersionLag, pc # "down",
           NEW s \in Svcs, NEW svc, WriteService(s, svc)
    PROVE  Learns /\ VersionLag'
<1> DEFINE new == [api.svc EXCEPT ![s] = svc]
           ss == IF ServiceMatches(api.svc[s]) \/ ServiceMatches(svc)
                 THEN {s} ELSE {}
<1>1. DOMAIN api.svc = Svcs
  BY StoreFields, ValuesOfKinds DEF StoreTyped
<1>2. \A t \in Svcs : new[t] = IF t = s THEN svc ELSE api.svc[t]
  BY <1>1
<1>3. Write("svc", new, ss) /\ "svc" \in Kinds /\ ss \in SUBSET Svcs
  BY DEF WriteService, Kinds
<1>4. \A t \in Svcs :
         /\ new[t] # api.svc[t]
         /\ ServiceMatches(api.svc[t]) \/ ServiceMatches(new[t])
         => t \in ss
  BY <1>2
<1> HIDE DEF new, ss
<1> QED
  BY <1>3, <1>4, WriteLearns

(* A child is written, and its kind's children of other Services are not.  *)
LEMMA ChildWriteLearns ==
    ASSUME StoreTyped, VersionLag, pc # "down",
           NEW kind \in ChildKinds, NEW s \in Svcs, NEW slot \in Slots(kind),
           NEW child, WriteChild(kind, s, slot, child)
    PROVE  /\ Learns /\ VersionLag'
           /\ api'.svc = api.svc /\ api'.node = api.node
           /\ \A k \in ChildKinds : \A t \in Svcs, other \in Slots(k) :
                 IF k = kind /\ t = s /\ other = slot
                 THEN api'[k][t][other] = child
                 ELSE api'[k][t][other] = api[k][t][other]
           /\ kind = "lb" => Woken(s)'
<1> DEFINE new == [api[kind] EXCEPT ![s][slot] = child]
           ss == IF kind = "lb" THEN {s} ELSE {}
           T == [Slots(kind) -> ChildSet(kind) \cup {Absent}]
<1>1. kind \in Kinds /\ kind \notin {"svc", "node"} /\ ChildKinds \subseteq Kinds
  BY DEF Kinds, ChildKinds
<1>2. api[kind] \in [Svcs -> T]
  BY <1>1, ChildValues, StoreKinds DEF StoreTyped
<1>3. \A t \in Svcs : t # s => new[t] = api[kind][t]
  <2> HIDE DEF T
  <2> QED
    BY <1>2
<1>4. \A t \in Svcs, other \in Slots(kind) :
         new[t][other] = IF t = s /\ other = slot THEN child ELSE api[kind][t][other]
  BY <1>2
<1>5. Write(kind, new, ss) /\ ss \in SUBSET Svcs /\ (kind = "lb" => s \in ss)
  BY DEF WriteChild
<1>6. kind = "lb" => \A t \in Svcs : new[t] # api.lb[t] => t \in ss
  BY <1>3
<1>7. kind = "lb" => Woken(s)'
  BY <1>5 DEF Write, Woken, StoreTyped
<1> HIDE DEF new, ss
<1>8. Learns /\ VersionLag'
  BY <1>1, <1>5, <1>6, WriteLearns
<1>9. api'[kind] = new /\ \A k \in Kinds \ {kind} : api'[k] = api[k]
  BY <1>1, <1>5, WriteChanges
<1>10. api'.svc = api.svc /\ api'.node = api.node
  BY <1>1, <1>9 DEF Kinds
<1> QED
  BY <1>1, <1>4, <1>7, <1>8, <1>9, <1>10

(* What a Reconcile of the Service depends on is as it was.                *)
Same(s) ==
    /\ api'.svc[s] = api.svc[s]
    /\ api'.lb[s] = api.lb[s]
    /\ api'.node = api.node
    /\ cache'.node = cache.node

(* The caches show what there is of the Service.                           *)
Seen(s) ==
    /\ cache.svc[s] = api.svc[s]
    /\ \A kind \in ChildKinds : Reliable(kind) => cache[kind][s] = api[kind][s]
    /\ cache.node = api.node

LEMMA UnheardSeen ==
    ASSUME CacheFresh, VersionLag, pc # "down", NEW s \in Svcs,
           ServiceMatches(api.svc[s]), \A kind \in Lagging : s \notin wakes[kind]
    PROVE  Seen(s)
<1>1. \A k \in Kinds \ Lagging : cache[k] = api[k]
  BY DEF CacheFresh
<1>2. /\ "svc" \in Lagging => s \notin wakes["svc"]
      /\ "lb" \in Lagging => s \notin wakes["lb"]
  OBVIOUS
<1>3. cache.svc[s] = api.svc[s]
  BY <1>1, <1>2 DEF VersionLag, Kinds
<1>4. cache.lb[s] = api.lb[s]
  BY <1>1, <1>2 DEF VersionLag, Kinds
<1>5. cache.node = api.node
  BY <1>1, ControllerAssumption DEF Kinds, ChildKinds
<1>6. ASSUME NEW kind \in ChildKinds, Reliable(kind)
      PROVE  cache[kind][s] = api[kind][s]
  BY <1>1, <1>4, <1>6 DEF Reliable, ChildKinds, Kinds
<1> QED
  BY <1>3, <1>5, <1>6 DEF Seen

LEMMA QuietSeen ==
    ASSUME CacheFresh, VersionLag, pc # "down", NEW s \in Svcs, Quiet(s)
    PROVE  Seen(s)
BY UnheardSeen DEF Quiet, Woken

LEMMA QuietBefore ==
    ASSUME CacheFresh, CacheFresh', VersionLag, pc # "down", pc' # "down",
           Learns, NEW s \in Svcs, Quiet(s)'
    PROVE  Quiet(s) /\ Same(s) /\ Seen(s)
<1>1. ~Woken(s)' /\ ServiceMatches(api'.svc[s])
  BY DEF Quiet
<1>2. ~Woken(s) /\ api'.svc[s] = api.svc[s] /\ api'.lb[s] = api.lb[s]
  BY <1>1 DEF Learns
<1>3. Quiet(s)
  BY <1>1, <1>2 DEF Quiet
<1>4. Seen(s)
  BY <1>3, QuietSeen
<1>5. s \in Matching(cache)
  BY <1>3, <1>4 DEF Quiet, Seen, Matching
<1>6. api'.node = api.node
  BY <1>1, <1>5 DEF Learns
<1>7. cache'.node = api'.node
  BY ControllerAssumption DEF CacheFresh, Kinds, ChildKinds
<1> QED
  BY <1>2, <1>3, <1>4, <1>6, <1>7 DEF Same, Seen

LEMMA WantSame ==
    ASSUME NEW s, Same(s)
    PROVE  /\ \A kind \in ChildKinds : WantOf(kind, s)' = WantOf(kind, s)
           /\ nodePublicIPs' = nodePublicIPs
           /\ \A spec : lbPortNodes(spec)' = lbPortNodes(spec)
<1>1. \A spec : lbPortNodes(spec)' = lbPortNodes(spec)
  BY DEF Same, lbPortNodes
<1>2. \A spec : BuildLBPorts(spec)' = BuildLBPorts(spec)
  BY <1>1 DEF BuildLBPorts
<1>3. \A spec : BuildDNSRecords(spec)' = BuildDNSRecords(spec)
  BY DEF Same, BuildDNSRecords, Targets
<1>4. \A kind \in ChildKinds : WantOf(kind, s)' = WantOf(kind, s)
  BY <1>2, <1>3 DEF Same, WantOf, ChildKinds, BuildDaemonSet
<1>5. nodePublicIPs' = nodePublicIPs
  BY DEF Same, nodePublicIPs
<1> QED
  BY <1>1, <1>4, <1>5

(* The stages of the scripts, and which of them deal with which children.  *)
LEMMA ScriptOfStage ==
    ASSUME NEW sc \in Applying \cup Cleaning
    PROVE  /\ Head(sc) = "ds" <=> sc = Apply5
           /\ Head(sc) = "lb" <=> sc = Apply4
           /\ Head(sc) = "prune" <=> sc = Apply3
           /\ Head(sc) = "dns" <=> sc = Apply2
           /\ Head(sc) = "-ds" <=> sc = Clean3
           /\ Head(sc) = "-lb" <=> sc = Clean2
           /\ Head(sc) = "-dns" <=> sc = Clean1
           /\ Head(sc) = "status" <=> sc \in {Apply1, Clean4}
BY ScriptHeads DEF Applying, Cleaning

LEMMA AllScriptsDiffer ==
    /\ Apply5 \notin {Apply4, Apply3, Apply2, Apply1, Clean4, Clean3, Clean2, Clean1}
    /\ Apply4 \notin {Apply3, Apply2, Apply1, Clean4, Clean3, Clean2, Clean1}
    /\ Apply3 \notin {Apply2, Apply1, Clean4, Clean3, Clean2, Clean1}
    /\ Apply2 \notin {Apply1, Clean4, Clean3, Clean2, Clean1}
    /\ Apply1 \notin {Clean4, Clean3, Clean2, Clean1}
    /\ Clean4 \notin {Clean3, Clean2, Clean1}
    /\ Clean3 \notin {Clean2, Clean1}
    /\ Clean2 # Clean1
BY ScriptHeads, ScriptsDiffer DEF Applying, Cleaning

(* Every script deals with the children of a kind in exactly one stage,    *)
(* before which it has done nothing about them and after which it is done. *)
LEMMA StageOfKind ==
    ASSUME NEW kind \in ChildKinds, NEW sc \in Applying \cup Cleaning
    PROVE  /\ sc = ApplyNow(kind) => Head(sc) \in {"ds", "lb", "dns"}
           /\ sc = CleanNow(kind) => Head(sc) \in {"-ds", "-lb", "-dns"}
           /\ sc \in {ApplyNow(kind), CleanNow(kind)} => StageKind(Head(sc)) = kind
           /\ Head(sc) \in {"ds", "lb", "dns"} /\ StageKind(Head(sc)) = kind =>
                 sc = ApplyNow(kind)
           /\ Head(sc) \in {"-ds", "-lb", "-dns"} /\ StageKind(Head(sc)) = kind =>
                 sc = CleanNow(kind)
           /\ sc = ApplyNow(kind) => sc \in Applying /\ sc \notin ApplyDone(kind)
           /\ sc = CleanNow(kind) => sc \in Cleaning /\ sc \notin CleanDone(kind)
           /\ sc \in ApplyDone(kind) => sc \in Applying
           /\ sc \in CleanDone(kind) => sc \in Cleaning
<1>1. CASE kind = "ds"
  BY <1>1, ScriptHeads, AllScriptsDiffer, KindsOfStages
     DEF ApplyNow, ApplyDone, CleanNow, CleanDone, Applying, Cleaning
<1>2. CASE kind = "lb"
  BY <1>2, ScriptHeads, AllScriptsDiffer, KindsOfStages
     DEF ApplyNow, ApplyDone, CleanNow, CleanDone, Applying, Cleaning
<1>3. CASE kind = "dns"
  BY <1>3, ScriptHeads, AllScriptsDiffer, KindsOfStages
     DEF ApplyNow, ApplyDone, CleanNow, CleanDone, Applying, Cleaning
<1> QED
  BY <1>1, <1>2, <1>3 DEF ChildKinds

-----------------------------------------------------------------------------
(* Steps that have nothing to do with a Service, or with the children of a *)
(* kind.                                                                   *)

ChildrenSame(kind, s) ==
    \A slot \in Slots(kind) : api'[kind][s][slot] = api[kind][s][slot]

LEMMA ProgressSame ==
    ASSUME NEW s \in Svcs, NEW kind \in ChildKinds, Same(s),
           ChildrenSame(kind, s), Progress(kind, s),
           Running(s)' <=> Running(s),
           Running(s) => script' = script,
           Running(s) /\ script \in {ApplyNow(kind), CleanNow(kind)} =>
               /\ job'.want = job.want /\ job'.todo = job.todo
               /\ job'.stale = job.stale /\ job'.listed = job.listed
    PROVE  Progress(kind, s)'
<1>1. WantOf(kind, s)' = WantOf(kind, s)
  BY WantSame
<1>2. AsWanted(kind, s) => AsWanted(kind, s)'
  BY <1>1 DEF AsWanted, ChildrenSame
<1>3. NoneLeft(kind, s) => NoneLeft(kind, s)'
  BY DEF NoneLeft, ChildrenSame
<1>4. Running(s) /\ script = ApplyNow(kind) /\ PutSoFar(kind, s) =>
          PutSoFar(kind, s)'
  BY <1>1 DEF PutSoFar, ChildrenSame
<1>5. Running(s) /\ script = CleanNow(kind) /\ DeletedSoFar(kind, s) =>
          DeletedSoFar(kind, s)'
  BY DEF DeletedSoFar, ChildrenSame
<1>6. api'.svc[s] = api.svc[s]
  BY DEF Same
<1>7. CASE Running(s)
  BY <1>2, <1>3, <1>4, <1>5, <1>7 DEF Progress, Reliable
<1>8. CASE ~Running(s)
  BY <1>2, <1>3, <1>6, <1>8 DEF Progress, Reliable
<1> QED
  BY <1>7, <1>8

LEMMA PrunedSame ==
    ASSUME NEW s \in Svcs, Same(s), PrunedSoFar(s),
           Running(s)' <=> Running(s),
           Running(s) => script' = script,
           Running(s) /\ script = Apply3 => job'.todo = job.todo
    PROVE  PrunedSoFar(s)'
<1>1. \A p : AppliedThere(s, p)' <=> AppliedThere(s, p)
  BY DEF AppliedThere, Same
<1> QED
  BY <1>1 DEF PrunedSoFar, Same

LEMMA Bystander ==
    ASSUME NEW s \in Svcs, Same(s), Told(s),
           \A kind \in ChildKinds : ChildrenSame(kind, s),
           Running(s)' <=> Running(s),
           Running(s) => UNCHANGED <<job, script>>,
           NoCallFailed' => NoCallFailed
    PROVE  Told(s)'
<1>1. /\ \A kind \in ChildKinds : WantOf(kind, s)' = WantOf(kind, s)
      /\ nodePublicIPs' = nodePublicIPs
      /\ api'.svc[s] = api.svc[s]
  BY WantSame DEF Same
<1>2. KnowsService(s)'
  BY <1>1 DEF Told, KnowsService, ChildKinds
<1>3. AddressesTold(s)'
  BY <1>1 DEF Told, AddressesTold
<1>4. ASSUME NEW kind \in ChildKinds, Writes(kind) PROVE Progress(kind, s)'
  <2>1. Progress(kind, s)
    BY <1>4 DEF Told
  <2> QED
    BY <1>4, <2>1, ProgressSame
<1>5. NoCallFailed' => PrunedSoFar(s)'
  BY PrunedSame DEF Told
<1> QED
  BY <1>2, <1>3, <1>4, <1>5 DEF Told, Writes, Reliable

LEMMA HoldsSame ==
    ASSUME NEW s \in Svcs, Same(s), Quiet(s), Holds(s)',
           Running(s)' <=> Running(s),
           Running(s) => job'.cond = job.cond
    PROVE  Holds(s)
BY DEF Holds, Same

(* What is known of a Service stays true, as long as it is quiet, and none *)
(* comes to hold its ports.                                                *)
KeepsWord(s) == Quiet(s)' => Told(s)' /\ (Holds(s)' => Holds(s))

LEMMA BystanderKeepsWord ==
    ASSUME ControllerInv, ControllerInv', StatusInv, pc # "down", pc' # "down",
           Learns, NoCallFailed' => NoCallFailed, NEW s \in Svcs,
           \A kind \in ChildKinds : ChildrenSame(kind, s),
           Running(s)' <=> Running(s),
           Running(s) => UNCHANGED <<job, script>>
    PROVE  KeepsWord(s)
<1> SUFFICES ASSUME Quiet(s)' PROVE Told(s)' /\ (Holds(s)' => Holds(s))
  BY DEF KeepsWord
<1>1. Quiet(s) /\ Same(s)
  BY QuietBefore DEF ControllerInv, StatusInv
<1>2. Told(s)
  BY <1>1 DEF StatusInv
<1> QED
  BY <1>1, <1>2, Bystander, HoldsSame

-----------------------------------------------------------------------------
(* A step of a Reconcile within a stage.                                   *)

StaysInStage ==
    /\ pc = "busy"
    /\ UNCHANGED <<pc, script>>
    /\ job'.s = job.s /\ job'.svc = job.svc /\ job'.cond = job.cond
    /\ job'.mode = job.mode /\ job'.lbports = job.lbports
    /\ job'.want = job.want /\ job'.ips = job.ips

LEMMA FitsInStage ==
    ASSUME VerdictFitsScript, StaysInStage
    PROVE  VerdictFitsScript'
BY DEF VerdictFitsScript, StaysInStage

(* It concerns the children of one kind only.                              *)
LEMMA KeepsWordInStage ==
    ASSUME ControllerInv, ControllerInv', StatusInv, StaysInStage, Learns,
           NoCallFailed' => NoCallFailed, NEW s \in Svcs,
           NEW kind \in ChildKinds, kind = StageKind(Stage), Stage # "status",
           \A k \in ChildKinds : s # job.s \/ k # kind => ChildrenSame(k, s),
           ASSUME s = job.s, Quiet(s), Same(s), Seen(s), Told(s), Writes(kind),
                  Quiet(s)'
           PROVE  Progress(kind, s)',
           ASSUME s = job.s, Quiet(s), Same(s), Seen(s), Told(s), NoCallFailed',
                  Quiet(s)'
           PROVE  PrunedSoFar(s)'
    PROVE  KeepsWord(s)
<1>0. pc # "down" /\ pc' # "down" /\ pc = "busy"
  BY DEF StaysInStage
<1>1. CASE s # job.s
  <2>1. ~Running(s) /\ ~Running(s)'
    BY <1>1 DEF Running, StaysInStage
  <2> QED
    BY <1>0, <1>1, <2>1, BystanderKeepsWord
<1>2. CASE s = job.s
  <2> SUFFICES ASSUME Quiet(s)' PROVE Told(s)' /\ (Holds(s)' => Holds(s))
    BY DEF KeepsWord
  <2>1. Quiet(s) /\ Same(s) /\ Seen(s)
    BY <1>0, QuietBefore DEF ControllerInv, StatusInv
  <2>2. Told(s)
    BY <1>0, <2>1 DEF StatusInv
  <2>3. Running(s) /\ Running(s)'
    BY <1>2 DEF Running, StaysInStage
  <2>4. /\ \A k \in ChildKinds : WantOf(k, s)' = WantOf(k, s)
        /\ nodePublicIPs' = nodePublicIPs
        /\ api'.svc[s] = api.svc[s]
    BY <2>1, WantSame DEF Same
  <2>5. KnowsService(s)'
    BY <2>2, <2>3, <2>4 DEF Told, KnowsService, StaysInStage, ChildKinds
  <2>6. AddressesTold(s)'
    BY <2>3 DEF AddressesTold
  <2>7. ASSUME NEW k \in ChildKinds, Writes(k) PROVE Progress(k, s)'
    <3>1. CASE k = kind
      BY <1>2, <2>1, <2>2, <2>7, <3>1
    <3>2. CASE k # kind
      <4>1. script \notin {ApplyNow(k), CleanNow(k)}
        BY <1>0, <2>7, <3>2, JobFacts, StageOfKind DEF Stage
      <4>2. Progress(k, s)
        BY <2>2, <2>7 DEF Told
      <4>3. ChildrenSame(k, s)
        BY <3>2
      <4>4. script' = script
        BY DEF StaysInStage
      <4> QED
        BY <2>1, <2>3, <4>1, <4>2, <4>3, <4>4, ProgressSame
    <3> QED
      BY <3>1, <3>2
  <2>8. NoCallFailed' => PrunedSoFar(s)'
    BY <1>2, <2>1, <2>2
  <2>9. Told(s)'
    BY <2>5, <2>6, <2>7, <2>8 DEF Told, Writes, Reliable
  <2> QED
    BY <2>1, <2>3, <2>9, HoldsSame DEF StaysInStage
<1> QED
  BY <1>1, <1>2

LEMMA PutKeepsWord ==
    ASSUME ControllerInv, ControllerInv', StatusInv, NEW slot, PutChild(slot)
    PROVE  Learns /\ VersionLag' /\ VerdictFitsScript' /\ \A s \in Svcs : KeepsWord(s)
<1>1. /\ pc = "busy" /\ Stage \in {"ds", "lb", "dns"} /\ slot \in job.todo
      /\ UNCHANGED <<pc, script, budget>>
  BY DEF PutChild, At
<1>2. /\ StoreTyped /\ job \in Job /\ job.s \in Svcs
      /\ script \in Applying \cup Cleaning /\ Stage \in Stages
      /\ WantFits(Stage, job)
  BY <1>1, JobFacts
<1>0. PICK kind \in ChildKinds : kind = StageKind(Stage)
  BY <1>1, <1>2, KindsOfStages
<1>3. /\ kind \in ChildKinds /\ kind = Stage
      /\ job.want \in [Slots(kind) -> ChildSet(kind) \cup {Absent}]
  BY <1>0, <1>1, <1>2, KindsOfStages
     DEF WantFits, DSWants, LBWants, DNSWants, ChildSet, ChildKinds
<1>4. slot \in Slots(kind) /\ job.want[slot] # Absent
  BY <1>1, <1>2, <1>3 DEF WantFits, Present
<1>5. script = ApplyNow(kind) /\ script \in Applying
  BY <1>0, <1>1, <1>2, <1>3, StageOfKind DEF Stage
<1>6. /\ StaysInStage
      /\ job'.todo = job.todo \ {slot} /\ job'.stale = job.stale
      /\ job'.listed = job.listed
  BY <1>1, <1>2 DEF PutChild, Job, StaysInStage
<1>7. VerdictFitsScript'
  BY <1>6, FitsInStage DEF StatusInv
<1>8. NoCallFailed' => NoCallFailed
  BY <1>1 DEF NoCallFailed
<1> DEFINE child == IF Stage = "lb" /\ Actual(slot) # Absent
                    THEN [Actual(slot) EXCEPT !.nodes = job.want[slot].nodes]
                    ELSE job.want[slot]
<1>9. /\ Learns /\ VersionLag'
      /\ \A k \in ChildKinds : \A t \in Svcs, other \in Slots(k) :
            ~(k = kind /\ t = job.s /\ other = slot) =>
                api'[k][t][other] = api[k][t][other]
      /\ \/ UpToDate(slot) /\ api' = api
         \/ /\ \A t \in Svcs : t = job.s /\ kind = "lb" => Woken(t)'
            /\ kind # "lb" => api'[kind][job.s][slot] = job.want[slot]
  <2>1. CASE UpToDate(slot) /\ NoWrite
    <3>1. Learns /\ VersionLag'
      BY <1>1, <1>2, <2>1, NoWriteLearns DEF StatusInv, NoWrite
    <3> QED
      BY <2>1, <3>1 DEF NoWrite
  <2>2. CASE ~(UpToDate(slot) /\ NoWrite)
    <3>1. WriteChild(kind, job.s, slot, child)
      BY <1>0, <2>2 DEF PutChild
    <3>2. kind # "lb" => child = job.want[slot]
      BY <1>3
    <3> HIDE DEF child
    <3>3. pc # "down" /\ VersionLag
      BY <1>1 DEF StatusInv
    <3>4. /\ Learns /\ VersionLag'
          /\ \A k \in ChildKinds : \A t \in Svcs, other \in Slots(k) :
                IF k = kind /\ t = job.s /\ other = slot
                THEN api'[k][t][other] = child
                ELSE api'[k][t][other] = api[k][t][other]
      BY <1>2, <1>3, <1>4, <3>1, <3>3, ChildWriteLearns
    <3>5. ASSUME NEW t \in Svcs, t = job.s, kind = "lb" PROVE Woken(t)'
      BY <1>2, <1>3, <1>4, <3>1, <3>3, <3>5, ChildWriteLearns
    <3> QED
      BY <1>2, <1>3, <1>4, <3>2, <3>4, <3>5
  <2> QED
    BY <2>1, <2>2
<1> HIDE DEF child
<1>10. ASSUME NEW s \in Svcs, NEW k \in ChildKinds, s # job.s \/ k # kind
       PROVE  ChildrenSame(k, s)
  BY <1>9, <1>10 DEF ChildrenSame
<1>11. ASSUME NEW s \in Svcs, s = job.s, Quiet(s), Same(s), Seen(s), Told(s),
              Writes(kind), Quiet(s)'
       PROVE  Progress(kind, s)'
  <2>1. Running(s) /\ Running(s)' /\ script' = script
    BY <1>1, <1>6, <1>11 DEF Running, StaysInStage
  <2>2. PutSoFar(kind, s)
    BY <1>3, <1>5, <1>11, <2>1 DEF Told, Progress
  <2>3. SameSpec(kind, api'[kind][s][slot], job.want[slot])
    <3>1. CASE UpToDate(slot) /\ api' = api
      <4>1. SameSpec(kind, cache[kind][s][slot], job.want[slot])
        BY <1>0, <1>11, <3>1 DEF UpToDate, Cached
      <4>2. cache[kind][s] = api[kind][s]
        BY <1>3, <1>11, <3>1 DEF Seen, UpToDate, Writes
      <4> QED
        BY <3>1, <4>1, <4>2
    <3>2. CASE ~(UpToDate(slot) /\ api' = api)
      <4>1. kind # "lb"
        BY <1>9, <1>11, <3>2 DEF Quiet
      <4>2. api'[kind][s][slot] = job.want[slot]
        BY <1>9, <1>11, <3>2, <4>1
      <4> QED
        BY <4>1, <4>2 DEF SameSpec
    <3> QED
      BY <3>1, <3>2
  <2>4. WantOf(kind, s)' = WantOf(kind, s) /\ job'.want = job.want
    BY <1>3, <1>6, <1>11, WantSame DEF StaysInStage
  <2>5. \A other \in Slots(kind) : other # slot =>
            api'[kind][s][other] = api[kind][s][other]
    BY <1>3, <1>9
  <2>6. PutSoFar(kind, s)'
    BY <1>4, <1>6, <2>2, <2>3, <2>4, <2>5 DEF PutSoFar
  <2>7. /\ script # CleanNow(kind) /\ script \notin ApplyDone(kind)
        /\ script \notin CleanDone(kind)
    BY <1>2, <1>3, <1>5, StageOfKind, ScriptsDiffer
  <2> QED
    BY <2>1, <2>6, <2>7 DEF Progress
<1>12. ASSUME NEW s \in Svcs, s = job.s, Quiet(s), Same(s), Seen(s), Told(s),
              NoCallFailed', Quiet(s)'
       PROVE  PrunedSoFar(s)'
  <2>1. Running(s) /\ Running(s)' /\ script' = script
    BY <1>1, <1>6, <1>12 DEF Running, StaysInStage
  <2>2. script # Apply3
    BY <1>1, <1>2, ScriptOfStage DEF Stage
  <2> QED
    BY <1>8, <1>12, <2>1, <2>2, PrunedSame DEF Told
<1>13. ASSUME NEW s \in Svcs PROVE KeepsWord(s)
  <2>1. kind = StageKind(Stage) /\ Stage # "status"
    BY <1>0, <1>1
  <2> QED
    BY <1>3, <1>6, <1>8, <1>9, <1>10, <1>11, <1>12, <2>1, KeepsWordInStage
<1> QED
  BY <1>7, <1>9, <1>13

LEMMA ListKeepsWord ==
    ASSUME ControllerInv, ControllerInv', StatusInv, ListStale
    PROVE  Learns /\ VersionLag' /\ VerdictFitsScript' /\ \A s \in Svcs : KeepsWord(s)
<1>1. /\ pc = "busy" /\ Stage \in {"ds", "lb", "dns", "-ds", "-lb", "-dns"}
      /\ UNCHANGED <<api, cache, wakes, queue, pc, script, budget>>
      /\ job.todo = {}
  BY DEF ListStale, At
<1>2. /\ StoreTyped /\ job \in Job /\ job.s \in Svcs
      /\ script \in Applying \cup Cleaning /\ Stage \in Stages
      /\ WantFits(Stage, job)
  BY <1>1, JobFacts
<1>3. PICK kind \in ChildKinds : kind = StageKind(Stage)
  BY <1>1, <1>2, KindsOfStages
<1> DEFINE children == cache[kind][job.s]
           unwanted == Present(children) \ Present(job.want)
           kept == IF Stage = "-ds" /\ job.mode = "keep"
                   THEN {slot \in unwanted : children[slot].keep} ELSE {}
<1>4. job' = [job EXCEPT !.listed = TRUE, !.stale = unwanted \ kept]
  BY <1>3 DEF ListStale
<1>5. DOMAIN children = Slots(kind)
  <2>1. cache[kind] \in [Svcs -> [Slots(kind) -> ChildSet(kind) \cup {Absent}]]
    BY <1>2, ChildValues, StoreKinds DEF StoreTyped
  <2> QED
    BY <1>2, <2>1
<1>6. /\ StaysInStage /\ job'.listed = TRUE /\ job'.todo = job.todo
      /\ job'.stale = unwanted \ kept
  <2> HIDE DEF unwanted, kept
  <2> QED
    BY <1>1, <1>2, <1>4 DEF Job, StaysInStage
<1>7. /\ Learns /\ VersionLag' /\ VerdictFitsScript'
      /\ NoCallFailed' => NoCallFailed
      /\ \A s \in Svcs, k \in ChildKinds : ChildrenSame(k, s)
  BY <1>1, <1>2, <1>6, NoWriteLearns, FitsInStage
     DEF StatusInv, NoCallFailed, ChildrenSame
<1>8. ASSUME NEW s \in Svcs, s = job.s, Quiet(s), Same(s), Seen(s), Told(s),
             Writes(kind), Quiet(s)'
      PROVE  Progress(kind, s)'
  <2>1. Running(s) /\ Running(s)' /\ script' = script
    BY <1>1, <1>6, <1>8 DEF Running, StaysInStage
  <2>2. Reliable(kind) => children = api[kind][s]
    BY <1>8 DEF Seen
  <2>3. kept = {}
    BY <1>1, <1>8, <2>1 DEF Told, KnowsService, StatusInv, VerdictFitsScript
  <2>4. /\ \A slot \in job'.stale : slot \in Slots(kind) /\ slot \notin Present(job.want)
        /\ Reliable(kind) => \A slot \in Slots(kind) :
              api[kind][s][slot] # Absent /\ slot \notin Present(job.want) =>
                  slot \in job'.stale
    BY <1>5, <1>6, <2>2, <2>3 DEF Present
  <2> HIDE DEF children, unwanted, kept
  <2>6. CASE script = ApplyNow(kind)
    <3>1. PutSoFar(kind, s) /\ Stage \in {"ds", "lb", "dns"}
      BY <1>2, <1>8, <2>1, <2>6, StageOfKind DEF Told, Progress, Stage
    <3>2. DOMAIN job.want = Slots(kind)
      BY <1>2, <1>3, <3>1, KindsOfStages DEF WantFits, DSWants, LBWants, DNSWants
    <3>3. WantOf(kind, s)' = WantOf(kind, s) /\ job'.want = job.want
      BY <1>6, <1>8, WantSame DEF StaysInStage
    <3>4. \A slot \in Slots(kind) : slot \in Present(job.want) <=> job.want[slot] # Absent
      BY <3>2 DEF Present
    <3>5. ASSUME ~Reliable(kind), NEW slot \in Slots(kind)
          PROVE  job.want[slot] # Absent
      <4>1. kind = "ds" /\ job.want = BuildDaemonSet(api.svc[s].spec)
        BY <1>8, <3>1, <3>5 DEF Writes, PutSoFar, WantOf
      <4>2. api.svc[s] \in Service
        BY <1>2, <1>8, StoreFields, ValuesOfKinds
           DEF Quiet, ServiceMatches, StoreTyped
      <4>3. job.want[slot] \in DaemonSet
        BY <3>5, <4>1, <4>2, ControllerAssumption
           DEF BuildDaemonSet, DaemonSet, Service, ServiceSpec
      <4> QED
        BY <4>3, AbsentAssumption
    <3>6. PutSoFar(kind, s)'
      BY <1>1, <1>6, <2>4, <3>1, <3>3, <3>4, <3>5 DEF PutSoFar
    <3>7. /\ script # CleanNow(kind) /\ script \notin ApplyDone(kind)
          /\ script \notin CleanDone(kind)
      BY <1>2, <2>6, StageOfKind, ScriptsDiffer
    <3> QED
      BY <2>1, <3>6, <3>7 DEF Progress
  <2>7. CASE script = CleanNow(kind)
    <3>1. Stage \in {"-ds", "-lb", "-dns"}
      BY <1>2, <2>7, StageOfKind DEF Stage
    <3>2. Present(job.want) = {}
      BY <1>2, <3>1, PresentIn DEF WantFits
    <3>3. Reliable(kind) => DeletedSoFar(kind, s)'
      BY <1>1, <1>6, <2>4, <3>2 DEF DeletedSoFar
    <3>4. /\ script # ApplyNow(kind) /\ script \notin ApplyDone(kind)
          /\ script \notin CleanDone(kind)
      BY <1>2, <2>7, StageOfKind, ScriptsDiffer
    <3> QED
      BY <2>1, <3>3, <3>4 DEF Progress, Reliable
  <2> QED
    BY <1>1, <1>2, <1>3, <2>6, <2>7, StageOfKind DEF Stage
<1>9. ASSUME NEW s \in Svcs, s = job.s, Quiet(s), Same(s), Seen(s), Told(s),
             NoCallFailed', Quiet(s)'
      PROVE  PrunedSoFar(s)'
  <2>1. Running(s) /\ Running(s)' /\ script' = script
    BY <1>1, <1>6, <1>9 DEF Running, StaysInStage
  <2> QED
    BY <1>6, <1>7, <1>9, <2>1, PrunedSame DEF Told
<1> HIDE DEF children, unwanted, kept
<1>10. ASSUME NEW s \in Svcs PROVE KeepsWord(s)
  BY <1>1, <1>3, <1>6, <1>7, <1>8, <1>9, KeepsWordInStage
<1> QED
  BY <1>7, <1>10

LEMMA DeleteKeepsWord ==
    ASSUME ControllerInv, ControllerInv', StatusInv, NEW slot, DeleteChild(slot)
    PROVE  Learns /\ VersionLag' /\ VerdictFitsScript' /\ \A s \in Svcs : KeepsWord(s)
<1>1. /\ pc = "busy" /\ slot \in job.stale
      /\ UNCHANGED <<pc, script, budget>>
  BY DEF DeleteChild
<1>2. /\ StoreTyped /\ job \in Job /\ job.s \in Svcs
      /\ script \in Applying \cup Cleaning /\ Stage \in Stages
      /\ WantFits(Stage, job)
  BY <1>1, JobFacts
<1>3. Stage \in {"ds", "lb", "dns", "-ds", "-lb", "-dns"}
  BY <1>1, <1>2 DEF WantFits, Stages
<1>4. PICK kind \in ChildKinds : kind = StageKind(Stage)
  BY <1>2, <1>3, KindsOfStages
<1>5. slot \in Slots(kind)
  BY <1>1, <1>2, <1>3, <1>4 DEF WantFits
<1>6. /\ StaysInStage /\ job'.listed = job.listed /\ job'.todo = job.todo
      /\ job'.stale = job.stale \ {slot}
  BY <1>1, <1>2 DEF DeleteChild, Job, StaysInStage
<1>7. VerdictFitsScript' /\ (NoCallFailed' => NoCallFailed)
  BY <1>1, <1>6, FitsInStage DEF StatusInv, NoCallFailed
<1>8. /\ Learns /\ VersionLag'
      /\ \A k \in ChildKinds : \A t \in Svcs, other \in Slots(k) :
            ~(k = kind /\ t = job.s /\ other = slot) =>
                api'[k][t][other] = api[k][t][other]
      /\ api'[kind][job.s][slot] = Absent
  <2>1. CASE Actual(slot) = Absent
    <3>1. NoWrite
      BY <2>1 DEF DeleteChild
    <3>2. Learns /\ VersionLag'
      BY <1>1, <1>2, <3>1, NoWriteLearns DEF StatusInv, NoWrite
    <3> QED
      BY <1>4, <2>1, <3>1, <3>2 DEF NoWrite, Actual
  <2>2. CASE Actual(slot) # Absent
    <3>1. WriteChild(kind, job.s, slot, Absent)
      BY <1>4, <2>2 DEF DeleteChild
    <3>2. pc # "down" /\ VersionLag
      BY <1>1 DEF StatusInv
    <3>3. /\ Learns /\ VersionLag'
          /\ \A k \in ChildKinds : \A t \in Svcs, other \in Slots(k) :
                IF k = kind /\ t = job.s /\ other = slot
                THEN api'[k][t][other] = Absent
                ELSE api'[k][t][other] = api[k][t][other]
      BY <1>2, <1>5, <3>1, <3>2, ChildWriteLearns
    <3> QED
      BY <1>2, <1>5, <3>3
  <2> QED
    BY <2>1, <2>2
<1>9. ASSUME NEW s \in Svcs, NEW k \in ChildKinds, s # job.s \/ k # kind
      PROVE  ChildrenSame(k, s)
  BY <1>8, <1>9 DEF ChildrenSame
<1>10. ASSUME NEW s \in Svcs, s = job.s, Quiet(s), Same(s), Seen(s), Told(s),
              Writes(kind), Quiet(s)'
       PROVE  Progress(kind, s)'
  <2>1. Running(s) /\ Running(s)' /\ script' = script
    BY <1>1, <1>6, <1>10 DEF Running, StaysInStage
  <2>2. /\ \A other \in Slots(kind) : other # slot =>
               api'[kind][s][other] = api[kind][s][other]
        /\ api'[kind][s][slot] = Absent
    BY <1>8, <1>10
  <2>3. CASE script = ApplyNow(kind)
    <3>1. PutSoFar(kind, s)
      BY <1>10, <2>1, <2>3 DEF Told, Progress
    <3>2. WantOf(kind, s)' = WantOf(kind, s) /\ job'.want = job.want
      BY <1>6, <1>10, WantSame DEF StaysInStage
    <3>3. job.want[slot] = Absent
      BY <1>1, <3>1 DEF PutSoFar
    <3>4. PutSoFar(kind, s)'
      BY <1>6, <2>2, <3>1, <3>2, <3>3 DEF PutSoFar
    <3>5. /\ script # CleanNow(kind) /\ script \notin ApplyDone(kind)
          /\ script \notin CleanDone(kind)
      BY <1>2, <2>3, StageOfKind, ScriptsDiffer
    <3> QED
      BY <2>1, <3>4, <3>5 DEF Progress
  <2>4. CASE script = CleanNow(kind)
    <3>1. Reliable(kind) => DeletedSoFar(kind, s)
      BY <1>10, <2>1, <2>4 DEF Told, Progress
    <3>2. Reliable(kind) => DeletedSoFar(kind, s)'
      BY <1>6, <2>2, <3>1 DEF DeletedSoFar
    <3>3. /\ script # ApplyNow(kind) /\ script \notin ApplyDone(kind)
          /\ script \notin CleanDone(kind)
      BY <1>2, <2>4, StageOfKind, ScriptsDiffer
    <3> QED
      BY <2>1, <3>2, <3>3 DEF Progress, Reliable
  <2> QED
    BY <1>2, <1>3, <1>4, <2>3, <2>4, StageOfKind DEF Stage
<1>11. ASSUME NEW s \in Svcs, s = job.s, Quiet(s), Same(s), Seen(s), Told(s),
              NoCallFailed', Quiet(s)'
       PROVE  PrunedSoFar(s)'
  <2>1. Running(s) /\ Running(s)' /\ script' = script
    BY <1>1, <1>6, <1>11 DEF Running, StaysInStage
  <2> QED
    BY <1>6, <1>7, <1>11, <2>1, PrunedSame DEF Told
<1>12. ASSUME NEW s \in Svcs PROVE KeepsWord(s)
  BY <1>3, <1>4, <1>6, <1>7, <1>8, <1>9, <1>10, <1>11, KeepsWordInStage
<1> QED
  BY <1>7, <1>8, <1>12

LEMMA FaultSpent ==
    ASSUME BudgetTyped, FaultsCounted, Spend("fault")
    PROVE  FaultsCounted' /\ ~NoCallFailed'
BY ControllerAssumption DEF BudgetTyped, FaultsCounted, Spend, NoCallFailed, Events

LEMMA OtherSpent ==
    ASSUME BudgetTyped, FaultsCounted, NEW event \in Events \ {"fault"}, Spend(event)
    PROVE  FaultsCounted' /\ (NoCallFailed' => NoCallFailed)
BY DEF BudgetTyped, FaultsCounted, Spend, NoCallFailed, Events

LEMMA PruneKeepsWord ==
    ASSUME ControllerInv, ControllerInv', StatusInv, NEW slot, PruneApplied(slot)
    PROVE  /\ Learns /\ VersionLag' /\ VerdictFitsScript' /\ FaultsCounted'
           /\ \A s \in Svcs : KeepsWord(s)
<1>1. /\ pc = "busy" /\ Stage = "prune" /\ slot \in job.todo
      /\ UNCHANGED <<pc, script>>
  BY DEF PruneApplied, At
<1>2. /\ StoreTyped /\ BudgetTyped /\ job \in Job /\ job.s \in Svcs
      /\ script \in Applying \cup Cleaning /\ Stage \in Stages
      /\ WantFits(Stage, job)
  BY <1>1, JobFacts
<1>3. "lb" \in ChildKinds /\ "lb" = StageKind(Stage) /\ slot \in Slots("lb")
  BY <1>1, <1>2, KindsOfStages, SlotsOfKinds DEF ChildKinds, WantFits, LBWants, Present
<1>4. script = Apply3
  BY <1>1, <1>2, ScriptOfStage DEF Stage
<1>5. StaysInStage
  BY <1>1, <1>2 DEF PruneApplied, Job, StaysInStage
<1>6. VerdictFitsScript'
  BY <1>5, FitsInStage DEF StatusInv
<1>7. FaultsCounted' /\ (NoCallFailed' => NoCallFailed /\ UNCHANGED budget)
  <2>1. CASE UNCHANGED budget
    BY <2>1 DEF StatusInv, FaultsCounted, NoCallFailed
  <2>2. CASE Spend("fault")
    BY <1>2, <2>2, FaultSpent DEF StatusInv
  <2> QED
    BY <2>1, <2>2 DEF PruneApplied
<1>8. /\ Learns /\ VersionLag'
      /\ \A k \in ChildKinds : \A t \in Svcs, other \in Slots(k) :
            t # job.s \/ k # "lb" => api'[k][t][other] = api[k][t][other]
      /\ NoWrite \/ \A t \in Svcs : t = job.s => Woken(t)'
  <2>1. CASE NoWrite
    <3>1. Learns /\ VersionLag'
      BY <1>1, <1>2, <2>1, NoWriteLearns DEF StatusInv, NoWrite
    <3> QED
      BY <2>1, <3>1 DEF NoWrite
  <2>2. CASE ~NoWrite
    <3> DEFINE child == [Actual(slot) EXCEPT !.applied = job.want[slot].applied]
    <3>1. WriteChild("lb", job.s, slot, child)
      BY <2>2 DEF PruneApplied
    <3> HIDE DEF child
    <3>2. pc # "down" /\ VersionLag
      BY <1>1 DEF StatusInv
    <3>3. /\ Learns /\ VersionLag'
          /\ \A k \in ChildKinds : \A t \in Svcs, other \in Slots(k) :
                IF k = "lb" /\ t = job.s /\ other = slot
                THEN api'[k][t][other] = child
                ELSE api'[k][t][other] = api[k][t][other]
      BY <1>2, <1>3, <3>1, <3>2, ChildWriteLearns
    <3>4. ASSUME NEW t \in Svcs, t = job.s PROVE Woken(t)'
      BY <1>2, <1>3, <3>1, <3>2, <3>4, ChildWriteLearns
    <3> QED
      BY <3>3, <3>4
  <2> QED
    BY <2>1, <2>2
<1>9. ASSUME NEW s \in Svcs, NEW k \in ChildKinds, s # job.s \/ k # "lb"
      PROVE  ChildrenSame(k, s)
  BY <1>8, <1>9 DEF ChildrenSame
<1>10. ASSUME NEW s \in Svcs, s = job.s, Quiet(s), Same(s), Seen(s), Told(s),
              Writes("lb"), Quiet(s)'
       PROVE  Progress("lb", s)'
  <2>1. Running(s) /\ Running(s)' /\ script' = script
    BY <1>1, <1>5, <1>10 DEF Running, StaysInStage
  <2>2. ChildrenSame("lb", s)
    BY <1>10 DEF ChildrenSame, Same
  <2>3. script \notin {ApplyNow("lb"), CleanNow("lb")}
    BY <1>4, AllScriptsDiffer DEF ApplyNow, CleanNow
  <2>4. Progress("lb", s)
    BY <1>3, <1>10 DEF Told
  <2> QED
    BY <1>3, <1>10, <2>1, <2>2, <2>3, <2>4, ProgressSame
<1>11. ASSUME NEW s \in Svcs, s = job.s, Quiet(s), Same(s), Seen(s), Told(s),
              NoCallFailed', Quiet(s)'
       PROVE  PrunedSoFar(s)'
  <2>1. Running(s) /\ script = Apply3 /\ PrunedSoFar(s)
    BY <1>1, <1>4, <1>7, <1>11 DEF Running, Told
  <2>2. api.lb[s][slot] # Absent /\ cache.lb[s] = api.lb[s]
    BY <1>1, <1>3, <1>11, <2>1 DEF PrunedSoFar, Seen, Reliable
  <2>3. Cached(slot) # Absent /\ Cached(slot) = Actual(slot)
    BY <1>3, <1>11, <2>2 DEF Cached, Actual
  <2>4. ~Spend("fault")
    BY <1>2, <1>11, FaultSpent DEF StatusInv
  <2>5. WriteChild("lb", job.s, slot,
                   [Actual(slot) EXCEPT !.applied = job.want[slot].applied])
    BY <2>3, <2>4 DEF PruneApplied
  <2>6. Woken(s)'
    BY <1>1, <1>2, <1>11, <2>5 DEF WriteChild, Write, Woken, StoreTyped
  <2> QED
    BY <1>11, <2>6 DEF Quiet
<1>12. ASSUME NEW s \in Svcs PROVE KeepsWord(s)
  BY <1>1, <1>3, <1>5, <1>7, <1>8, <1>9, <1>10, <1>11, KeepsWordInStage
<1> QED
  BY <1>6, <1>7, <1>8, <1>12

-----------------------------------------------------------------------------
(* A stage is over.                                                        *)

StageDone(s) ==
    /\ \A kind \in ChildKinds :
          /\ Writes(kind) /\ script = ApplyNow(kind) => AsWanted(kind, s)
          /\ Reliable(kind) /\ script = CleanNow(kind) => NoneLeft(kind, s)
    /\ script = Apply3 /\ NoCallFailed => \A p \in Ports : AppliedThere(s, p)
    /\ script \in {Apply1, Clean4} =>
          api.svc[s].cond = job.cond /\ api.svc[s].ips = job.ips

LEMMA NextScripts ==
    ASSUME NEW sc \in Applying \cup Cleaning, Len(sc) # 1
    PROVE  /\ Tail(sc) \in Applying \cup Cleaning
           /\ Tail(sc) \in Applying <=> sc \in Applying
           /\ Tail(sc) = Apply3 => sc = Apply4
           /\ Tail(sc) = Apply2 => sc = Apply3
           /\ Tail(sc) = Apply1 => sc = Apply2
           /\ Tail(sc) \in {Clean3, Clean2, Clean1} => sc \in {Clean4, Clean3, Clean2}
           /\ \A kind \in ChildKinds :
                 /\ Tail(sc) \in ApplyDone(kind) =>
                       sc \in ApplyDone(kind) \cup {ApplyNow(kind)}
                 /\ Tail(sc) \in CleanDone(kind) =>
                       sc \in CleanDone(kind) \cup {CleanNow(kind)}
<1>1. sc \in {Apply5, Apply4, Apply3, Apply2, Clean4, Clean3, Clean2}
  BY ScriptLengths DEF Applying, Cleaning
<1>2. /\ Tail(sc) \in Applying \cup Cleaning
      /\ Tail(sc) \in Applying <=> sc \in Applying
      /\ Tail(sc) = Apply3 => sc = Apply4
      /\ Tail(sc) = Apply2 => sc = Apply3
      /\ Tail(sc) = Apply1 => sc = Apply2
      /\ Tail(sc) \in {Clean3, Clean2, Clean1} => sc \in {Clean4, Clean3, Clean2}
  BY <1>1, ScriptTails, AllScriptsDiffer DEF Applying, Cleaning
<1>3. ASSUME NEW kind \in ChildKinds
      PROVE  /\ Tail(sc) \in ApplyDone(kind) =>
                   sc \in ApplyDone(kind) \cup {ApplyNow(kind)}
             /\ Tail(sc) \in CleanDone(kind) =>
                   sc \in CleanDone(kind) \cup {CleanNow(kind)}
  BY <1>1, <1>3, ScriptTails, AllScriptsDiffer
     DEF ApplyNow, ApplyDone, CleanNow, CleanDone, ChildKinds
<1> QED
  BY <1>2, <1>3

(* The local variables at the next stage.                                  *)
LEMMA NextLocals ==
    ASSUME NEW j \in Job, NEW stage
    PROVE  LET n == AtStage(stage, j)
               want == WantedAt(stage, j.svc, j.lbports, j.s) IN
           /\ n.s = j.s /\ n.svc = j.svc /\ n.cond = j.cond /\ n.mode = j.mode
           /\ n.lbports = j.lbports
           /\ n.want = want /\ n.todo = TodoAt(stage, want, j.s)
           /\ n.stale = {} /\ n.listed = FALSE
           /\ n.ips = IF stage = "dns" THEN nodePublicIPs ELSE j.ips
<1> DEFINE want == WantedAt(stage, j.svc, j.lbports, j.s)
           todo == TodoAt(stage, want, j.s)
           ips == IF stage = "dns" THEN nodePublicIPs ELSE j.ips
           n == AtStage(stage, j)
<1>1. n = [j EXCEPT !.want = want, !.todo = todo, !.stale = {},
                    !.listed = FALSE, !.ips = ips]
  BY DEF AtStage
<1> HIDE DEF want, todo, ips, n
<1>2. /\ n.s = j.s /\ n.svc = j.svc /\ n.cond = j.cond /\ n.mode = j.mode
      /\ n.lbports = j.lbports /\ n.want = want /\ n.todo = todo
      /\ n.stale = {} /\ n.listed = FALSE /\ n.ips = ips
  BY <1>1 DEF Job
<1> QED
  BY <1>2 DEF want, todo, ips, n

(* A Reconcile that applies goes on with the children that are wanted.     *)
LEMMA WantedThen ==
    ASSUME StoreTyped, NEW s \in Svcs, NEW kind \in ChildKinds, NEW svc, NEW lbports,
           svc = api.svc[s], svc \in Service, lbports = WantOf("lb", s)
    PROVE  /\ WantedAt(kind, svc, lbports, s) = WantOf(kind, s)
           /\ DOMAIN WantOf(kind, s) = Slots(kind)
           /\ \A want : TodoAt(kind, want, s) = Present(want)
<1>1. CASE kind = "ds"
  BY <1>1 DEF WantedAt, WantOf, TodoAt, BuildDaemonSet
<1>2. CASE kind = "lb"
  BY <1>2, SlotsOfKinds DEF WantedAt, WantOf, TodoAt, BuildLBPorts
<1>3. CASE kind = "dns"
  BY <1>3, SlotsOfKinds DEF WantedAt, WantOf, TodoAt, BuildDNSRecords
<1> QED
  BY <1>1, <1>2, <1>3 DEF ChildKinds

(* pruneStaleAppliedNodes finds every LBPort that names a node that is not *)
(* there.                                                                  *)
LEMMA PruneFinds ==
    ASSUME StoreTyped, NEW s \in Svcs, Seen(s), NEW svc, NEW lbports, NEW want,
           want = WantedAt("prune", svc, lbports, s)
    PROVE  LET todo == TodoAt("prune", want, s) IN
           /\ \A p \in todo : api.lb[s][p] # Absent
           /\ \A p \in Ports \ todo : AppliedThere(s, p)
<1> DEFINE listed == cache.lb[s]
           todo == TodoAt("prune", want, s)
<1>1. listed = api.lb[s] /\ cache.node = api.node /\ listed \in LBWants
  BY StoreFields, ValuesOfKinds DEF Seen, Reliable, ChildKinds, StoreTyped
<1>2. want = [p \in Ports |->
                IF listed[p] = Absent THEN Absent
                ELSE [listed[p] EXCEPT !.applied = @ \cap cache.node]]
  BY DEF WantedAt
<1>3. todo = {p \in Present(want) : want[p] # listed[p]}
  BY DEF TodoAt
<1> HIDE DEF listed, todo
<1>4. Present(want) = {p \in Ports : want[p] # Absent}
  BY <1>2 DEF Present
<1>5. \A p \in todo : api.lb[s][p] # Absent
  BY <1>1, <1>2, <1>3, <1>4
<1>6. ASSUME NEW p \in Ports \ todo, api.lb[s][p] # Absent
      PROVE  api.lb[s][p].applied \subseteq api.node
  <2>1. listed[p] \in LBPort /\ listed[p] # Absent
    BY <1>1, <1>6, SlotsOfKinds DEF LBWants
  <2>2. want[p] = [listed[p] EXCEPT !.applied = @ \cap cache.node]
    BY <1>2, <2>1
  <2>3. want[p].applied = listed[p].applied \cap cache.node
    BY <2>1, <2>2 DEF LBPort
  <2>4. want[p] # Absent
    BY <2>1, <2>2, AbsentAssumption DEF LBPort
  <2>5. want[p] = listed[p]
    BY <1>3, <1>4, <1>6, <2>4
  <2> QED
    BY <1>1, <2>3, <2>5
<1> QED
  BY <1>5, <1>6 DEF AppliedThere, todo

LEMMA FitsNextStage ==
    ASSUME ControllerInv, VerdictFitsScript, pc = "busy", GoOn
    PROVE  VerdictFitsScript'
<1>1. script \in Applying \cup Cleaning /\ job \in Job
  BY JobFacts
<1>2. CASE Len(script) = 1
  BY <1>2 DEF GoOn, VerdictFitsScript
<1>3. CASE Len(script) # 1
  <2> DEFINE rest == Tail(script)
  <2>1. script' = rest /\ job' = AtStage(Head(rest), job)
    BY <1>3 DEF GoOn
  <2>2. rest \in Applying \cup Cleaning /\ (rest \in Applying <=> script \in Applying)
    BY <1>1, <1>3, NextScripts
  <2> HIDE DEF rest
  <2>3. /\ job'.cond = job.cond /\ job'.mode = job.mode
        /\ job'.ips = IF Head(rest) = "dns" THEN nodePublicIPs ELSE job.ips
    BY <1>1, <2>1, NextLocals
  <2>4. Head(rest) = "dns" => rest \in Applying
    BY <2>2, StageScripts
  <2> QED
    BY <2>1, <2>2, <2>3, <2>4 DEF VerdictFitsScript
<1> QED
  BY <1>2, <1>3

(* The Reconcile goes on with the next stage.                              *)
LEMMA ToldNextStage ==
    ASSUME ControllerInv, VerdictFitsScript, pc = "busy", GoOn, Len(script) # 1,
           NEW s \in Svcs, s = job.s, Same(s), Seen(s), Told(s), StageDone(s),
           \A kind \in ChildKinds : ChildrenSame(kind, s),
           NoCallFailed' => NoCallFailed
    PROVE  Told(s)'
<1> DEFINE rest == Tail(script)
<1>1. /\ StoreTyped /\ script \in Applying \cup Cleaning /\ job \in Job
      /\ script \in Applying => job.svc \in Service
  BY JobFacts DEF ControllerInv, JobTyped
<1>2. pc' = "busy" /\ script' = rest /\ job' = AtStage(Head(rest), job)
  BY DEF GoOn
<1>3. /\ rest \in Applying \cup Cleaning
      /\ rest \in Applying <=> script \in Applying
      /\ rest = Apply3 => script = Apply4
      /\ rest = Apply2 => script = Apply3
      /\ rest = Apply1 => script = Apply2
      /\ rest \in {Clean3, Clean2, Clean1} => script \in {Clean4, Clean3, Clean2}
      /\ \A kind \in ChildKinds :
            /\ rest \in ApplyDone(kind) =>
                  script \in ApplyDone(kind) \cup {ApplyNow(kind)}
            /\ rest \in CleanDone(kind) =>
                  script \in CleanDone(kind) \cup {CleanNow(kind)}
  BY <1>1, NextScripts
<1> HIDE DEF rest
<1>4. LET want == WantedAt(Head(rest), job.svc, job.lbports, s) IN
      /\ job'.s = s /\ job'.svc = job.svc /\ job'.cond = job.cond
      /\ job'.lbports = job.lbports
      /\ job'.want = want /\ job'.todo = TodoAt(Head(rest), want, s)
      /\ job'.stale = {} /\ job'.listed = FALSE
      /\ job'.ips = IF Head(rest) = "dns" THEN nodePublicIPs ELSE job.ips
  BY <1>1, <1>2, NextLocals
<1>5. /\ \A kind \in ChildKinds : WantOf(kind, s)' = WantOf(kind, s)
      /\ nodePublicIPs' = nodePublicIPs
      /\ api'.svc[s] = api.svc[s] /\ api'.lb[s] = api.lb[s] /\ api'.node = api.node
  BY WantSame DEF Same
<1>6. Running(s) /\ Running(s)'
  BY <1>2, <1>4 DEF Running
<1>7. /\ job.cond # "None" /\ job.svc = api.svc[s]
      /\ script \in Applying => job.lbports = WantOf("lb", s)
      /\ script \in {Apply2, Apply1} => job.ips = nodePublicIPs
      /\ script \in {Clean3, Clean2, Clean1} =>
            api.svc[s].cond = job.cond /\ api.svc[s].ips = {}
  BY <1>6 DEF Told, KnowsService
<1>8. KnowsService(s)'
  <2>1. rest \in Applying => job'.lbports = WantOf("lb", s)'
    BY <1>3, <1>4, <1>5, <1>7 DEF ChildKinds
  <2>2. rest \in {Apply2, Apply1} => job'.ips = nodePublicIPs'
    BY <1>3, <1>4, <1>5, <1>7, ScriptHeads
  <2>3. rest \in {Clean3, Clean2, Clean1} =>
            api'.svc[s].cond = job'.cond /\ api'.svc[s].ips = {}
    <3>1. CASE script = Clean4
      <4>1. job.cond # "Reconciled"
        BY <3>1, ScriptsDiffer DEF VerdictFitsScript, Cleaning
      <4> QED
        BY <1>4, <1>5, <3>1, <4>1 DEF StageDone, VerdictFitsScript
    <3>2. CASE script # Clean4
      BY <1>3, <1>4, <1>5, <1>7, <3>2
    <3> QED
      BY <3>1, <3>2
  <2> QED
    BY <1>2, <1>4, <1>5, <1>7, <2>1, <2>2, <2>3 DEF KnowsService
<1>9. AddressesTold(s)'
  BY <1>6 DEF AddressesTold
<1>10. ASSUME NEW kind \in ChildKinds, Writes(kind) PROVE Progress(kind, s)'
  <2>1. Progress(kind, s)
    BY <1>10 DEF Told
  <2>2. rest = ApplyNow(kind) => PutSoFar(kind, s)'
    <3> SUFFICES ASSUME rest = ApplyNow(kind) PROVE PutSoFar(kind, s)'
      OBVIOUS
    <3>1. Head(rest) = kind /\ script \in Applying
      BY <1>3, <1>10, ScriptHeads, StageOfKind DEF ApplyNow, ChildKinds
    <3>2. /\ WantedAt(kind, job.svc, job.lbports, s) = WantOf(kind, s)
          /\ DOMAIN WantOf(kind, s) = Slots(kind)
          /\ \A want : TodoAt(kind, want, s) = Present(want)
      BY <1>1, <1>7, <1>10, <3>1, WantedThen
    <3>3. /\ job'.want = WantOf(kind, s) /\ job'.todo = Present(job'.want)
          /\ \A slot \in Slots(kind) : slot \in job'.todo <=> job'.want[slot] # Absent
      BY <1>4, <3>1, <3>2 DEF Present
    <3> QED
      BY <1>4, <1>5, <1>10, <3>3 DEF PutSoFar
  <2>3. rest \in ApplyDone(kind) => AsWanted(kind, s)'
    <3>1. rest \in ApplyDone(kind) => AsWanted(kind, s)
      BY <1>3, <1>6, <1>10, <2>1 DEF StageDone, Progress
    <3> QED
      BY <1>5, <1>10, <3>1 DEF AsWanted, ChildrenSame
  <2>4. DeletedSoFar(kind, s)'
    BY <1>4 DEF DeletedSoFar
  <2>5. Reliable(kind) /\ rest \in CleanDone(kind) => NoneLeft(kind, s)'
    <3>1. Reliable(kind) /\ rest \in CleanDone(kind) => NoneLeft(kind, s)
      BY <1>3, <1>6, <1>10, <2>1 DEF StageDone, Progress
    <3> QED
      BY <1>10, <3>1 DEF NoneLeft, ChildrenSame
  <2> QED
    BY <1>2, <1>6, <2>2, <2>3, <2>4, <2>5 DEF Progress, Reliable
<1>11. NoCallFailed' => PrunedSoFar(s)'
  <2> SUFFICES ASSUME NoCallFailed' PROVE PrunedSoFar(s)'
    OBVIOUS
  <2>1. PrunedSoFar(s) /\ NoCallFailed
    BY DEF Told
  <2>2. \A p : AppliedThere(s, p)' <=> AppliedThere(s, p)
    BY <1>5 DEF AppliedThere
  <2>3. rest = Apply3 =>
           /\ \A p \in job'.todo : api'.lb[s][p] # Absent
           /\ \A p \in Ports \ job'.todo : AppliedThere(s, p)'
    <3> SUFFICES ASSUME rest = Apply3
                 PROVE  /\ \A p \in job'.todo : api.lb[s][p] # Absent
                        /\ \A p \in Ports \ job'.todo : AppliedThere(s, p)
      BY <1>5, <2>2
    <3>1. /\ job'.want = WantedAt("prune", job.svc, job.lbports, s)
          /\ job'.todo = TodoAt("prune", job'.want, s)
      BY <1>4, ScriptHeads
    <3> QED
      BY <1>1, <3>1, PruneFinds
  <2>4. rest \in {Apply2, Apply1} => \A p \in Ports : AppliedThere(s, p)'
    BY <1>3, <1>6, <2>1, <2>2 DEF StageDone, PrunedSoFar
  <2> QED
    BY <1>2, <1>6, <2>3, <2>4 DEF PrunedSoFar
<1> QED
  BY <1>8, <1>9, <1>10, <1>11 DEF Told, Writes, Reliable

(* The Reconcile is through.                                               *)
LEMMA ToldAtEnd ==
    ASSUME ControllerInv, VerdictFitsScript, pc = "busy", GoOn, Len(script) = 1,
           NEW s \in Svcs, s = job.s, Quiet(s), Same(s), Told(s), StageDone(s),
           \A kind \in ChildKinds : ChildrenSame(kind, s),
           NoCallFailed' => NoCallFailed
    PROVE  Told(s)' /\ (Holds(s)' => Holds(s))
<1>1. script \in {Apply1, Clean1}
  BY JobFacts, ScriptLengths DEF Applying, Cleaning
<1>2. pc' = "idle" /\ Running(s) /\ ~Running(s)'
  BY DEF GoOn, Running
<1>3. /\ \A kind \in ChildKinds : WantOf(kind, s)' = WantOf(kind, s)
      /\ nodePublicIPs' = nodePublicIPs
      /\ api'.svc[s] = api.svc[s] /\ api'.lb[s] = api.lb[s] /\ api'.node = api.node
  BY WantSame DEF Same
<1>4. \A kind \in ChildKinds :
         /\ AsWanted(kind, s) => AsWanted(kind, s)'
         /\ NoneLeft(kind, s) => NoneLeft(kind, s)'
  BY <1>3 DEF AsWanted, NoneLeft, ChildrenSame
<1>5. \A p : AppliedThere(s, p) => AppliedThere(s, p)'
  BY <1>3 DEF AppliedThere
<1>6. CASE script = Apply1
  <2>1. job.cond = "Reconciled"
    BY <1>6 DEF VerdictFitsScript, Applying
  <2>2. api.svc[s].cond = "Reconciled" /\ api.svc[s].ips = nodePublicIPs
    BY <1>2, <1>6, <2>1 DEF Told, KnowsService, StageDone
  <2>3. ASSUME NEW kind \in ChildKinds, Writes(kind) PROVE Progress(kind, s)'
    <3>1. Apply1 \in ApplyDone(kind)
      BY <2>3 DEF ApplyDone, ChildKinds
    <3>2. AsWanted(kind, s)
      BY <1>2, <1>6, <2>3, <3>1 DEF Told, Progress
    <3> QED
      BY <1>2, <1>3, <1>4, <2>2, <2>3, <3>2 DEF Progress
  <2>4. NoCallFailed' => PrunedSoFar(s)'
    BY <1>2, <1>5, <1>6 DEF Told, PrunedSoFar
  <2>5. Told(s)'
    BY <1>2, <1>3, <2>2, <2>3, <2>4
       DEF Told, KnowsService, AddressesTold, Writes, Reliable
  <2> QED
    BY <1>2, <2>1, <2>5 DEF Holds
<1>7. CASE script = Clean1
  <2>1. job.cond # "Reconciled"
    BY <1>7, AllScriptsDiffer DEF VerdictFitsScript, Applying
  <2>2. api.svc[s].cond # "Reconciled" /\ api.svc[s].ips = {}
    BY <1>2, <1>7, <2>1 DEF Told, KnowsService
  <2>3. ASSUME NEW kind \in ChildKinds, Reliable(kind) PROVE NoneLeft(kind, s)
    <3>1. Clean1 \in CleanDone(kind) \/ Clean1 = CleanNow(kind)
      BY <2>3 DEF CleanDone, CleanNow, ChildKinds
    <3> QED
      BY <1>2, <1>7, <2>3, <3>1 DEF Told, Progress, StageDone, Writes
  <2>4. \A kind \in ChildKinds : Writes(kind) => Progress(kind, s)'
    BY <1>2, <1>3, <1>4, <2>2, <2>3 DEF Progress, Reliable
  <2>5. \A p \in Ports : AppliedThere(s, p)
    BY <2>3, SlotsOfKinds DEF NoneLeft, AppliedThere, Reliable, ChildKinds
  <2>6. NoCallFailed' => PrunedSoFar(s)'
    BY <1>2, <1>5, <2>5 DEF PrunedSoFar
  <2>7. Told(s)'
    BY <1>2, <1>3, <2>2, <2>4, <2>6
       DEF Told, KnowsService, AddressesTold, Writes, Reliable
  <2> QED
    BY <1>2, <1>3, <2>2, <2>7 DEF Holds
<1> QED
  BY <1>1, <1>6, <1>7

(* What is left to show of the end of a stage is that the stage was done.  *)
LEMMA GoOnKeepsWord ==
    ASSUME ControllerInv, ControllerInv', StatusInv, pc = "busy", GoOn, Learns,
           NoCallFailed' => NoCallFailed, NEW s \in Svcs,
           \A kind \in ChildKinds : ChildrenSame(kind, s),
           ASSUME s = job.s, Quiet(s), Told(s), Quiet(s)' PROVE StageDone(s)
    PROVE  KeepsWord(s)
<1>0. job \in Job /\ pc # "down" /\ pc' # "down"
  BY JobFacts DEF GoOn
<1>1. pc' = "busy" => job'.s = job.s /\ job'.cond = job.cond
  <2> SUFFICES ASSUME pc' = "busy" PROVE job'.s = job.s /\ job'.cond = job.cond
    OBVIOUS
  <2>1. PICK stage : job' = AtStage(stage, job)
    BY DEF GoOn
  <2> DEFINE n == AtStage(stage, job)
  <2>2. n.s = job.s /\ n.cond = job.cond
    BY <1>0, NextLocals
  <2> QED
    BY <2>1, <2>2
<1>2. CASE s # job.s
  <2>1. ~Running(s) /\ ~Running(s)'
    BY <1>1, <1>2 DEF Running
  <2> QED
    BY <1>0, <1>2, <2>1, BystanderKeepsWord
<1>3. CASE s = job.s
  <2> SUFFICES ASSUME Quiet(s)' PROVE Told(s)' /\ (Holds(s)' => Holds(s))
    BY DEF KeepsWord
  <2>1. Quiet(s) /\ Same(s) /\ Seen(s)
    BY <1>0, QuietBefore DEF ControllerInv, StatusInv
  <2>2. Told(s) /\ VerdictFitsScript
    BY <1>0, <2>1 DEF StatusInv
  <2>3. StageDone(s)
    BY <1>3, <2>1, <2>2
  <2>4. CASE Len(script) = 1
    BY <1>3, <2>1, <2>2, <2>3, <2>4, ToldAtEnd
  <2>5. CASE Len(script) # 1
    <3>1. Told(s)'
      BY <1>3, <2>1, <2>2, <2>3, <2>5, ToldNextStage
    <3>2. pc' = "busy"
      BY <2>5 DEF GoOn
    <3>3. Running(s) /\ Running(s)'
      BY <1>1, <1>3, <3>2 DEF Running
    <3> QED
      BY <1>1, <2>1, <3>1, <3>2, <3>3, HoldsSame
  <2> QED
    BY <2>4, <2>5
<1> QED
  BY <1>2, <1>3

LEMMA NextStageKeepsWord ==
    ASSUME ControllerInv, ControllerInv', StatusInv, NextStage
    PROVE  Learns /\ VersionLag' /\ VerdictFitsScript' /\ \A s \in Svcs : KeepsWord(s)
<1>1. /\ pc = "busy" /\ GoOn /\ UNCHANGED <<api, cache, wakes, queue, budget>>
      /\ Stage # "status" /\ job.todo = {} /\ job.stale = {}
      /\ job.listed \/ Stage = "prune"
  BY DEF NextStage
<1>2. StoreTyped /\ script \in Applying \cup Cleaning
  BY <1>1, JobFacts
<1>3. Learns /\ VersionLag' /\ VerdictFitsScript' /\ (NoCallFailed' => NoCallFailed)
  BY <1>1, <1>2, NoWriteLearns, FitsNextStage DEF StatusInv, NoCallFailed
<1>4. \A s \in Svcs, kind \in ChildKinds : ChildrenSame(kind, s)
  BY <1>1 DEF ChildrenSame
<1>5. ASSUME NEW s \in Svcs, s = job.s, Told(s) PROVE StageDone(s)
  <2>1. Running(s)
    BY <1>1, <1>5 DEF Running
  <2>2. ASSUME NEW kind \in ChildKinds, Writes(kind), script = ApplyNow(kind)
        PROVE  AsWanted(kind, s)
    <3>1. PutSoFar(kind, s)
      BY <1>5, <2>1, <2>2 DEF Told, Progress
    <3>2. job.listed
      BY <1>1, <1>2, <2>2, StageOfKind DEF Stage
    <3>3. \A slot \in Slots(kind) :
             SameSpec(kind, api[kind][s][slot], job.want[slot])
      BY <1>1, <3>1, <3>2 DEF PutSoFar, SameSpec
    <3> QED
      BY <3>1, <3>3 DEF PutSoFar, AsWanted
  <2>3. ASSUME NEW kind \in ChildKinds, Reliable(kind), script = CleanNow(kind)
        PROVE  NoneLeft(kind, s)
    <3>1. DeletedSoFar(kind, s)
      BY <1>5, <2>1, <2>3 DEF Told, Progress, Writes
    <3>2. job.listed
      BY <1>1, <1>2, <2>3, StageOfKind DEF Stage
    <3> QED
      BY <1>1, <3>1, <3>2 DEF DeletedSoFar, NoneLeft
  <2>4. script = Apply3 /\ NoCallFailed => \A p \in Ports : AppliedThere(s, p)
    BY <1>1, <1>5, <2>1 DEF Told, PrunedSoFar
  <2>5. script \notin {Apply1, Clean4}
    BY <1>1, <1>2, ScriptOfStage DEF Stage
  <2> QED
    BY <2>2, <2>3, <2>4, <2>5 DEF StageDone
<1>6. ASSUME NEW s \in Svcs PROVE KeepsWord(s)
  BY <1>1, <1>3, <1>4, <1>5, GoOnKeepsWord
<1> QED
  BY <1>3, <1>6

(* updateStatus writes nothing if the Service that was read at the start   *)
(* says the same already.  If it does write, the Service is enqueued.      *)
LEMMA StatusKeepsWord ==
    ASSUME ControllerInv, ControllerInv', StatusInv, UpdateStatus
    PROVE  Learns /\ VersionLag' /\ VerdictFitsScript' /\ \A s \in Svcs : KeepsWord(s)
<1>1. pc = "busy" /\ Stage = "status" /\ GoOn /\ UNCHANGED budget
  BY DEF UpdateStatus, At
<1>2. StoreTyped /\ script \in Applying \cup Cleaning /\ job.s \in Svcs /\ VersionLag
  BY <1>1, JobFacts DEF StatusInv
<1>3. VerdictFitsScript' /\ (NoCallFailed' => NoCallFailed)
  BY <1>1, FitsNextStage DEF StatusInv, NoCallFailed
<1>4. script \in {Apply1, Clean4}
  BY <1>1, <1>2, ScriptOfStage DEF Stage
<1>5. CASE StatusAsRead /\ NoWrite
  <2>1. Learns /\ VersionLag'
    BY <1>1, <1>2, <1>5, NoWriteLearns DEF NoWrite
  <2>2. ASSUME NEW s \in Svcs, s = job.s, Told(s) PROVE StageDone(s)
    <3>1. api.svc[s].cond = job.cond /\ api.svc[s].ips = job.ips
      BY <1>1, <1>5, <2>2 DEF Told, KnowsService, Running, StatusAsRead
    <3>2. \A kind \in ChildKinds : script \notin {ApplyNow(kind), CleanNow(kind)}
      BY <1>1, <1>2, StageOfKind DEF Stage
    <3>3. script # Apply3
      BY <1>4, AllScriptsDiffer
    <3> QED
      BY <3>1, <3>2, <3>3 DEF StageDone
  <2>3. \A s \in Svcs, kind \in ChildKinds : ChildrenSame(kind, s)
    BY <1>5 DEF NoWrite, ChildrenSame
  <2>4. ASSUME NEW s \in Svcs PROVE KeepsWord(s)
    BY <1>1, <1>3, <2>1, <2>2, <2>3, GoOnKeepsWord
  <2> QED
    BY <1>3, <2>1, <2>4
<1>6. CASE ~(StatusAsRead /\ NoWrite)
  <2>1. PICK svc : WriteService(job.s, svc)
    BY <1>6 DEF UpdateStatus
  <2>2. Learns /\ VersionLag'
    BY <1>1, <1>2, <2>1, ServiceWriteLearns
  <2>3. \A k \in Kinds \ {"svc"} : api'[k] = api[k]
    BY <1>2, <2>1, WriteChanges DEF WriteService, Kinds
  <2>4. \A s \in Svcs, kind \in ChildKinds : ChildrenSame(kind, s)
    BY <2>3 DEF ChildrenSame, Kinds, ChildKinds
  <2>5. ASSUME NEW s \in Svcs, s = job.s, Quiet(s) PROVE Woken(s)'
    BY <1>1, <1>2, <2>1, <2>5 DEF Quiet, WriteService, Write, Woken, StoreTyped
  <2>6. ASSUME NEW s \in Svcs PROVE KeepsWord(s)
    <3>1. ASSUME s = job.s, Quiet(s), Quiet(s)' PROVE StageDone(s)
      BY <2>5, <3>1 DEF Quiet
    <3> QED
      BY <1>1, <1>3, <2>2, <2>4, <3>1, GoOnKeepsWord
  <2> QED
    BY <1>3, <2>2, <2>6
<1> QED
  BY <1>5, <1>6

-----------------------------------------------------------------------------
(* What every step amounts to that is neither a start nor a crash.         *)

LEMMA WordKept ==
    ASSUME ControllerInv, ControllerInv', StatusInv, pc # "down", pc' # "down",
           Learns, VersionLag', VerdictFitsScript', FaultsCounted',
           \A s \in Svcs : KeepsWord(s)
    PROVE  StatusInv'
<1>1. \A s \in Svcs : Quiet(s)' => Told(s)'
  BY DEF KeepsWord
<1>2. ASSUME NEW s \in Svcs, Holds(s)' PROVE Holds(s) /\ Same(s)
  <2>1. Quiet(s)'
    BY <1>2 DEF Holds
  <2>2. Same(s)
    BY <2>1, QuietBefore DEF ControllerInv, StatusInv
  <2> QED
    BY <1>2, <2>1, <2>2 DEF KeepsWord
<1>3. HoldersAgree
  BY DEF StatusInv
<1>4. ASSUME NEW s \in Svcs, Holds(s)' PROVE api'.svc[s].spec.problem # "selector"
  BY <1>2, <1>3, <1>4 DEF HoldersAgree, Same
<1>5. ASSUME NEW s \in Svcs, NEW t \in Svcs, s # t, Holds(s)', Holds(t)'
      PROVE  ~Clash(s, t)'
  <2>1. Holds(s) /\ Holds(t) /\ Same(s) /\ Same(t)
    BY <1>2, <1>5
  <2>2. \A spec : lbPortNodes(spec)' = lbPortNodes(spec)
    BY <2>1, WantSame
  <2>3. ~Clash(s, t)
    BY <1>3, <1>5, <2>1 DEF HoldersAgree
  <2> QED
    BY <2>1, <2>2, <2>3 DEF Clash, Same
<1>6. HoldersAgree'
  BY <1>4, <1>5 DEF HoldersAgree
<1> QED
  BY <1>1, <1>6 DEF StatusInv

LEMMA WorkerSteps ==
    ASSUME ControllerInv, ControllerInv', StatusInv,
           \/ ListStale
           \/ NextStage
           \/ UpdateStatus
           \/ \E slot : PutChild(slot) \/ DeleteChild(slot) \/ PruneApplied(slot)
    PROVE  StatusInv'
<1>1. pc = "busy" /\ pc' # "down"
  BY DEF ListStale, NextStage, UpdateStatus, PutChild, DeleteChild, PruneApplied, At,
         GoOn
<1>2. CASE \E slot : PruneApplied(slot)
  BY <1>1, <1>2, PruneKeepsWord, WordKept
<1>3. CASE ~\E slot : PruneApplied(slot)
  <2>1. Learns /\ VersionLag' /\ VerdictFitsScript' /\ \A s \in Svcs : KeepsWord(s)
    BY <1>3, PutKeepsWord, ListKeepsWord, DeleteKeepsWord, NextStageKeepsWord,
       StatusKeepsWord
  <2>2. UNCHANGED budget
    BY <1>3 DEF ListStale, NextStage, UpdateStatus, PutChild, DeleteChild
  <2>3. FaultsCounted'
    BY <2>2 DEF StatusInv, FaultsCounted
  <2> QED
    BY <1>1, <2>1, <2>3, WordKept
<1> QED
  BY <1>2, <1>3

(* A Reconcile that fails is retried.                                      *)
LEMMA FailingSteps ==
    ASSUME ControllerInv, ControllerInv', StatusInv, WriteRejected \/ ReconcileFault
    PROVE  StatusInv'
<1>1. pc = "busy" /\ ReconcileFails
  BY DEF WriteRejected, Rejected, ReconcileFault, At
<1>2. /\ pc' = "idle" /\ queue \subseteq queue' /\ job.s \in queue'
      /\ UNCHANGED <<api, cache, wakes>>
  BY <1>1 DEF ReconcileFails
<1>3. StoreTyped /\ BudgetTyped /\ job.s \in Svcs
  BY <1>1, JobFacts
<1>4. Learns /\ VersionLag' /\ VerdictFitsScript'
  BY <1>1, <1>2, <1>3, NoWriteLearns DEF StatusInv, VerdictFitsScript
<1>5. FaultsCounted' /\ (NoCallFailed' => NoCallFailed)
  BY <1>3, FaultSpent DEF WriteRejected, ReconcileFault, StatusInv, FaultsCounted,
                          NoCallFailed
<1>6. ASSUME NEW s \in Svcs PROVE KeepsWord(s)
  <2>1. CASE s = job.s
    BY <1>2, <2>1 DEF KeepsWord, Quiet, Woken
  <2>2. CASE s # job.s
    <3>1. ~Running(s) /\ ~Running(s)'
      BY <1>2, <2>2 DEF Running
    <3>2. \A kind \in ChildKinds : ChildrenSame(kind, s)
      BY <1>2 DEF ChildrenSame
    <3> QED
      BY <1>1, <1>2, <1>4, <1>5, <3>1, <3>2, BystanderKeepsWord
  <2> QED
    BY <2>1, <2>2
<1> QED
  BY <1>1, <1>2, <1>4, <1>5, <1>6, WordKept

(* Steps of the cluster and of the informers.                              *)
LEMMA OutsideStep ==
    ASSUME ControllerInv, ControllerInv', StatusInv, Unchanged,
           FaultsCounted', NoCallFailed' => NoCallFailed,
           pc # "down" =>
               /\ Learns /\ VersionLag'
               /\ \A s \in Svcs, kind \in ChildKinds :
                     Quiet(s)' => ChildrenSame(kind, s)
    PROVE  StatusInv'
<1>1. UNCHANGED <<pc, script, job>>
  BY DEF Unchanged
<1>2. CASE pc = "down"
  BY <1>1, <1>2 DEF StatusInv, VersionLag, VerdictFitsScript
<1>3. CASE pc # "down"
  <2>1. VerdictFitsScript'
    BY <1>1 DEF StatusInv, VerdictFitsScript
  <2>2. ASSUME NEW s \in Svcs PROVE KeepsWord(s)
    <3>1. CASE Quiet(s)'
      <4>1. (Running(s)' <=> Running(s)) /\ UNCHANGED <<job, script>>
        BY <1>1 DEF Running
      <4>2. \A kind \in ChildKinds : ChildrenSame(kind, s)
        BY <1>3, <3>1
      <4> QED
        BY <1>1, <1>3, <4>1, <4>2, BystanderKeepsWord
    <3>2. CASE ~Quiet(s)'
      BY <3>2 DEF KeepsWord
    <3> QED
      BY <3>1, <3>2
  <2> QED
    BY <1>1, <1>3, <2>1, <2>2, WordKept
<1> QED
  BY <1>2, <1>3

LEMMA ServiceTold ==
    ASSUME ControllerInv, ControllerInv', StatusInv, Unchanged, NEW s \in Svcs, NEW svc,
           WriteService(s, svc), Spend("edit")
    PROVE  StatusInv'
<1>1. StoreTyped /\ VersionLag
  BY DEF ControllerInv, StatusInv
<1>2. FaultsCounted' /\ (NoCallFailed' => NoCallFailed)
  BY OtherSpent DEF ControllerInv, StatusInv, Events
<1>3. pc # "down" => Learns /\ VersionLag'
  BY <1>1, ServiceWriteLearns
<1>4. \A k \in Kinds \ {"svc"} : api'[k] = api[k]
  BY <1>1, WriteChanges DEF WriteService, Kinds
<1>5. \A t \in Svcs, kind \in ChildKinds : ChildrenSame(kind, t)
  BY <1>4 DEF ChildrenSame, Kinds, ChildKinds
<1> QED
  BY <1>2, <1>3, <1>5, OutsideStep

LEMMA ClusterTold ==
    ASSUME ControllerInv, ControllerInv', StatusInv, Cluster
    PROVE  StatusInv'
<1>1. StoreTyped /\ BudgetTyped /\ VersionLag /\ FaultsCounted
  BY DEF ControllerInv, StatusInv
<1>2. ASSUME NEW s \in Svcs,
             \/ DeleteService(s)
             \/ \E spec \in Specs : CreateService(s, spec) \/ EditService(s, spec)
      PROVE  StatusInv'
  <2>1. Unchanged /\ Spend("edit") /\ \E svc : WriteService(s, svc)
    BY <1>2 DEF DeleteService, CreateService, EditService
  <2> QED
    BY <2>1, ServiceTold
<1>3. ASSUME NEW kind \in {"node", "ep"}, NEW v, NEW ss \in SUBSET Svcs,
             Write(kind, v, ss), kind = "node" => Matching(cache) \subseteq ss,
             Spend("cluster"), Unchanged
      PROVE  StatusInv'
  <2>1. kind \in Kinds /\ kind \notin {"svc", "lb"}
    BY <1>3 DEF Kinds
  <2>2. FaultsCounted' /\ (NoCallFailed' => NoCallFailed)
    BY <1>1, <1>3, OtherSpent DEF Events
  <2>3. pc # "down" => Learns /\ VersionLag'
    BY <1>1, <1>3, <2>1, WriteLearns
  <2>4. \A k \in Kinds \ {kind} : api'[k] = api[k]
    BY <1>1, <1>3, <2>1, WriteChanges
  <2>5. \A t \in Svcs, k \in ChildKinds : ChildrenSame(k, t)
    BY <1>3, <2>4 DEF ChildrenSame, Kinds, ChildKinds
  <2> QED
    BY <1>3, <2>2, <2>3, <2>5, OutsideStep
<1>4. ASSUME NEW s \in Svcs, ToggleEndpoints(s) PROVE StatusInv'
  <2>1. {s} \in SUBSET Svcs
    OBVIOUS
  <2> QED
    BY <1>3, <1>4, <2>1 DEF ToggleEndpoints
<1>5. ASSUME NEW n \in Nodes, ToggleNode(n) PROVE StatusInv'
  <2>1. Matching(cache) \in SUBSET Svcs
    BY DEF Matching
  <2> QED
    BY <1>3, <1>5, <2>1 DEF ToggleNode
<1>6. ASSUME NEW s \in Svcs, NEW p \in Ports, NEW n \in AgentNodes,
             AgentReports(s, p, n)
      PROVE  StatusInv'
  <2>1. PICK child : WriteChild("lb", s, p, child)
    BY <1>6 DEF AgentReports
  <2>2. Unchanged /\ UNCHANGED budget
    BY <1>6 DEF AgentReports
  <2>3. FaultsCounted' /\ (NoCallFailed' => NoCallFailed)
    BY <1>1, <2>2 DEF FaultsCounted, NoCallFailed
  <2>4. "lb" \in ChildKinds /\ p \in Slots("lb")
    BY SlotsOfKinds DEF ChildKinds
  <2>5. ASSUME pc # "down"
        PROVE  /\ Learns /\ VersionLag'
               /\ \A t \in Svcs, kind \in ChildKinds : Quiet(t)' => ChildrenSame(kind, t)
    <3>1. /\ Learns /\ VersionLag' /\ Woken(s)'
          /\ \A k \in ChildKinds : \A t \in Svcs, other \in Slots(k) :
                IF k = "lb" /\ t = s /\ other = p
                THEN api'[k][t][other] = child
                ELSE api'[k][t][other] = api[k][t][other]
      BY <1>1, <2>1, <2>4, <2>5, ChildWriteLearns
    <3>2. ~Quiet(s)'
      BY <3>1 DEF Quiet
    <3>3. \A t \in Svcs \ {s}, kind \in ChildKinds : ChildrenSame(kind, t)
      BY <3>1 DEF ChildrenSame
    <3> QED
      BY <3>1, <3>2, <3>3
  <2> QED
    BY <2>2, <2>3, <2>5, OutsideStep
<1> QED
  BY <1>2, <1>4, <1>5, <1>6 DEF Cluster

LEMMA InformerTold ==
    ASSUME ControllerInv, ControllerInv', StatusInv,
           NodeHeartbeat \/ \E kind \in Lagging : CatchUp(kind)
    PROVE  StatusInv'
<1>1. pc # "down" /\ UNCHANGED <<api, budget>> /\ Unchanged
  BY DEF NodeHeartbeat, CatchUp
<1>2. StoreTyped /\ VersionLag
  BY DEF ControllerInv, StatusInv
<1>3. FaultsCounted' /\ (NoCallFailed' => NoCallFailed)
  BY <1>1 DEF StatusInv, FaultsCounted, NoCallFailed
<1>4. \A s \in Svcs, kind \in ChildKinds : ChildrenSame(kind, s)
  BY <1>1 DEF ChildrenSame
<1>5. CASE NodeHeartbeat
  <2>1. Learns /\ VersionLag'
    BY <1>1, <1>2, <1>5, NoWriteLearns DEF NodeHeartbeat
  <2> QED
    BY <1>1, <1>3, <1>4, <2>1, OutsideStep
<1>6. ASSUME NEW kind \in Lagging, CatchUp(kind) PROVE StatusInv'
  <2>1. /\ cache' = [cache EXCEPT ![kind] = api[kind]]
        /\ queue' = queue \cup wakes[kind]
        /\ wakes' = [wakes EXCEPT ![kind] = {}]
    BY <1>6 DEF CatchUp
  <2>2. wakes \in [Lagging -> SUBSET Svcs] /\ DOMAIN cache = Kinds
    BY <1>2, StoreKinds DEF StoreTyped
  <2>3. \A s \in Svcs : Woken(s) => Woken(s)'
    BY <2>1, <2>2 DEF Woken
  <2>4. Learns
    BY <1>1, <2>3 DEF Learns
  <2>5. \A k \in Kinds \cap Lagging :
           IF k = kind THEN cache'[k] = api[k]
           ELSE cache'[k] = cache[k] /\ wakes'[k] = wakes[k]
    BY <2>1, <2>2
  <2>6. VersionLag'
    BY <1>1, <1>2, <2>5 DEF VersionLag, Kinds, Unchanged
  <2> QED
    BY <1>1, <1>3, <1>4, <2>4, <2>6, OutsideStep
<1> QED
  BY <1>5, <1>6

(* A crash forgets everything, and the next start enqueues every Service   *)
(* of bulb's.                                                              *)
LEMMA ProcessTold ==
    ASSUME ControllerInv, StatusInv, Crash \/ Start
    PROVE  StatusInv'
<1>1. CASE Crash
  <2>1. pc' = "down" /\ Spend("crash")
    BY <1>1 DEF Crash
  <2>2. FaultsCounted'
    BY <2>1, OtherSpent DEF ControllerInv, StatusInv, Events
  <2> QED
    BY <2>1, <2>2 DEF StatusInv, VersionLag, VerdictFitsScript
<1>2. CASE Start
  <2>1. /\ pc' = "idle" /\ cache' = api /\ Matching(api) \subseteq queue'
        /\ UNCHANGED <<api, budget>>
    BY <1>2 DEF Start
  <2>2. VersionLag' /\ VerdictFitsScript' /\ FaultsCounted'
    BY <2>1 DEF VersionLag, VerdictFitsScript, FaultsCounted, StatusInv
  <2>3. \A s \in Svcs : ~Quiet(s)'
    BY <2>1 DEF Quiet, Woken, Matching
  <2> QED
    BY <2>2, <2>3 DEF StatusInv, HoldersAgree, Holds
<1> QED
  BY <1>1, <1>2

(* A Reconcile begins: its Service is no longer in the work queue, and may *)
(* be quiet from now on.                                                   *)
LEMMA StartTold ==
    ASSUME ControllerInv, ControllerInv', StatusInv, NEW s \in Svcs, StartReconcile(s)
    PROVE  StatusInv'
<1> DEFINE svc == cache.svc[s]
           gone == ~ServiceMatches(svc)
           verdict == IF gone THEN "None" ELSE Verdict(s, svc.spec)
           stages == IF gone THEN CleanupScript
                     ELSE IF verdict = "Reconciled" THEN ApplyScript
                     ELSE <<"status">> \o CleanupScript
           mode == IF gone /\ (svc = Absent \/ svc.spec.keep)
                   THEN "keep" ELSE "force"
           lbports == IF gone THEN <<>> ELSE BuildLBPorts(svc.spec)
           start == [s |-> s, svc |-> svc, cond |-> verdict, mode |-> mode,
                     lbports |-> lbports,
                     want |-> <<>>, todo |-> {}, stale |-> {}, listed |-> FALSE,
                     ips |-> {}]
<1>1. /\ pc = "idle" /\ pc' = "busy" /\ queue' = queue \ {s}
      /\ script' = stages /\ job' = AtStage(Head(stages), start)
      /\ UNCHANGED <<api, cache, wakes, budget>>
  BY DEF StartReconcile
<1>2. StoreTyped /\ svc \in Service \cup {Absent} /\ (~gone => svc \in Service)
  BY StoreFields, ValuesOfKinds DEF ControllerInv, StoreTyped, ServiceMatches
<1>3. /\ verdict \in Conditions
      /\ verdict = "None" <=> gone
      /\ ~gone => mode = "force" /\ verdict = Verdict(s, svc.spec)
      /\ ~gone => lbports = BuildLBPorts(svc.spec)
  BY DEF Verdict, Conditions
<1>4. /\ gone => stages = Clean3
      /\ ~gone /\ verdict = "Reconciled" => stages = Apply5
      /\ ~gone /\ verdict # "Reconciled" => stages = Clean4
  BY ScriptNames
<1>5. start \in Job
  <2>1. mode \in {"keep", "force"}
    OBVIOUS
  <2>2. lbports \in LBWants \cup {<<>>}
    BY <1>2, BuildTyped
  <2> HIDE DEF svc, gone, verdict, stages, mode, lbports
  <2> QED
    BY <1>2, <1>3, <2>1, <2>2 DEF Job
<1>6. /\ start.s = s /\ start.svc = svc /\ start.cond = verdict /\ start.mode = mode
      /\ start.lbports = lbports /\ start.ips = {}
  OBVIOUS
<1> HIDE DEF start, mode, verdict, stages, lbports, gone
<1>7. LET want == WantedAt(Head(stages), svc, lbports, s) IN
      /\ job'.s = s /\ job'.svc = svc /\ job'.cond = verdict /\ job'.mode = mode
      /\ job'.lbports = lbports /\ job'.want = want
      /\ job'.todo = TodoAt(Head(stages), want, s)
      /\ job'.stale = {} /\ job'.listed = FALSE
      /\ Head(stages) # "dns" => job'.ips = {}
  <2>1. LET want == WantedAt(Head(stages), start.svc, start.lbports, start.s) IN
        /\ job'.s = start.s /\ job'.svc = start.svc /\ job'.cond = start.cond
        /\ job'.mode = start.mode /\ job'.lbports = start.lbports
        /\ job'.want = want /\ job'.todo = TodoAt(Head(stages), want, start.s)
        /\ job'.stale = {} /\ job'.listed = FALSE
        /\ job'.ips = IF Head(stages) = "dns" THEN nodePublicIPs ELSE start.ips
    BY <1>1, <1>5, NextLocals
  <2> QED
    BY <1>6, <2>1
<1>8. /\ stages \in {Clean3, Apply5, Clean4}
      /\ stages \in Applying <=> verdict = "Reconciled"
      /\ Head(stages) # "dns"
  BY <1>3, <1>4, ScriptHeads, AllScriptsDiffer DEF Applying
<1>9. VersionLag' /\ FaultsCounted'
  BY <1>1 DEF StatusInv, VersionLag, FaultsCounted
<1>10. VerdictFitsScript'
  BY <1>1, <1>3, <1>7, <1>8 DEF VerdictFitsScript
<1>11. ASSUME NEW t \in Svcs, t # s, Quiet(t)'
       PROVE  Quiet(t) /\ Same(t) /\ Told(t)' /\ (Holds(t)' => Holds(t))
  <2>1. Quiet(t)
    BY <1>1, <1>11 DEF Quiet, Woken
  <2>2. Same(t)
    BY <1>1 DEF Same
  <2>3. Told(t)
    BY <1>1, <2>1 DEF StatusInv
  <2>4. ~Running(t) /\ ~Running(t)'
    BY <1>1, <1>7, <1>11 DEF Running
  <2>5. /\ \A kind \in ChildKinds : ChildrenSame(kind, t)
        /\ NoCallFailed' => NoCallFailed
    BY <1>1 DEF ChildrenSame, NoCallFailed
  <2> QED
    BY <2>1, <2>2, <2>3, <2>4, <2>5, Bystander, HoldsSame
<1>12. ASSUME Quiet(s)'
       PROVE  svc = api.svc[s] /\ ~gone /\ Same(s)
  <2>1. ServiceMatches(api.svc[s]) /\ \A kind \in Lagging : s \notin wakes[kind]
    BY <1>1, <1>12 DEF Quiet, Woken
  <2>2. Seen(s)
    BY <1>1, <2>1, UnheardSeen DEF ControllerInv, StatusInv
  <2> QED
    BY <1>1, <2>1, <2>2 DEF Seen, Same, gone
<1>13. ASSUME Quiet(s)' PROVE Told(s)'
  <2>1. svc = api.svc[s] /\ ~gone /\ Same(s) /\ api'.svc[s] = api.svc[s]
    BY <1>12, <1>13 DEF Same
  <2>2. stages \in {Apply5, Clean4}
    BY <1>4, <2>1
  <2>3. \A kind \in ChildKinds : WantOf(kind, s)' = WantOf(kind, s)
    BY <2>1, WantSame
  <2>4. Running(s)'
    BY <1>1, <1>7 DEF Running
  <2>5. lbports = WantOf("lb", s)
    BY <1>3, <2>1 DEF WantOf
  <2>6. KnowsService(s)'
    <3>1. stages \notin {Apply2, Apply1, Clean3, Clean2, Clean1}
      BY <2>2, AllScriptsDiffer
    <3>2. lbports = WantOf("lb", s)'
      BY <2>3, <2>5 DEF ChildKinds
    <3> HIDE DEF svc
    <3> QED
      BY <1>1, <1>3, <1>7, <2>1, <3>1, <3>2 DEF KnowsService
  <2>7. AddressesTold(s)'
    BY <2>4 DEF AddressesTold
  <2>8. ASSUME NEW kind \in ChildKinds PROVE Progress(kind, s)'
    <3>1. /\ stages = ApplyNow(kind) => kind = "ds"
          /\ stages \notin ApplyDone(kind) /\ stages # CleanNow(kind)
          /\ stages \notin CleanDone(kind)
      BY <2>2, <2>8, AllScriptsDiffer
         DEF ApplyNow, ApplyDone, CleanNow, CleanDone, ChildKinds
    <3>2. ASSUME stages = ApplyNow(kind) PROVE PutSoFar(kind, s)'
      <4>1. kind = "ds" /\ Head(stages) = kind
        BY <3>1, <3>2, ScriptHeads DEF ApplyNow
      <4>2. /\ WantedAt(kind, svc, lbports, s) = WantOf(kind, s)
            /\ DOMAIN WantOf(kind, s) = Slots(kind)
            /\ \A want : TodoAt(kind, want, s) = Present(want)
        BY <1>2, <2>1, <2>5, <2>8, WantedThen
      <4>3. /\ job'.want = WantOf(kind, s) /\ job'.todo = Present(job'.want)
            /\ \A slot \in Slots(kind) : slot \in job'.todo <=> job'.want[slot] # Absent
        BY <1>7, <4>1, <4>2 DEF Present
      <4> QED
        BY <1>7, <2>3, <2>8, <4>3 DEF PutSoFar
    <3> QED
      BY <1>1, <2>4, <3>1, <3>2 DEF Progress
  <2>9. PrunedSoFar(s)'
    BY <1>1, <2>2, <2>4, AllScriptsDiffer DEF PrunedSoFar
  <2> QED
    BY <2>6, <2>7, <2>8, <2>9 DEF Told
<1>14. ASSUME Holds(s)'
       PROVE  /\ svc = api.svc[s] /\ api'.svc[s] = api.svc[s]
              /\ svc.spec.problem # "selector" /\ ~servicePortConflict(s, svc.spec)
  <2>1. svc = api.svc[s] /\ ~gone /\ api'.svc[s] = api.svc[s]
    BY <1>12, <1>14 DEF Holds, Same
  <2>2. Verdict(s, svc.spec) = "Reconciled"
    BY <1>1, <1>3, <1>7, <1>14, <2>1 DEF Holds, Running
  <2> HIDE DEF svc
  <2> QED
    BY <2>1, <2>2 DEF Verdict, detectPortConflict
<1>15. HoldersAgree
  BY <1>1 DEF StatusInv
<1>16. \A spec : lbPortNodes(spec)' = lbPortNodes(spec)
  BY <1>1 DEF lbPortNodes
<1>17. ASSUME NEW t \in Svcs, t # s, Holds(t)' PROVE Holds(t)
  BY <1>11, <1>17 DEF Holds
<1>18. ASSUME NEW t \in Svcs, t # s, Holds(t)', Holds(s)'
       PROVE  ~Clash(s, t)' /\ ~Clash(t, s)'
  <2>1. Quiet(t) /\ api.svc[t].spec.problem # "selector"
    BY <1>15, <1>17, <1>18 DEF Holds, HoldersAgree
  <2>2. cache.svc[t] = api.svc[t] /\ t \in Matching(cache)
    BY <1>1, <2>1, QuietSeen DEF ControllerInv, StatusInv, Quiet, Seen, Matching
  <2>3. ~Clash(s, t)
    BY <1>14, <1>18, <2>1, <2>2 DEF servicePortConflict, Clash
  <2>4. ~Clash(t, s)
    BY <2>3 DEF Clash, overlappingNodes
  <2> QED
    BY <1>1, <1>16, <2>3, <2>4 DEF Clash
<1>19. HoldersAgree'
  <2>1. ASSUME NEW t \in Svcs, Holds(t)' PROVE api'.svc[t].spec.problem # "selector"
    BY <1>1, <1>14, <1>15, <1>17, <2>1 DEF HoldersAgree
  <2>2. ASSUME NEW t \in Svcs, NEW u \in Svcs, t # u, Holds(t)', Holds(u)'
        PROVE  ~Clash(t, u)'
    <3>1. CASE t = s \/ u = s
      BY <1>18, <2>2, <3>1
    <3>2. CASE t # s /\ u # s
      <4>1. ~Clash(t, u)
        BY <1>15, <1>17, <2>2, <3>2 DEF HoldersAgree
      <4> QED
        BY <1>1, <1>16, <4>1 DEF Clash
    <3> QED
      BY <3>1, <3>2
  <2> QED
    BY <2>1, <2>2 DEF HoldersAgree
<1>20. \A t \in Svcs : Quiet(t)' => Told(t)'
  BY <1>11, <1>13
<1> QED
  BY <1>9, <1>10, <1>19, <1>20 DEF StatusInv

-----------------------------------------------------------------------------
LEMMA StatusInductive ==
    ControllerInv /\ ControllerInv' /\ StatusInv /\ [Next]_vars => StatusInv'
<1> SUFFICES ASSUME ControllerInv, ControllerInv', StatusInv, [Next]_vars
             PROVE  StatusInv'
  OBVIOUS
<1>1. CASE UNCHANGED vars
  <2>1. UNCHANGED <<api, cache, wakes, queue, pc, script, job, budget>>
    BY <1>1 DEF vars
  <2>2. StoreTyped /\ VersionLag
    BY DEF ControllerInv, StatusInv
  <2>3. pc # "down" => Learns /\ VersionLag'
    BY <2>1, <2>2, NoWriteLearns
  <2>4. /\ FaultsCounted' /\ (NoCallFailed' => NoCallFailed) /\ Unchanged
        /\ \A s \in Svcs, kind \in ChildKinds : ChildrenSame(kind, s)
    BY <2>1 DEF StatusInv, FaultsCounted, NoCallFailed, Unchanged, ChildrenSame
  <2> QED
    BY <2>3, <2>4, OutsideStep
<1>2. CASE Cluster
  BY <1>2, ClusterTold
<1>3. CASE NodeHeartbeat \/ \E kind \in Lagging : CatchUp(kind)
  BY <1>3, InformerTold
<1>4. ASSUME NEW s \in Svcs, StartReconcile(s) PROVE StatusInv'
  BY <1>4, StartTold
<1>5. CASE \/ ListStale \/ NextStage \/ UpdateStatus
           \/ \E slot \in AllSlots :
                 PutChild(slot) \/ DeleteChild(slot) \/ PruneApplied(slot)
  BY <1>5, WorkerSteps
<1>6. CASE WriteRejected \/ ReconcileFault
  BY <1>6, FailingSteps
<1>7. CASE Crash \/ Start
  BY <1>7, ProcessTold
<1> QED
  BY <1>1, <1>2, <1>3, <1>4, <1>5, <1>6, <1>7 DEF Next, ReconcileStep

LEMMA InitialStatus == Init => StatusInv
<1> SUFFICES ASSUME Init PROVE StatusInv
  OBVIOUS
<1>1. pc = "down" /\ budget = Budget
  BY DEF Init
<1>2. FaultsCounted
  BY <1>1, ControllerAssumption DEF FaultsCounted, Events
<1> QED
  BY <1>1, <1>2 DEF StatusInv, VersionLag, VerdictFitsScript

(* What is known of the Services that are quiet is always true, whatever   *)
(* is late, fails or crashes.                                              *)
THEOREM StatusInvariant == Spec => [](ControllerInv /\ StatusInv)
<1>1. Init => StatusInv
  BY InitialStatus
<1>2. ControllerInv /\ ControllerInv' /\ StatusInv /\ [Next]_vars => StatusInv'
  BY StatusInductive
<1> QED
  BY <1>1, <1>2, ControllerInvariant, PTL DEF Spec

(* With nothing left to do, no Service of bulb's is running or waiting.    *)
LEMMA SettledTold ==
    ASSUME StatusInv, Settled, NEW s \in Matching(api)
    PROVE  s \in Svcs /\ Quiet(s) /\ ~Running(s) /\ Told(s) /\ HoldersAgree
<1>1. s \in Svcs /\ Quiet(s) /\ ~Running(s)
  BY DEF Settled, Matching, Quiet, Woken, Running
<1> QED
  BY <1>1 DEF StatusInv, Settled

(* An LBPort that a settled Service has is the one its spec asks for, and  *)
(* the Service holds its ports.                                            *)
LEMMA SettledLBPort ==
    ASSUME ControllerInv, StatusInv, Settled, NEW s \in Svcs,
           NEW p \in Present(api.lb[s])
    PROVE  /\ Holds(s) /\ HoldersAgree
           /\ p \in api.svc[s].spec.ports
           /\ api.lb[s][p].nodes = lbPortNodes(api.svc[s].spec)
<1>1. api.lb[s] \in LBWants
  BY StoreFields, ValuesOfKinds DEF ControllerInv, StoreTyped
<1>2. /\ p \in Slots("lb") /\ p \in Ports /\ api.lb[s][p] # Absent
      /\ "lb" \in ChildKinds /\ Claimed("lb")
  BY <1>1, SlotsOfKinds DEF LBWants, Present, ControllerInv, ChildKinds
<1>3. s \in Matching(api)
  BY <1>2, SettledUnclaimed DEF Orphan, Matching, Disowned
<1>4. Quiet(s) /\ ~Running(s) /\ Told(s) /\ HoldersAgree
  BY <1>3, SettledTold
<1>5. Progress("lb", s)
  BY <1>2, <1>4 DEF Told, Writes, Reliable
<1>6. api.svc[s].cond = "Reconciled" /\ AsWanted("lb", s)
  BY <1>2, <1>4, <1>5 DEF Progress, NoneLeft, Reliable
<1> DEFINE want == BuildLBPorts(api.svc[s].spec)[p]
<1>7. SameSpec("lb", api.lb[s][p], want)
  BY <1>2, <1>6 DEF AsWanted, WantOf
<1>8. /\ p \in api.svc[s].spec.ports =>
            want = [nodes |-> lbPortNodes(api.svc[s].spec), applied |-> {}]
      /\ p \notin api.svc[s].spec.ports => want = Absent
  BY <1>2 DEF BuildLBPorts
<1> HIDE DEF want
<1>9. p \in api.svc[s].spec.ports
  BY <1>2, <1>7, <1>8 DEF SameSpec
<1>10. lbPortNodes(api.svc[s].spec) \in SUBSET (Nodes \cup {allNodesToken})
  BY StoreFields, ValuesOfKinds DEF lbPortNodes, ControllerInv, StoreTyped
<1>11. want # Absent /\ want.nodes = lbPortNodes(api.svc[s].spec)
  BY <1>8, <1>9, <1>10, AbsentAssumption DEF LBPort
<1>12. api.lb[s][p].nodes = lbPortNodes(api.svc[s].spec)
  BY <1>2, <1>7, <1>11 DEF SameSpec
<1> QED
  BY <1>4, <1>6, <1>9, <1>12 DEF Holds

(* reconciler.go, detectPortConflict: with nothing left to do, no two      *)
(* Services have an LBPort for the same port on the same node.  This holds *)
(* whichever caches are late, wherever calls fail and however often the    *)
(* controller dies, because the Service that is reconciled later sees the  *)
(* other one, or is enqueued again when the cache shows it.                *)
THEOREM PortsNotShared == Spec => []NoPortShared
<1>1. ControllerInv /\ StatusInv => NoPortShared
  <2> SUFFICES ASSUME ControllerInv, StatusInv, Settled,
                      NEW s \in Svcs, NEW t \in Svcs, NEW p \in Ports, s # t,
                      p \in Present(api.lb[s]), p \in Present(api.lb[t])
               PROVE  ~overlappingNodes(api.lb[s][p].nodes, api.lb[t][p].nodes)
    BY DEF NoPortShared
  <2>1. /\ Holds(s) /\ HoldersAgree /\ p \in api.svc[s].spec.ports
        /\ api.lb[s][p].nodes = lbPortNodes(api.svc[s].spec)
    BY SettledLBPort
  <2>2. /\ Holds(t) /\ p \in api.svc[t].spec.ports
        /\ api.lb[t][p].nodes = lbPortNodes(api.svc[t].spec)
    BY SettledLBPort
  <2>3. ~Clash(s, t)
    BY <2>1, <2>2 DEF HoldersAgree
  <2> QED
    BY <2>1, <2>2, <2>3 DEF Clash
<1> QED
  BY <1>1, StatusInvariant, PTL

(* pruneStaleAppliedNodes: with nothing left to do, and unless a call has  *)
(* failed, no LBPort says it is applied on a node that is not schedulable. *)
THEOREM StaleNodesGone == Spec => []StaleNodesPruned
<1>1. ControllerInv /\ StatusInv => StaleNodesPruned
  <2> SUFFICES ASSUME StatusInv, Settled, NoCallFailed, NEW s \in Matching(api),
                      NEW p \in Ports, api.lb[s][p] # Absent
               PROVE  api.lb[s][p].applied \subseteq api.node
    BY DEF StaleNodesPruned
  <2>1. ~Running(s) /\ PrunedSoFar(s)
    BY SettledTold DEF Told
  <2> QED
    BY <2>1 DEF PrunedSoFar, AppliedThere
<1> QED
  BY <1>1, StatusInvariant, PTL

(* updateStatus: with nothing left to do, a Service that is said to be     *)
(* reconciled has the proxy, the LBPorts and the addresses that its spec   *)
(* asks for, and one that is said to have failed has no LBPort and no      *)
(* address.  This holds whichever caches are late, the one of DaemonSets   *)
(* too, wherever calls fail and however often the controller dies.         *)
THEOREM StatusesTruthful == Spec => []TrafficTruthful
<1>1. ControllerInv /\ StatusInv => TrafficTruthful
  <2> SUFFICES ASSUME ControllerInv, StatusInv, Settled, NEW s \in Matching(api)
               PROVE  LET svc == api.svc[s] IN
                      IF svc.cond = "Reconciled"
                      THEN /\ api.ds[s] = BuildDaemonSet(svc.spec)
                           /\ \A p \in Ports :
                                 SameSpec("lb", api.lb[s][p], BuildLBPorts(svc.spec)[p])
                           /\ svc.ips = nodePublicIPs
                      ELSE Present(api.lb[s]) = {} /\ svc.ips = {}
    BY DEF TrafficTruthful
  <2>1. s \in Svcs /\ ~Running(s) /\ Told(s)
    BY SettledTold
  <2>2. Progress("ds", s) /\ Progress("lb", s) /\ Reliable("lb")
    BY <2>1 DEF Told, Writes, Reliable, ChildKinds
  <2>3. api.ds[s] \in DSWants /\ api.lb[s] \in LBWants
    BY <2>1, StoreFields, ValuesOfKinds DEF ControllerInv, StoreTyped
  <2>4. CASE api.svc[s].cond = "Reconciled"
    <3>1. AsWanted("ds", s) /\ AsWanted("lb", s)
      BY <2>1, <2>2, <2>4 DEF Progress
    <3>2. api.ds[s] = BuildDaemonSet(api.svc[s].spec)
      <4> DEFINE want == BuildDaemonSet(api.svc[s].spec)
      <4>1. \A slot \in Slots("ds") : api.ds[s][slot] = want[slot]
        BY <3>1 DEF AsWanted, WantOf, SameSpec
      <4>2. want = [slot \in Slots("ds") |-> want[slot]]
        BY DEF BuildDaemonSet
      <4> HIDE DEF want
      <4>3. api.ds[s] = want
        BY <2>3, <4>1, <4>2 DEF DSWants
      <4> QED
        BY <4>3 DEF want
    <3>3. \A p \in Ports :
             SameSpec("lb", api.lb[s][p], BuildLBPorts(api.svc[s].spec)[p])
      BY <3>1, SlotsOfKinds DEF AsWanted, WantOf
    <3>4. api.svc[s].ips = nodePublicIPs
      BY <2>1, <2>4 DEF Told, AddressesTold
    <3> QED
      BY <2>4, <3>2, <3>3, <3>4
  <2>5. CASE api.svc[s].cond # "Reconciled"
    <3>1. NoneLeft("lb", s)
      BY <2>1, <2>2, <2>5 DEF Progress
    <3>2. Present(api.lb[s]) = {}
      BY <2>3, <3>1 DEF NoneLeft, Present, LBWants
    <3>3. api.svc[s].ips = {}
      BY <2>1, <2>5 DEF Told, AddressesTold
    <3> QED
      BY <2>5, <3>2, <3>3
  <2> QED
    BY <2>4, <2>5
<1> QED
  BY <1>1, StatusInvariant, PTL
=============================================================================
