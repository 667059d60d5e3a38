---------------------------- MODULE LabelerProofs ----------------------------
(***************************************************************************)
(* What the labeler publishes, for any addresses, any lists of them and    *)
(* any interleaving with the host and the other writers of the Node.       *)
(***************************************************************************)
EXTENDS Labeler, SequenceTheorems, WellFoundedInduction, TLAPS

(* Nothing, or an address of a kind that may be published and that the     *)
(* interface has had.                                                      *)
Held(kinds) == {None} \cup {a \in held : KindOf[a] \in kinds}

(* An address is on its way from the interface to the Node in found and in *)
(* patched, while the interface may already have others.                   *)
OnItsWay ==
    /\ found \in [ipv4 : Held({"public4"}),
                  ipv6 : Held({"global6", "unique6"})]
    /\ patched \in [ipv4 : Held({"public4"}),
                    ipv6 : Held({"global6", "unique6"}), cordoned : BOOLEAN]
    /\ node \in [ipv4 : Held({"public4"}),
                 ipv6 : Held({"global6", "unique6"}), cordoned : BOOLEAN]

LabelerInv ==
    /\ addrs \in AddrLists
    /\ ToSet(addrs) \subseteq held
    /\ OnItsWay

-----------------------------------------------------------------------------
(* There is a first address in a list that has any.                        *)
LEMMA FirstExists ==
    ASSUME NEW T, T \subseteq Nat, T # {}
    PROVE  Min(T) \in T
<1>1. PICK x \in T : \A y \in T : ~(<<y, x>> \in OpToRel(<, Nat))
  BY NatLessThanWellFounded, WFMin
<1>2. \A y \in T : x \in Nat /\ y \in Nat /\ ~(y < x)
  BY <1>1 DEF OpToRel
<1>3. \A y \in T : x <= y
  BY <1>2
<1> QED
  BY <1>3 DEF Min

(* detectPublicIPs finds nothing, or what the interface has now.           *)
LEMMA DetectedHeld ==
    ASSUME LabelerInv, NEW kinds
    PROVE  FirstOf(kinds) \in Held(kinds)
<1> DEFINE at == {i \in DOMAIN addrs : KindOf[addrs[i]] \in kinds}
<1>1. DOMAIN addrs \subseteq Nat /\ \A i \in DOMAIN addrs : addrs[i] \in held
  <2>1. addrs \in Seq(DOMAIN KindOf)
    BY LabelerAssumption DEF LabelerInv
  <2>2. DOMAIN addrs = 1..Len(addrs) /\ Len(addrs) \in Nat
    BY <2>1, LenProperties
  <2> QED
    BY <2>2 DEF LabelerInv, ToSet
<1>2. at \subseteq Nat
  BY <1>1
<1>3. CASE at = {}
  BY <1>3 DEF FirstOf, Held
<1>4. CASE at # {}
  <2>1. Min(at) \in at
    BY <1>2, <1>4, FirstExists
  <2>2. FirstOf(kinds) = addrs[Min(at)]
    BY <1>4 DEF FirstOf
  <2> QED
    BY <1>1, <2>1, <2>2 DEF Held
<1> QED
  BY <1>3, <1>4

(* What the interface has had it has had for ever.                         *)
LEMMA HeldGrows ==
    ASSUME held \subseteq held', NEW kinds
    PROVE  Held(kinds) \subseteq Held(kinds)'
BY DEF Held

LEMMA LabelerInit == Init => LabelerInv
BY DEF Init, LabelerInv, OnItsWay, Held

LEMMA LabelerNext ==
    ASSUME LabelerInv, [Next]_vars
    PROVE  LabelerInv'
<1> USE DEF LabelerInv
<1>h. ASSUME UNCHANGED hostVars
      PROVE  /\ addrs' \in AddrLists /\ ToSet(addrs') \subseteq held'
             /\ \A kinds : Held(kinds)' = Held(kinds)
  BY <1>h DEF hostVars, Held
<1>1. CASE Detect
  <2>1. found' \in [ipv4 : Held({"public4"}),
                    ipv6 : Held({"global6", "unique6"})]
    BY <1>1, DetectedHeld DEF Detect, detectPublicIPs
  <2> QED
    BY <1>1, <1>h, <2>1 DEF Detect, OnItsWay
<1>2. CASE GetNode
  <2>1. Annotated(node) \in [ipv4 : Held({"public4"}),
            ipv6 : Held({"global6", "unique6"}), cordoned : BOOLEAN]
    BY DEF Annotated, OnItsWay
  <2> QED
    BY <1>2, <1>h, <2>1 DEF GetNode, OnItsWay
<1>3. CASE Update
  BY <1>3, <1>h DEF Update, OnItsWay
<1>4. CASE NoDefaultRoute \/ GetNodeUnchanged \/ Conflict
             \/ Tick \/ Start \/ Fault \/ Stop
  <2>1. UNCHANGED <<hostVars, found, patched, node>>
    BY <1>4 DEF NoDefaultRoute, GetNodeUnchanged, Conflict, Tick, Start, Fault,
                Stop
  <2> QED
    BY <1>h, <2>1 DEF OnItsWay
<1>5. CASE AddressesChange
  <2>1. UNCHANGED <<found, patched, node>> /\ held \subseteq held'
    BY <1>5 DEF AddressesChange, procVars
  <2>2. OnItsWay'
    BY <2>1, HeldGrows DEF OnItsWay
  <2> QED
    BY <1>5, <2>2 DEF AddressesChange
<1>6. CASE RouteChanges
  BY <1>6 DEF RouteChanges, procVars, OnItsWay, Held
<1>7. CASE Cordon
  <2>1. node' \in [ipv4 : Held({"public4"}),
            ipv6 : Held({"global6", "unique6"}), cordoned : BOOLEAN]
    BY <1>7 DEF Cordon, OnItsWay
  <2> QED
    BY <1>7, <1>h, <2>1 DEF Cordon, procVars, OnItsWay
<1>8. CASE UNCHANGED vars
  BY <1>8, <1>h DEF vars, procVars, OnItsWay
<1> QED
  BY <1>1, <1>2, <1>3, <1>4, <1>5, <1>6, <1>7, <1>8 DEF Next, Reconcile

(* Every address on the Node has been the node's own, and is of a kind     *)
(* that detectPublicIPs takes for public, however old it is by the time    *)
(* that it is written.                                                     *)
THEOREM PublishedArePublic == Spec => []PublishedWasPublic
<1>1. LabelerInv => PublishedWasPublic
  BY DEF LabelerInv, OnItsWay, Held, PublishedWasPublic, nodePublicIPs
<1>2. LabelerInv /\ [Next]_vars => LabelerInv'
  BY LabelerNext
<1> QED
  BY <1>1, <1>2, LabelerInit, PTL DEF Spec

-----------------------------------------------------------------------------
(* Until somebody else writes the Node, what is about to be written is the *)
(* Node as it is, with the annotations.                                    *)
PatchIsCurrent == pc = "update" /\ current => patched = Annotated(node)

(* While the read of the Node and its update are two calls, the labeler    *)
(* undoes no write that came in between, and withdraws no address.         *)
OthersKept ==
    Reconcile => /\ node'.cordoned = node.cordoned
                 /\ \A f \in {"ipv4", "ipv6"} : node[f] # None => node'[f] # None

LEMMA PatchStaysCurrent ==
    ASSUME PatchIsCurrent, [Next]_vars
    PROVE  PatchIsCurrent'
<1>1. CASE GetNode
  BY <1>1 DEF GetNode, PatchIsCurrent, Annotated
<1>2. CASE Cordon
  BY <1>2 DEF Cordon, PatchIsCurrent
<1>3. CASE Detect \/ NoDefaultRoute \/ GetNodeUnchanged \/ Update \/ Conflict
             \/ Tick \/ Start \/ Fault \/ Stop
  <2>1. pc' # "update"
    BY <1>3 DEF Detect, NoDefaultRoute, GetNodeUnchanged, Update, Conflict,
                Tick, Start, Fault, Stop, ReconcileEnds
  <2> QED
    BY <2>1 DEF PatchIsCurrent
<1>4. CASE AddressesChange \/ RouteChanges \/ UNCHANGED vars
  <2>1. UNCHANGED <<pc, current, patched, node, found>>
    BY <1>4 DEF AddressesChange, RouteChanges, vars, procVars
  <2> QED
    BY <2>1 DEF PatchIsCurrent, Annotated
<1> QED
  BY <1>1, <1>2, <1>3, <1>4 DEF Next, Reconcile

(* A write of another owner of the Node between annotateNode's read and    *)
(* its update is never undone, and an address that is on the Node is       *)
(* replaced but never withdrawn, for any addresses, faults and restarts.   *)
THEOREM OtherWritesSurvive == Spec => [][OthersKept]_vars
<1>1. Init => PatchIsCurrent
  BY DEF Init, PatchIsCurrent
<1>2. PatchIsCurrent /\ [Next]_vars => PatchIsCurrent'
  BY PatchStaysCurrent
<1>3. LabelerInv /\ PatchIsCurrent /\ [Next]_vars => [OthersKept]_vars
  <2> SUFFICES ASSUME LabelerInv, PatchIsCurrent, Reconcile
               PROVE  OthersKept
    BY DEF OthersKept
  <2>1. CASE Update
    <3>1. node' = Annotated(node)
      BY <2>1 DEF Update, PatchIsCurrent
    <3>2. node \in [ipv4 : Held({"public4"}),
              ipv6 : Held({"global6", "unique6"}), cordoned : BOOLEAN]
      BY DEF LabelerInv, OnItsWay
    <3>3. /\ node'.cordoned = node.cordoned
          /\ node.ipv4 # None => node'.ipv4 # None
          /\ node.ipv6 # None => node'.ipv6 # None
      BY <3>1, <3>2 DEF Annotated
    <3> QED
      BY <3>3 DEF OthersKept
  <2>2. CASE ~Update
    <3>1. node' = node
      BY <2>2 DEF Reconcile, Detect, NoDefaultRoute, GetNode, GetNodeUnchanged,
                  Conflict, Tick, Start
    <3> QED
      BY <3>1 DEF OthersKept
  <2> QED
    BY <2>1, <2>2
<1>4. LabelerInv /\ [Next]_vars => LabelerInv'
  BY LabelerNext
<1> QED
  BY <1>1, <1>2, <1>3, <1>4, LabelerInit, PTL DEF Spec
=============================================================================
