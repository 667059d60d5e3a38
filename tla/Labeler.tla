------------------------------- MODULE Labeler -------------------------------
(***************************************************************************)
(* The node-ip-labeler of one node (internal/labeler/labeler.go): it finds *)
(* the addresses of the interface with the IPv4 default route and writes   *)
(* the first public one of each family into annotations of its Node, which *)
(* the controller publishes as the addresses of Services (nodePublicIPs,   *)
(* internal/controller/reconciler.go).                                     *)
(*                                                                         *)
(* Detection, reading the Node and writing it are three steps.  In between *)
(* the addresses change, and others write the Node: the kubelet, and an    *)
(* administrator who cordons it.                                           *)
(***************************************************************************)
EXTENDS Naturals, Sequences, SequencesExt

CONSTANTS
    KindOf,     \* address -> its kind
    AddrLists,  \* the lists of addresses that the interface may have
    None,       \* no address, or no annotation
    Limit       \* how often each kind of outside event may happen

Kinds == {"public4", "private4", "global6", "unique6", "link6"}
Events == {"address", "route", "write", "fault", "stop"}

ASSUME LabelerAssumption ==
    /\ KindOf \in [DOMAIN KindOf -> Kinds]
    /\ None \notin DOMAIN KindOf
    /\ AddrLists \subseteq Seq(DOMAIN KindOf)
    /\ Limit \in [Events -> Nat]

Addresses == DOMAIN KindOf

VARIABLES
    addrs,      \* iface.Addrs(), in order
    route,      \* /proc/net/route has a default route
    node,       \* the Node: its two annotations and spec.unschedulable
    pc,         \* "down", "detect", "get", "update", "wait"
    first,      \* this is runLoop's first reconcileOnce
    found,      \* what detectPublicIPs returned
    patched,    \* the Node to be written
    current,    \* nobody has written the Node since it was read
    held,       \* history: every address the interface has had
    left        \* what is left of Limit

hostVars == <<addrs, route, held>>
procVars == <<pc, first, found, patched>>
vars == <<hostVars, node, procVars, current, left>>

Spend(kind) ==
    /\ left[kind] > 0
    /\ left' = [left EXCEPT ![kind] = @ - 1]

-----------------------------------------------------------------------------
(* defaultDetectPublicIPs.  IPv4 addresses of the private ranges do not    *)
(* count; of IPv6 only loopback and link-local ones are left out, so a     *)
(* unique local address counts as public.                                  *)

FirstOf(kinds) ==
    LET at == {i \in DOMAIN addrs : KindOf[addrs[i]] \in kinds}
    IN  IF at = {} THEN None ELSE addrs[Min(at)]

\* Mutant: private IPv4 addresses count, too.
MutDetectPublicIPs ==
    [ipv4 |-> FirstOf({"public4", "private4"}),
     ipv6 |-> FirstOf({"global6", "unique6"})]

detectPublicIPs ==
    [ipv4 |-> FirstOf({"public4"}), ipv6 |-> FirstOf({"global6", "unique6"})]

\* Mutant: an annotation that exists is not replaced.
MutAnnotated(n) ==
    [n EXCEPT !.ipv4 = IF @ = None THEN found.ipv4 ELSE @,
              !.ipv6 = IF @ = None THEN found.ipv6 ELSE @]

(* annotateNode: an address that was not found leaves its annotation.      *)
Annotated(n) ==
    [n EXCEPT !.ipv4 = IF found.ipv4 = None THEN @ ELSE found.ipv4,
              !.ipv6 = IF found.ipv6 = None THEN @ ELSE found.ipv6]

-----------------------------------------------------------------------------
(* runLoop and reconcileOnce.                                              *)

Start ==
    /\ pc = "down"
    /\ pc' = "detect"
    /\ first' = TRUE
    /\ UNCHANGED <<hostVars, node, found, patched, current, left>>

(* The first error ends the process, a later one is logged.                *)
ReconcileEnds(err) ==
    /\ pc' = IF err /\ first THEN "down" ELSE "wait"
    /\ first' = (err /\ first)

Detect ==
    /\ pc = "detect"
    /\ route
    /\ found' = detectPublicIPs
    /\ pc' = "get"
    /\ UNCHANGED <<hostVars, node, first, patched, current, left>>

NoDefaultRoute ==
    /\ pc = "detect"
    /\ ~route
    /\ ReconcileEnds(TRUE)
    /\ UNCHANGED <<hostVars, node, found, patched, current, left>>

GetNode ==
    /\ pc = "get"
    /\ Annotated(node) # node
    /\ patched' = Annotated(node)
    /\ current' = TRUE
    /\ pc' = "update"
    /\ UNCHANGED <<hostVars, node, first, found, left>>

GetNodeUnchanged ==
    /\ pc = "get"
    /\ Annotated(node) = node
    /\ ReconcileEnds(FALSE)
    /\ UNCHANGED <<hostVars, node, found, patched, current, left>>

(* The write carries the version that was read.                            *)
Update ==
    /\ pc = "update"
    /\ current
    /\ node' = patched
    /\ ReconcileEnds(FALSE)
    /\ UNCHANGED <<hostVars, found, patched, current, left>>

Conflict ==
    /\ pc = "update"
    /\ ~current
    /\ ReconcileEnds(TRUE)
    /\ UNCHANGED <<hostVars, node, found, patched, current, left>>

(* The interface cannot be looked up or its addresses not be listed, or    *)
(* Get or Update fails for another reason than a conflict.                 *)
Fault ==
    /\ pc \in {"detect", "get", "update"}
    /\ Spend("fault")
    /\ ReconcileEnds(TRUE)
    /\ UNCHANGED <<hostVars, node, found, patched, current>>

(* The process is ended, in a round or between two.                        *)
Stop ==
    /\ pc # "down"
    /\ Spend("stop")
    /\ pc' = "down"
    /\ UNCHANGED <<hostVars, node, first, found, patched, current>>

Tick ==
    /\ pc = "wait"
    /\ pc' = "detect"
    /\ UNCHANGED <<hostVars, node, first, found, patched, current, left>>

-----------------------------------------------------------------------------
(* The host and the other writers of the Node.                             *)

AddressesChange ==
    /\ Spend("address")
    /\ addrs' \in AddrLists \ {addrs}
    /\ held' = held \cup ToSet(addrs')
    /\ UNCHANGED <<route, node, procVars, current>>

RouteChanges ==
    /\ Spend("route")
    /\ route' = ~route
    /\ UNCHANGED <<addrs, held, node, procVars, current>>

Cordon ==
    /\ Spend("write")
    /\ node' = [node EXCEPT !.cordoned = ~@]
    /\ current' = FALSE
    /\ UNCHANGED <<hostVars, procVars>>

-----------------------------------------------------------------------------
Init ==
    /\ addrs \in AddrLists
    /\ route \in BOOLEAN
    /\ held = ToSet(addrs)
    /\ node = [ipv4 |-> None, ipv6 |-> None, cordoned |-> FALSE]
    /\ pc = "down"
    /\ first = TRUE
    /\ found = [ipv4 |-> None, ipv6 |-> None]
    /\ patched = node
    /\ current = TRUE
    /\ left = Limit

Reconcile ==
    \/ Detect \/ NoDefaultRoute \/ GetNode \/ GetNodeUnchanged \/ Update
    \/ Conflict \/ Tick \/ Start

Next == Reconcile \/ Fault \/ Stop \/ AddressesChange \/ RouteChanges \/ Cordon

(* The ticker ticks and the DaemonSet restarts the process.                *)
Spec == Init /\ [][Next]_vars /\ WF_vars(Reconcile)

-----------------------------------------------------------------------------
(* The addresses the controller takes from the Node.                       *)
nodePublicIPs == IF node.cordoned THEN {} ELSE {node.ipv4, node.ipv6} \ {None}

(* Whatever is published has been an address of this very node, and an     *)
(* IPv4 address is never a private one.  (An IPv6 address may be a unique  *)
(* local one, labeler.go:55, and may long be gone.)                        *)
PublishedWasPublic ==
    \A a \in nodePublicIPs :
        /\ a \in held
        /\ KindOf[a] # "private4"
        /\ KindOf[a] # "link6"

(* In the end each annotation names the address the node has, provided it  *)
(* has one of that family and an IPv4 default route, through conflicts,    *)
(* failed calls, restarts and addresses that change after they were read   *)
(* (runLoop, annotateNode).  Without an address of its own the node keeps  *)
(* the one it had last (labeler.go:184-191), and without an IPv4 default   *)
(* route nothing is ever looked at (labeler.go:98).                        *)
AnnotationsRightInTheEnd ==
    <>[](route => \A f \in {"ipv4", "ipv6"} :
                      detectPublicIPs[f] # None => node[f] = detectPublicIPs[f])
=============================================================================
