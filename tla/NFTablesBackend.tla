--------------------------- MODULE NFTablesBackend ---------------------------
(***************************************************************************)
(* The nftables backend (internal/firewall/nftables.go): Apply lists       *)
(* bulb's table and then hands nft one ruleset, which the kernel takes as  *)
(* a whole or not at all.                                                  *)
(*                                                                         *)
(* A ruleset file adds: a set that exists keeps its elements and gets the  *)
(* new ones, and the two rules of the chain are appended once more.  The   *)
(* template neither deletes nor flushes the table first.  Whether nft      *)
(* takes a set declared with an empty list of elements depends on its      *)
(* version (emptyTaken).                                                   *)
(***************************************************************************)
EXTENDS Naturals

CONSTANTS
    Ports,
    UDPPorts,   \* the ones with protocol UDP
    MaxCopies   \* copies of the chain's rules that are counted

VARIABLES
    elements,    \* the elements of tcp_ports and udp_ports
    copies,      \* how often the chain has its two rules
    emptyTaken,  \* this nft accepts an empty list of elements
    nftStage,    \* of Apply: "off", "list", "load"
    want         \* of Apply: its argument

NFTablesTypeOK ==
    /\ elements \subseteq Ports
    /\ copies \in 0..MaxCopies
    /\ emptyTaken \in BOOLEAN
    /\ nftStage \in {"off", "list", "load"}

(* The rules accept what the sets list.                                    *)
Accepted == IF copies > 0 THEN elements ELSE {}

(* splitPortsByProtocol: both lists have to be written.                    *)
Loadable(ports) ==
    emptyTaken \/ (ports \cap UDPPorts # {} /\ ports \ UDPPorts # {})

BeginApply ==
    /\ nftStage = "off"
    /\ nftStage' = "list"
    /\ UNCHANGED <<elements, copies, emptyTaken>>

(* A table that does not exist yet is no error.                            *)
ListTable ==
    /\ nftStage = "list"
    /\ nftStage' = "load"
    /\ UNCHANGED <<elements, copies, emptyTaken>>

LoadRuleset ==
    /\ nftStage = "load"
    /\ Loadable(want)
    /\ elements' = elements \cup want
    /\ copies' = IF copies < MaxCopies THEN copies + 1 ELSE copies
    /\ nftStage' = "off"
    /\ UNCHANGED emptyTaken

Refused == nftStage = "load" /\ ~Loadable(want)

ApplyFails ==
    /\ nftStage # "off"
    /\ nftStage' = "off"
    /\ UNCHANGED <<elements, copies, emptyTaken>>

(* nft flush ruleset.                                                      *)
FlushRuleset ==
    /\ elements' = {}
    /\ copies' = 0
    /\ UNCHANGED <<emptyTaken, nftStage>>

Init ==
    /\ elements = {}
    /\ copies = 0
    /\ emptyTaken \in BOOLEAN
    /\ nftStage = "off"
=============================================================================
