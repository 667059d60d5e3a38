----------------------------- MODULE MCBackends -----------------------------
(***************************************************************************)
(* Two ports, one of each protocol, and for firewalld two entries that are *)
(* read as the first of them: a range that begins with it, and the SCTP    *)
(* port of the same number.  A call can be cut off between any two         *)
(* commands, with rules to add, to delete, and both.                       *)
(***************************************************************************)
EXTENDS Backends, TLC

CONSTANTS web, dns, range1, sctp1

MCKeys == {web, dns}
MCUDPKeys == {dns}
MCForeign == {range1, sctp1}
MCReads == [f \in MCForeign |-> web]
MCCovers == (range1 :> {web}) @@ (sctp1 :> {})

AllBackends == {"firewalld", "iptables", "nftables"}
NFTablesOnly == {"nftables"}

\* Open, then close; one command fails or the agent dies; the host interferes twice.
MCLimit == ("edit" :> 2) @@ ("fault" :> 1) @@ ("host" :> 2)

\* Nothing goes wrong.
QuietLimit == ("edit" :> 2) @@ ("fault" :> 0) @@ ("host" :> 0)
=============================================================================
