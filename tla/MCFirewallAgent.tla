--------------------------- MODULE MCFirewallAgent ---------------------------
(* LBPorts a and b belong to different Services and ask for the same       *)
(* privileged port, which takes the consent of either; spec.nodes names    *)
(* all nodes or only another node.                                         *)
EXTENDS FirewallAgent, TLC

CONSTANTS a, b

Dns == [port |-> 53, protocol |-> "udp"]

MCKeys == {Dns}
MCKeyOf == (a :> Dns) @@ (b :> Dns)
MCNodeLists == {{allNodesToken}, {"other"}}
MCReads == <<>>

\* A restart may bring a denylist with the port, or one without it.
MCDenyLists == {{}, {53}}

Limits(edit, crash, fault, statusFault, host) ==
    ("edit" :> edit) @@ ("crash" :> crash) @@ ("fault" :> fault)
        @@ ("statusFault" :> statusFault) @@ ("host" :> host)

\* Two edits, a crash, a failing call, a status write that fails and a host
\* event, in any order.
MCBudget == Limits(2, 1, 1, 1, 1)
=============================================================================
