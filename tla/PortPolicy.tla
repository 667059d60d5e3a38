----------------------------- MODULE PortPolicy -----------------------------
(***************************************************************************)
(* Which ports a node's firewall-agent opens for a given list of LBPorts   *)
(* (internal/firewall/firewall.go: DesiredPortsForNode, Filter,            *)
(* appliesToNode, and the key comparison of updateLBPortStatuses).         *)
(*                                                                         *)
(* An LBPort's name contains its port and protocol (LBPortName), so the    *)
(* PortKey is a function of the name; Absent marks a name that no object   *)
(* has.  A PortKey's protocol is already normalised (protocolString).      *)
(***************************************************************************)
EXTENDS Naturals

CONSTANTS
    Names,      \* names of LBPorts
    KeyOf,      \* the PortKey of each
    NodeLists,  \* the values of spec.nodes
    ThisNode,   \* the agent's NodeName
    Absent      \* no object

allNodesToken == "*"

PortNumbers == 1..65535

PortKey == [port : PortNumbers, protocol : {"tcp", "udp"}]

(* Of status.appliedNodes the agent reads and writes only its own entry.   *)
LBPort == [nodes : NodeLists, allowPrivileged : BOOLEAN, applied : BOOLEAN]

ASSUME PolicyAssumption ==
    /\ KeyOf \in [Names -> PortKey]
    /\ Absent \notin LBPort

Existing(lbports) == {n \in Names : lbports[n] # Absent}

appliesToNode(lbport) == {allNodesToken, ThisNode} \cap lbport.nodes # {}

DesiredPortsForNode(lbports) ==
    {KeyOf[n] : n \in {m \in Existing(lbports) : appliesToNode(lbports[m])}}

(* Several LBPorts may ask for one port; one allowPrivileged is enough.    *)
PrivilegedAllowed(lbports, key) ==
    \E n \in Existing(lbports) :
        /\ appliesToNode(lbports[n])
        /\ KeyOf[n] = key
        /\ lbports[n].allowPrivileged

\* Mutant: the privileged check is made for each LBPort, not for the port.
MutFilterIgnoresPrivileged(lbports, deniedPorts) ==
    {key \in DesiredPortsForNode(lbports) : key.port \notin deniedPorts}

Filter(lbports, deniedPorts) ==
    {key \in DesiredPortsForNode(lbports) :
        /\ key.port \notin deniedPorts
        /\ key.port >= 1024 \/ PrivilegedAllowed(lbports, key)}

ShouldApply(lbports, n, applied) ==
    appliesToNode(lbports[n]) /\ KeyOf[n] \in applied
=============================================================================
