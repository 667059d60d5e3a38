-------------------------- MODULE FirewalldBackend --------------------------
(***************************************************************************)
(* The firewalld backend of the firewall-agent                             *)
(* (internal/firewall/firewalld.go, state.go): one call of Apply brings a  *)
(* firewalld zone to the desired set of ports, and a node-local state file *)
(* remembers which ports bulb opened, so that only those are ever closed.  *)
(*                                                                         *)
(* Apply is a sequence of D-Bus calls with no transaction around them.     *)
(* Between any two of them an operator may change the zone, firewalld may  *)
(* be reloaded, a call may fail, or the agent may die.  Every D-Bus call   *)
(* is therefore an action of its own.  The loops run over a sorted slice;  *)
(* the model takes the ports of a loop in any order.                       *)
(***************************************************************************)
EXTENDS FiniteSets

CONSTANTS
    Keys,       \* PortKeys: (port, protocol) pairs the agent can be asked for
    Foreign,    \* zone entries that are no PortKey: port ranges, SCTP ports
    Reads       \* the PortKey GetPorts makes of such an entry

ASSUME BackendAssumption ==
    /\ Reads \in [Foreign -> Keys]
    /\ Keys \cap Foreign = {}

VARIABLES
    bulbOpen,      \* zone entries that a call of AddPort created
    operatorOpen,  \* zone entries that somebody else created
    stateFile,     \* the ports the state file lists
    phase,         \* "idle", or "applying" while a call of Apply is running
    toAdd,         \* Apply's toAdd, less the ports already added
    toRemove,      \* Apply's toRemove, less the ports already removed
    nextManaged    \* what the call will save

VARIABLES          \* history, read by no action
    opened,        \* ports bulb has ever opened
    added,         \* ports the running call has opened
    interrupted    \* open ports opened by a call that never saved its state

zoneVars == <<bulbOpen, operatorOpen>>
callVars == <<phase, toAdd, toRemove, nextManaged, added>>
backendVars == <<zoneVars, stateFile, callVars, opened, interrupted>>

Entries == Keys \cup Foreign

Zone == bulbOpen \cup operatorOpen

BackendTypeOK ==
    /\ bulbOpen \subseteq Keys
    /\ operatorOpen \subseteq Entries
    /\ bulbOpen \cap operatorOpen = {}
    /\ stateFile \subseteq Keys
    /\ phase \in {"idle", "applying"}
    /\ toAdd \subseteq Keys
    /\ toRemove \subseteq Keys
    /\ nextManaged \subseteq Keys
    /\ opened \subseteq Keys
    /\ added \subseteq Keys
    /\ interrupted \subseteq Keys

-----------------------------------------------------------------------------
(* What the zone looks like through the D-Bus client.  parsePort reads the *)
(* first number of a range and protocolFromString reads every protocol but *)
(* UDP as TCP, so an entry that is no PortKey is reported as one.          *)

GetPorts == (Zone \cap Keys) \cup {Reads[f] : f \in Zone \cap Foreign}

PortsToAdd(desired) == desired \ GetPorts

\* Mutant: the diff is taken against everything open, not what is tracked.
MutRemoveUntracked(desired) == GetPorts \ desired

\* Mutant: every tracked port is closed, also one that is still desired.
MutRemoveDesired(desired) == stateFile \cap GetPorts

PortsToRemove(desired) == (stateFile \cap GetPorts) \ desired

\* Mutant: every desired port becomes managed, whoever opened it.
MutAdoptDesired(desired) == desired

\* Mutant: the ports the call adds itself are forgotten.
MutForgetAdded(desired) == stateFile \cap desired \cap GetPorts

nextManagedPorts(desired) ==
    (stateFile \cap desired \cap GetPorts) \cup PortsToAdd(desired)

-----------------------------------------------------------------------------
(* One call of Apply.                                                      *)

(* Load the state file and read the zone: the call works from this         *)
(* snapshot until it ends.                                                 *)
BeginApply(desired) ==
    /\ phase = "idle"
    /\ phase' = "applying"
    /\ toAdd' = PortsToAdd(desired)
    /\ toRemove' = PortsToRemove(desired)
    /\ nextManaged' = nextManagedPorts(desired)
    /\ added' = {}
    /\ UNCHANGED <<zoneVars, stateFile, opened, interrupted>>

(* firewalld refuses a port the zone already has: if an operator was       *)
(* faster, the call fails (ApplyFails).                                    *)
AddPort(k) ==
    /\ phase = "applying"
    /\ k \in toAdd \ Zone
    /\ bulbOpen' = bulbOpen \cup {k}
    /\ toAdd' = toAdd \ {k}
    /\ added' = added \cup {k}
    /\ opened' = opened \cup {k}
    /\ UNCHANGED <<operatorOpen, stateFile, phase, toRemove, nextManaged,
                   interrupted>>

(* The second loop.  firewalld refuses a port the zone does not have, and  *)
(* does not care who opened the one it has.                                *)
RemovePort(k) ==
    /\ phase = "applying"
    /\ toAdd = {}
    /\ k \in toRemove \cap Zone
    /\ bulbOpen' = bulbOpen \ {k}
    /\ operatorOpen' = operatorOpen \ {k}
    /\ toRemove' = toRemove \ {k}
    /\ interrupted' = interrupted \ {k}
    /\ UNCHANGED <<stateFile, phase, toAdd, nextManaged, added, opened>>

(* The call has returned or its process is gone: nothing of it is left.    *)
CallEnds ==
    /\ phase' = "idle"
    /\ toAdd' = {}
    /\ toRemove' = {}
    /\ nextManaged' = {}
    /\ added' = {}

(* Save renames a complete temporary file over the old one.                *)
Save ==
    /\ phase = "applying"
    /\ toAdd = {}
    /\ toRemove = {}
    /\ stateFile' = nextManaged
    /\ CallEnds
    /\ UNCHANGED <<zoneVars, opened, interrupted>>

(* Load, a D-Bus call or Save returns an error, or the agent dies: what    *)
(* the call did to the zone stays, and the state file does not know of it. *)
ApplyFails ==
    /\ phase = "applying"
    /\ CallEnds
    /\ interrupted' = interrupted \cup (added \cap bulbOpen)
    /\ UNCHANGED <<zoneVars, stateFile, opened>>

-----------------------------------------------------------------------------
(* The rest of the host.                                                   *)

OperatorOpens(e) ==
    /\ e \in Entries \ Zone
    /\ operatorOpen' = operatorOpen \cup {e}
    /\ UNCHANGED <<bulbOpen, stateFile, callVars, opened, interrupted>>

OperatorCloses(e) ==
    /\ e \in Zone
    /\ bulbOpen' = bulbOpen \ {e}
    /\ operatorOpen' = operatorOpen \ {e}
    /\ interrupted' = interrupted \ {e}
    /\ UNCHANGED <<stateFile, callVars, opened>>

(* bulb's ports are runtime configuration (timeout 0, never permanent):    *)
(* a reload of firewalld drops them and keeps the permanent ones.          *)
Reload ==
    /\ bulbOpen' = {}
    /\ interrupted' = {}
    /\ UNCHANGED <<operatorOpen, stateFile, callVars, opened>>

-----------------------------------------------------------------------------
(* What an operator may have opened before the agent first ran.            *)
BackendInit ==
    /\ bulbOpen = {}
    /\ operatorOpen \in SUBSET Entries
    /\ stateFile = {}
    /\ phase = "idle"
    /\ toAdd = {}
    /\ toRemove = {}
    /\ nextManaged = {}
    /\ opened = {}
    /\ added = {}
    /\ interrupted = {}

ApplyStep ==
    \/ \E k \in Keys : AddPort(k) \/ RemovePort(k)
    \/ Save

HostStep ==
    \/ \E e \in Entries : OperatorOpens(e) \/ OperatorCloses(e)
    \/ Reload

BackendNext ==
    \/ \E desired \in SUBSET Keys : BeginApply(desired)
    \/ ApplyStep
    \/ ApplyFails
    \/ HostStep

BackendSpec == BackendInit /\ [][BackendNext]_backendVars

-----------------------------------------------------------------------------
(* Properties.                                                             *)

(* Apply closes a port it did not open only if bulb opened the same port   *)
(* at some earlier time: a port that was never bulb's stays open, whatever *)
(* fails, reloads or is changed by hand in between.                        *)
NeverClosesForeignPort ==
    [][\A e \in operatorOpen \ operatorOpen' :
           OperatorCloses(e) \/ e \in opened]_backendVars

(* The state file never adopts a port that was open already: what Save     *)
(* adds to it, the very call that saves has opened itself.                 *)
NeverAdoptsForeignPort ==
    [][stateFile' \ stateFile \subseteq added]_backendVars

(* Everything bulb has opened and not closed is tracked (in the state      *)
(* file, or about to be saved by the running call), except what a call     *)
(* opened that was interrupted before its Save.                            *)
OpenPortsAccountedFor ==
    bulbOpen \subseteq stateFile \cup nextManaged \cup interrupted
=============================================================================
