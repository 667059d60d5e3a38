------------------------------ MODULE Backends ------------------------------
(***************************************************************************)
(* The three firewall backends behind one interface (NewBackend,           *)
(* internal/firewall/backend.go), called by an agent that wants a set of   *)
(* ports: after every event, after every error, and every few hours as     *)
(* long as there are LBPorts.  The backend is chosen when the agent is     *)
(* installed and does not change.                                          *)
(*                                                                         *)
(* Each of them is shown to implement FirewallContract.                    *)
(***************************************************************************)
EXTENDS FirewalldBackend, Naturals, Sequences

CONSTANTS
    Covers,    \* the ports an entry of a zone that is no PortKey really opens
    UDPKeys,   \* the PortKeys with protocol UDP
    MaxCopies, \* see NFTablesBackend
    Choices,   \* --backend
    Limit      \* how often each kind of outside event may happen

Events == {"edit", "fault", "host"}

ASSUME BackendsAssumption ==
    /\ Choices \subseteq {"firewalld", "iptables", "nftables"}
    /\ Limit \in [Events -> Nat]
    /\ Covers \in [Foreign -> SUBSET Keys]
    /\ UDPKeys \subseteq Keys
    /\ MaxCopies \in Nat \ {0}

VARIABLES
    backend,     \* the one in use
    wanted,      \* the ports the LBPorts ask for
    queued,      \* the agent's work queue holds a request
    target,      \* desired, as the last or running call was given it
    reported,    \* that call has returned nil
    disturbed,   \* somebody else changed the firewall since that call began
    obstructed,  \* families with a rule of an operator ahead of bulb's jump
    left         \* what is left of Limit

VARIABLES input, chains, accepts, stage, binary, toDelete, toAppend
VARIABLES elements, copies, emptyTaken, nftStage

IPT == INSTANCE IPTablesBackend WITH Ports <- Keys, want <- target
NFT == INSTANCE NFTablesBackend
           WITH Ports <- Keys, UDPPorts <- UDPKeys, want <- target

iptablesVars ==
    <<input, chains, accepts, stage, binary, toDelete, toAppend>>
nftVars == <<elements, copies, emptyTaken, nftStage>>
settingVars == <<backend, wanted, target, disturbed, obstructed, left>>
agentVars == <<settingVars, queued, reported>>
firewallVars == <<backendVars, iptablesVars, nftVars>>
vars == <<agentVars, firewallVars>>

Busy == phase = "applying" \/ stage # "off" \/ nftStage # "off"

Families == {"ipv4", "ipv6"}

BinaryOf(f) == IF f = "ipv4" THEN "iptables" ELSE "ip6tables"

(* What a firewalld zone lets in: a range its ports, an entry for SCTP     *)
(* neither a TCP nor a UDP port.  This is not what GetPorts makes of it.   *)
OpenInZone == (Zone \cap Keys) \cup UNION {Covers[f] : f \in Zone \cap Foreign}

(* What the backend's firewall lets in.  A port of a firewalld zone, and   *)
(* one of a table of the family inet, is open to both families.            *)
Admits(f) ==
    CASE backend = "firewalld" -> OpenInZone
      [] backend = "iptables" -> IPT!Admitted(BinaryOf(f))
      [] backend = "nftables" -> NFT!Accepted

(* The types of the three backends; a chain of iptables that does not      *)
(* exist has no rules, and no rule is appended that the chain has.         *)
BackendsTypeOK ==
    /\ BackendTypeOK
    /\ IPT!IPTablesTypeOK
    /\ NFT!NFTablesTypeOK
    /\ backend \in Choices
    /\ wanted \subseteq Keys
    /\ target \subseteq Keys
    /\ queued \in BOOLEAN
    /\ reported \in BOOLEAN
    /\ disturbed \in BOOLEAN
    /\ obstructed \subseteq Families
    /\ left \in [Events -> Nat]

Spend(kind) ==
    /\ left[kind] > 0
    /\ left' = [left EXCEPT ![kind] = @ - 1]

-----------------------------------------------------------------------------
(* A call of Apply.  A request comes from an event or from a failed call;  *)
(* LBPorts that exist are listed again every few hours.                    *)
Call ==
    /\ ~Busy
    /\ queued \/ wanted # {}
    /\ queued' = FALSE
    /\ target' = wanted
    /\ reported' = FALSE
    /\ disturbed' = FALSE
    /\ \/ /\ backend = "firewalld"
          /\ BeginApply(wanted)
          /\ UNCHANGED <<iptablesVars, nftVars>>
       \/ /\ backend = "iptables"
          /\ IPT!BeginApply
          /\ UNCHANGED <<backendVars, nftVars>>
       \/ /\ backend = "nftables"
          /\ NFT!BeginApply
          /\ UNCHANGED <<backendVars, iptablesVars>>
    /\ UNCHANGED <<backend, wanted, obstructed, left>>

(* Apply returns nil, or an error: then the queue retries the request.     *)
Reports == reported' = TRUE /\ UNCHANGED queued
Retries == queued' = TRUE /\ UNCHANGED reported

(* firewalld refuses to add what is there and to remove what is not.       *)
ZoneRefuses ==
    /\ phase = "applying"
    /\ IF toAdd # {} THEN toAdd \cap Zone # {}
                     ELSE toRemove \ Zone # {}

FirewalldRuns ==
    /\ \/ /\ \E k \in Keys : AddPort(k) \/ RemovePort(k)
          /\ UNCHANGED <<queued, reported>>
       \/ Save /\ Reports
       \/ ZoneRefuses /\ ApplyFails /\ Retries
    /\ UNCHANGED <<settingVars, iptablesVars, nftVars>>

IPTablesRuns ==
    /\ \/ IPT!ApplyStep /\ UNCHANGED <<queued, reported>>
       \/ IPT!ApplyReturns /\ Reports
       \/ IPT!Refused /\ IPT!ApplyFails /\ Retries
    /\ UNCHANGED <<settingVars, backendVars, nftVars>>

NFTablesRuns ==
    /\ \/ NFT!ListTable /\ UNCHANGED <<queued, reported>>
       \/ NFT!LoadRuleset /\ Reports
       \/ NFT!Refused /\ NFT!ApplyFails /\ Retries
    /\ UNCHANGED <<settingVars, backendVars, iptablesVars>>

Runs == FirewalldRuns \/ IPTablesRuns \/ NFTablesRuns

CutOff ==
    \/ ApplyFails /\ UNCHANGED <<iptablesVars, nftVars>>
    \/ IPT!ApplyFails /\ UNCHANGED <<backendVars, nftVars>>
    \/ NFT!ApplyFails /\ UNCHANGED <<backendVars, iptablesVars>>

(* A command fails.                                                        *)
Fault ==
    /\ Spend("fault")
    /\ CutOff
    /\ Retries
    /\ UNCHANGED <<backend, wanted, target, disturbed, obstructed>>

(* The agent dies and starts again.  It reconciles for the LBPorts it      *)
(* finds; without any, nothing calls Apply.                                *)
Restart ==
    /\ Spend("fault")
    /\ CutOff \/ (~Busy /\ UNCHANGED firewallVars)
    /\ queued' = (wanted # {})
    /\ UNCHANGED <<backend, wanted, target, reported, disturbed, obstructed>>

-----------------------------------------------------------------------------
(* Everybody else.                                                         *)

Edit ==
    /\ Spend("edit")
    /\ \E ports \in SUBSET Keys \ {wanted} : wanted' = ports
    /\ queued' = TRUE
    /\ UNCHANGED <<backend, target, reported, disturbed, obstructed,
                   firewallVars>>

Host ==
    /\ Spend("host")
    /\ disturbed' = TRUE
    /\ \/ /\ backend = "firewalld"
          /\ HostStep
          /\ UNCHANGED <<obstructed, iptablesVars, nftVars>>
       \/ /\ backend = "iptables"
          /\ \E f \in Families :
                \/ /\ IPT!RestoreRuleset(BinaryOf(f))
                      \/ IPT!FlushRules(BinaryOf(f))
                   /\ obstructed' = obstructed \ {f}
                \/ /\ IPT!Prepend(BinaryOf(f), "other")
                   /\ obstructed' = IF IPT!Jumps(BinaryOf(f)) > 0
                                      THEN obstructed \cup {f}
                                      ELSE obstructed
                \/ /\ IPT!Prepend(BinaryOf(f), "jump")
                   /\ UNCHANGED obstructed
          /\ UNCHANGED <<backendVars, nftVars>>
       \/ /\ backend = "nftables"
          /\ NFT!FlushRuleset
          /\ UNCHANGED <<obstructed, backendVars, iptablesVars>>
    /\ UNCHANGED <<backend, wanted, queued, target, reported>>

-----------------------------------------------------------------------------
(* NewBackend.                                                             *)
Init ==
    /\ backend \in Choices
    /\ BackendInit
    /\ backend # "firewalld" => operatorOpen = {}
    /\ IPT!Init
    /\ NFT!Init
    /\ backend # "nftables" => emptyTaken
    /\ wanted = {}
    /\ queued = FALSE
    /\ target = {}
    /\ reported = FALSE
    /\ disturbed = FALSE
    /\ obstructed = {}
    /\ left = Limit

Next == Call \/ Runs \/ Fault \/ Restart \/ Edit \/ Host

Spec == Init /\ [][Next]_vars

(* A request is taken from the queue, LBPorts that exist are listed again  *)
(* (the informer's resync), and a call goes on.                            *)
FairSpec == Spec /\ WF_vars(Call) /\ WF_vars(Runs)

-----------------------------------------------------------------------------
(* bulb's chain accepts ports and INPUT does not jump to it: somebody has  *)
(* flushed INPUT.  The next call inserts the jump before it looks at the   *)
(* chain, so a port that is no longer wanted is admitted for a moment.     *)
Unhooked == \E b \in IPT!Binaries : accepts[b] # {} /\ IPT!Jumps(b) = 0

(* Of these ports GetPorts says they are open because of an entry that     *)
(* opens something else: protocolFromString takes SCTP for TCP.  Apply     *)
(* does not add them (firewalld.go:81).                                    *)
Misread(ports) ==
    {k \in ports : \E f \in Zone \cap Foreign : Reads[f] = k /\ k \notin Covers[f]}

(* Every backend implements the contract: no command of a call takes it    *)
(* away from its target, and a call that returns nil has met the target in *)
(* both families, whatever failed, restarted or was changed by others in   *)
(* earlier calls (the Apply of firewalld.go, iptables.go, nftables.go).    *)
(* Nothing is promised while the zone has an entry that is misread as a    *)
(* port of the target.                                                     *)
Contract ==
    INSTANCE FirewallContract
        WITH Ports <- Keys,
             exact <- (backend = "iptables"),
             rules <- [f \in Families |-> Admits(f)],
             busy <- Busy,
             disturbed <- (\/ disturbed
                           \/ obstructed # {}
                           \/ Unhooked
                           \/ Misread(target) # {})

ImplementsContract == Contract!Spec

(* What keeps a backend from ever succeeding: a second jump to bulb's      *)
(* chain, which Apply reports and does not repair (iptables.go:68), and an *)
(* nft that rejects a list without elements.                               *)
Hopeless ==
    \/ \E b \in IPT!Binaries : IPT!Jumps(b) > 1
    \/ backend = "nftables" /\ ~NFT!Loadable(wanted)

(* The last LBPort is gone, the agent was restarted before it had acted on *)
(* that, and now it has no reason to call Apply.                           *)
Forgotten == wanted = {} /\ ~queued /\ ~(reported /\ target = {})

(* In the end the wanted ports are admitted in both families for good, and *)
(* with iptables no others, through failed commands, restarts and rules    *)
(* that were flushed, unless the calls cannot succeed or are not made, an  *)
(* operator's rule precedes bulb's jump (iptables.go:65-66: one jump is    *)
(* enough, wherever it is), or an entry of the zone is misread as the port.*)
AdmittedInTheEnd ==
    <>[](\/ Hopeless
         \/ Forgotten
         \/ obstructed # {}
         \/ \A f \in Families :
                /\ wanted \ Misread(wanted) \subseteq Admits(f)
                /\ backend = "iptables" => Admits(f) = wanted)

(* README.md:45: "so a deleted Service also closes the port", for the      *)
(* nftables backend with an nft that takes every ruleset of bulb's: in the *)
(* end it accepts no port that is not wanted.  Loading the template adds   *)
(* elements and removes none.                                              *)
NFTablesClosesPorts ==
    backend = "nftables" /\ emptyTaken => <>[](NFT!Accepted \subseteq wanted)
=============================================================================
