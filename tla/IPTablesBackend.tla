--------------------------- MODULE IPTablesBackend ---------------------------
(***************************************************************************)
(* The iptables backend (internal/firewall/iptables.go).  Apply brings a   *)
(* chain of its own to the desired ports and makes INPUT jump to it, first *)
(* with iptables and then with ip6tables.  Each command is atomic and each *)
(* call a sequence of them; what the kernel has is all the state there is. *)
(*                                                                         *)
(* INPUT is a sequence of jumps to the chain and of other rules; a port is *)
(* admitted if the chain accepts it and no other rule comes first.         *)
(***************************************************************************)
EXTENDS Naturals, Sequences, FiniteSets

CONSTANT Ports

Binaries == {"iptables", "ip6tables"}

VARIABLES
    input,     \* binary -> INPUT
    chains,    \* binaries whose chain exists
    accepts,   \* binary -> the ports its chain accepts
    stage,     \* of Apply: "off", or the command that comes next
    binary,    \* of Apply: the binary it is at
    toDelete,  \* of Apply: rules still to be deleted
    toAppend,  \* of Apply: rules still to be appended
    want       \* of Apply: its argument

kernelVars == <<input, chains, accepts>>
diffVars == <<toDelete, toAppend>>

Rule == {"jump", "other"}

IPTablesTypeOK ==
    /\ input \in [Binaries -> Seq(Rule)]
    /\ chains \subseteq Binaries
    /\ accepts \in [Binaries -> SUBSET Ports]
    /\ \A b \in Binaries \ chains : accepts[b] = {}
    /\ stage \in {"off", "chain", "jump", "insert", "list", "change"}
    /\ binary \in Binaries
    /\ toDelete \subseteq Ports
    /\ toAppend \subseteq Ports
    /\ stage = "change" => toAppend \cap accepts[binary] = {}

Jumps(b) == Cardinality({i \in DOMAIN input[b] : input[b][i] = "jump"})

Admitted(b) ==
    IF input[b] # <<>> /\ Head(input[b]) = "jump" THEN accepts[b] ELSE {}

-----------------------------------------------------------------------------
BeginApply ==
    /\ stage = "off"
    /\ stage' = "chain"
    /\ binary' = "iptables"
    /\ UNCHANGED <<kernelVars, diffVars>>

(* ensureChain: an existing chain is no error.                             *)
EnsureChain ==
    /\ stage = "chain"
    /\ chains' = chains \cup {binary}
    /\ stage' = "jump"
    /\ UNCHANGED <<input, accepts, binary, diffVars>>

(* ensureJump: lists INPUT, and inserts unless there is one jump.          *)
EnsureJump ==
    /\ stage = "jump"
    /\ Jumps(binary) <= 1
    /\ stage' = IF Jumps(binary) = 1 THEN "list" ELSE "insert"
    /\ UNCHANGED <<kernelVars, binary, diffVars>>

\* Mutant: the jump goes to the end of INPUT.
MutInsertJump ==
    /\ stage = "insert"
    /\ binary \in chains
    /\ input' = [input EXCEPT ![binary] = Append(@, "jump")]
    /\ stage' = "list"
    /\ UNCHANGED <<chains, accepts, binary, diffVars>>

InsertJump ==
    /\ stage = "insert"
    /\ binary \in chains
    /\ input' = [input EXCEPT ![binary] = <<"jump">> \o @]
    /\ stage' = "list"
    /\ UNCHANGED <<chains, accepts, binary, diffVars>>

\* Mutant: every wanted rule is appended, also one that the chain has.
MutListChain ==
    /\ stage = "list"
    /\ binary \in chains
    /\ toDelete' = accepts[binary] \ want
    /\ toAppend' = want
    /\ stage' = "change"
    /\ UNCHANGED <<kernelVars, binary>>

(* reconcileOwnedRules lists the chain and works from that list.           *)
ListChain ==
    /\ stage = "list"
    /\ binary \in chains
    /\ toDelete' = accepts[binary] \ want
    /\ toAppend' = want \ accepts[binary]
    /\ stage' = "change"
    /\ UNCHANGED <<kernelVars, binary>>

DeleteRule(p) ==
    /\ stage = "change"
    /\ p \in toDelete \cap accepts[binary]
    /\ accepts' = [accepts EXCEPT ![binary] = @ \ {p}]
    /\ toDelete' = toDelete \ {p}
    /\ UNCHANGED <<input, chains, stage, binary, toAppend>>

AppendRule(p) ==
    /\ stage = "change"
    /\ toDelete = {}
    /\ p \in toAppend
    /\ binary \in chains
    /\ accepts' = [accepts EXCEPT ![binary] = @ \cup {p}]
    /\ toAppend' = toAppend \ {p}
    /\ UNCHANGED <<input, chains, stage, binary, toDelete>>

BinaryDone == stage = "change" /\ toDelete = {} /\ toAppend = {}

NextBinary ==
    /\ BinaryDone
    /\ binary = "iptables"
    /\ binary' = "ip6tables"
    /\ stage' = "chain"
    /\ UNCHANGED <<kernelVars, diffVars>>

\* Mutant: Apply ends with the first binary.
MutApplyReturns ==
    /\ BinaryDone
    /\ stage' = "off"
    /\ UNCHANGED <<kernelVars, binary, diffVars>>

ApplyReturns ==
    /\ BinaryDone
    /\ binary = "ip6tables"
    /\ stage' = "off"
    /\ UNCHANGED <<kernelVars, binary, diffVars>>

(* Several jumps are an error, and so is a command on a chain or a rule    *)
(* that has gone since the call looked.                                    *)
Refused ==
    \/ stage = "jump" /\ Jumps(binary) > 1
    \/ stage \in {"insert", "list"} /\ binary \notin chains
    \/ /\ stage = "change"
       /\ \/ toDelete \ accepts[binary] # {}
          \/ toAppend # {} /\ binary \notin chains

(* Apply returns an error, or the agent dies: the kernel keeps the rules.  *)
ApplyFails ==
    /\ stage # "off"
    /\ stage' = "off"
    /\ toDelete' = {}
    /\ toAppend' = {}
    /\ UNCHANGED <<kernelVars, binary>>

-----------------------------------------------------------------------------
(* The host: iptables-restore, iptables -F, a rule in front of the jump,   *)
(* and a second jump.                                                      *)
RestoreRuleset(b) ==
    /\ input' = [input EXCEPT ![b] = <<"other">>]
    /\ chains' = chains \ {b}
    /\ accepts' = [accepts EXCEPT ![b] = {}]
    /\ UNCHANGED <<stage, binary, diffVars>>

FlushRules(b) ==
    /\ input' = [input EXCEPT ![b] = <<>>]
    /\ accepts' = [accepts EXCEPT ![b] = {}]
    /\ UNCHANGED <<chains, stage, binary, diffVars>>

Prepend(b, rule) ==
    /\ rule = "jump" => b \in chains
    /\ input' = [input EXCEPT ![b] = <<rule>> \o @]
    /\ UNCHANGED <<chains, accepts, stage, binary, diffVars>>

-----------------------------------------------------------------------------
Init ==
    /\ input = [b \in Binaries |-> <<"other">>]
    /\ chains = {}
    /\ accepts = [b \in Binaries |-> {}]
    /\ stage = "off"
    /\ binary = "iptables"
    /\ toDelete = {}
    /\ toAppend = {}

ApplyStep ==
    \/ EnsureChain \/ EnsureJump \/ InsertJump \/ ListChain \/ NextBinary
    \/ \E p \in Ports : DeleteRule(p) \/ AppendRule(p)
=============================================================================
