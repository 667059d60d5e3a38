--------------------------- MODULE BackendsProofs ---------------------------
(***************************************************************************)
(* Each of the three backends implements FirewallContract, for every set   *)
(* of ports, whatever the host does between two commands of a call and     *)
(* wherever a call is cut off.                                             *)
(*                                                                         *)
(* What has to be known of a running call is how far it has come (the      *)
(* three ...Call below), unless the firewall was changed behind its back:  *)
(* then nothing is known, and the contract promises nothing.               *)
(***************************************************************************)
EXTENDS Backends, FirewalldBackendProofs, FiniteSetTheorems, SequenceTheorems

(* INPUT jumps to bulb's chain, and does so first of all.                  *)
Hooked(b) == \E i \in DOMAIN input[b] : input[b][i] = "jump"

Leads(b) == input[b] # <<>> /\ Head(input[b]) = "jump"

FirewalldCall ==
    phase = "applying" =>
        /\ toAdd \subseteq target
        /\ toRemove \cap target = {}
        /\ target \subseteq GetPorts \cup toAdd \/ disturbed

FirewalldInv ==
    /\ BackendInv
    /\ backend # "firewalld" => phase = "idle"
    /\ FirewalldCall

(* Apply inserts its jump in front, so that only a rule an operator put    *)
(* there later can precede it.                                             *)
JumpLeads ==
    \A f \in Families :
        Hooked(BinaryOf(f)) /\ f \notin obstructed => Leads(BinaryOf(f))

IPTablesCall ==
    /\ stage = "insert" => ~Hooked(binary) \/ disturbed
    /\ stage \in {"list", "change"} => Hooked(binary) \/ disturbed
    /\ stage = "change" =>
          /\ toDelete \cap target = {}
          /\ toAppend \subseteq target
          /\ accepts[binary] \cup toAppend = target \cup toDelete \/ disturbed
    /\ (stage # "off" /\ binary = "ip6tables") =>
          (Hooked("iptables") /\ accepts["iptables"] = target) \/ disturbed

IPTablesInv ==
    /\ IPT!IPTablesTypeOK
    /\ backend # "iptables" => stage = "off"
    /\ JumpLeads
    /\ IPTablesCall

(* The sets of nftables have elements only while there are rules for them. *)
NFTablesInv ==
    /\ NFT!NFTablesTypeOK
    /\ backend # "nftables" => nftStage = "off"
    /\ copies = 0 => elements = {}

SettingTyped ==
    /\ backend \in Choices
    /\ wanted \subseteq Keys
    /\ target \subseteq Keys
    /\ queued \in BOOLEAN
    /\ reported \in BOOLEAN
    /\ disturbed \in BOOLEAN
    /\ obstructed \subseteq Families
    /\ left \in [Events -> Nat]

BackendsInv == SettingTyped /\ FirewalldInv /\ IPTablesInv /\ NFTablesInv

-----------------------------------------------------------------------------
(* INPUT.                                                                  *)

JumpsAt(s) == {i \in DOMAIN s : s[i] = "jump"}

(* countLine counts, and a rule is counted if there is one.                *)
LEMMA CountPositive ==
    ASSUME NEW R, NEW s \in Seq(R)
    PROVE  /\ Cardinality(JumpsAt(s)) \in Nat
           /\ Cardinality(JumpsAt(s)) = 0 <=> ~\E i \in DOMAIN s : s[i] = "jump"
<1>1. DOMAIN s = 1..Len(s) /\ Len(s) \in Nat
  BY LenProperties
<1>2. IsFiniteSet(1..Len(s))
  BY <1>1, FS_Interval
<1>3. JumpsAt(s) \subseteq 1..Len(s)
  BY <1>1 DEF JumpsAt
<1>4. IsFiniteSet(JumpsAt(s))
  BY <1>2, <1>3, FS_Subset
<1>5. Cardinality(JumpsAt(s)) \in Nat
  BY <1>4, FS_CardinalityType
<1>6. Cardinality(JumpsAt(s)) = 0 <=> JumpsAt(s) = {}
  BY <1>4, FS_EmptySet
<1>7. JumpsAt(s) = {} <=> ~\E i \in DOMAIN s : s[i] = "jump"
  BY DEF JumpsAt
<1> QED
  BY <1>5, <1>6, <1>7

LEMMA JumpsHook ==
    ASSUME input \in [IPT!Binaries -> Seq(IPT!Rule)], NEW b \in IPT!Binaries
    PROVE  IPT!Jumps(b) \in Nat /\ (IPT!Jumps(b) = 0 <=> ~Hooked(b))
<1>1. input[b] \in Seq(IPT!Rule)
  OBVIOUS
<1>2. IPT!Jumps(b) = Cardinality(JumpsAt(input[b]))
  BY DEF IPT!Jumps, JumpsAt, IPT!Cardinality, Cardinality
<1> QED
  BY <1>1, <1>2, CountPositive DEF Hooked

(* A rule is inserted in front of the others.                              *)
LEMMA Inserted ==
    ASSUME NEW R, NEW s \in Seq(R), NEW r \in R
    PROVE  /\ <<r>> \o s \in Seq(R)
           /\ <<r>> \o s # <<>>
           /\ Head(<<r>> \o s) = r
           /\ (\E i \in DOMAIN (<<r>> \o s) : (<<r>> \o s)[i] = "jump") <=>
                  r = "jump" \/ \E i \in DOMAIN s : s[i] = "jump"
<1> DEFINE t == <<r>> \o s
<1>1. <<r>> \in Seq(R) /\ Len(<<r>>) = 1 /\ <<r>>[1] = r
  OBVIOUS
<1> HIDE DEF t
<1>2. /\ t \in Seq(R) /\ Len(t) = 1 + Len(s)
      /\ \A i \in 1..(1 + Len(s)) : t[i] = IF i <= 1 THEN <<r>>[i] ELSE s[i - 1]
  BY <1>1, ConcatProperties DEF t
<1>3. Len(s) \in Nat /\ DOMAIN s = 1..Len(s) /\ DOMAIN t = 1..(1 + Len(s))
  BY <1>2, LenProperties
<1>4. t[1] = r /\ \A i \in DOMAIN s : i + 1 \in DOMAIN t /\ t[i + 1] = s[i]
  BY <1>1, <1>2, <1>3
<1>5. t # <<>> /\ Head(t) = r
  BY <1>2, <1>3, <1>4
<1>6. \A i \in DOMAIN t : i # 1 => i - 1 \in DOMAIN s /\ t[i] = s[i - 1]
  BY <1>2, <1>3
<1>7. (\E i \in DOMAIN t : t[i] = "jump") <=>
          r = "jump" \/ \E i \in DOMAIN s : s[i] = "jump"
  BY <1>3, <1>4, <1>6
<1> QED
  BY <1>2, <1>5, <1>7 DEF t

(* The two rulesets the host starts with: neither jumps.                   *)
LEMMA Unjumped ==
    ASSUME NEW s \in {<<>>, <<"other">>}
    PROVE  s \in Seq(IPT!Rule) /\ ~\E i \in DOMAIN s : s[i] = "jump"
<1>1. CASE s = <<>>
  BY <1>1
<1>2. CASE s = <<"other">>
  <2>1. DOMAIN s = {1} /\ s[1] = "other"
    BY <1>2
  <2>2. s \in Seq(IPT!Rule)
    BY <1>2 DEF IPT!Rule
  <2> QED
    BY <2>1, <2>2
<1> QED
  BY <1>1, <1>2

-----------------------------------------------------------------------------
(* The invariant: what a step does not touch.  A call that is not running  *)
(* does not care what the next one is called with.                         *)

LEMMA FirewalldSame ==
    ASSUME FirewalldInv, UNCHANGED <<backend, backendVars>>,
           phase = "idle" \/ (UNCHANGED target /\ (disturbed => disturbed'))
    PROVE  FirewalldInv'
<1> USE DEF FirewalldInv
<1>1. BackendInv'
  BY BackendNextInv
<1>2. FirewalldCall'
  BY DEF FirewalldCall, backendVars, zoneVars, callVars, GetPorts, Zone
<1> QED
  BY <1>1, <1>2 DEF backendVars, callVars

LEMMA IPTablesSame ==
    ASSUME IPTablesInv, UNCHANGED <<backend, obstructed, iptablesVars>>,
           stage = "off" \/ (UNCHANGED target /\ (disturbed => disturbed'))
    PROVE  IPTablesInv'
BY DEF IPTablesInv, IPT!IPTablesTypeOK, JumpLeads, IPTablesCall, iptablesVars,
       Hooked, Leads

LEMMA NFTablesSame ==
    ASSUME NFTablesInv, UNCHANGED <<backend, nftVars>>
    PROVE  NFTablesInv'
BY DEF NFTablesInv, NFT!NFTablesTypeOK, nftVars

-----------------------------------------------------------------------------
(* The invariant: firewalld.                                               *)

(* The call works through the difference between its target and what it    *)
(* read.                                                                   *)
LEMMA FirewalldBegins ==
    ASSUME FirewalldInv, wanted \subseteq Keys, backend = "firewalld",
           BeginApply(wanted), target' = wanted, UNCHANGED backend
    PROVE  FirewalldInv'
<1>1. BackendInv'
  BY BeginApplyInv DEF FirewalldInv
<1>2. GetPorts' = GetPorts
  BY DEF BeginApply, zoneVars, GetPorts, Zone
<1>3. FirewalldCall'
  BY <1>2 DEF FirewalldCall, BeginApply, PortsToAdd, PortsToRemove
<1> QED
  BY <1>1, <1>3 DEF FirewalldInv

(* What AddPort opens is open and seen open, and RemovePort closes and     *)
(* hides nothing but its port; entries that are no PortKey stay.           *)
LEMMA ZoneMoves ==
    ASSUME BackendInv, NEW k \in Keys
    PROVE  /\ AddPort(k) => /\ GetPorts' = GetPorts \cup {k}
                            /\ OpenInZone' = OpenInZone \cup {k}
           /\ RemovePort(k) => /\ GetPorts \ {k} \subseteq GetPorts'
                               /\ OpenInZone' \subseteq OpenInZone
                               /\ OpenInZone \ {k} \subseteq OpenInZone'
           /\ AddPort(k) \/ RemovePort(k) => Zone' \cap Foreign = Zone \cap Foreign
<1>0. k \notin Foreign
  BY BackendAssumption
<1>1. ASSUME AddPort(k)
      PROVE  /\ Zone' \cap Foreign = Zone \cap Foreign
             /\ Zone' \cap Keys = (Zone \cap Keys) \cup {k}
  BY <1>0, <1>1 DEF AddPort, Zone
<1>2. ASSUME RemovePort(k)
      PROVE  /\ Zone' \cap Foreign = Zone \cap Foreign
             /\ Zone' \cap Keys = (Zone \cap Keys) \ {k}
  BY <1>0, <1>2 DEF RemovePort, Zone
<1>3. ASSUME AddPort(k) PROVE GetPorts' = GetPorts \cup {k}
  BY <1>1, <1>3 DEF GetPorts
<1>4. ASSUME AddPort(k) PROVE OpenInZone' = OpenInZone \cup {k}
  BY <1>1, <1>4 DEF OpenInZone
<1>5. ASSUME RemovePort(k) PROVE GetPorts \ {k} \subseteq GetPorts'
  BY <1>2, <1>5 DEF GetPorts
<1>6. ASSUME RemovePort(k)
      PROVE  /\ OpenInZone' \subseteq OpenInZone
             /\ OpenInZone \ {k} \subseteq OpenInZone'
  BY <1>2, <1>6 DEF OpenInZone
<1> QED
  BY <1>1, <1>2, <1>3, <1>4, <1>5, <1>6

LEMMA FirewalldMoves ==
    ASSUME FirewalldInv, UNCHANGED <<backend, target, disturbed>>,
           \/ \E k \in Keys : AddPort(k) \/ RemovePort(k)
           \/ Save \/ ApplyFails
    PROVE  FirewalldInv'
<1> USE DEF FirewalldInv
<1>1. ASSUME NEW k \in Keys, AddPort(k) PROVE FirewalldInv'
  <2>1. GetPorts' = GetPorts \cup {k}
    BY <1>1, ZoneMoves
  <2>2. FirewalldCall'
    BY <1>1, <2>1 DEF FirewalldCall, AddPort
  <2> QED
    BY <1>1, <2>2, AddPortInv DEF AddPort
<1>2. ASSUME NEW k \in Keys, RemovePort(k) PROVE FirewalldInv'
  <2>1. GetPorts \ {k} \subseteq GetPorts'
    BY <1>2, ZoneMoves
  <2>2. FirewalldCall'
    BY <1>2, <2>1 DEF FirewalldCall, RemovePort
  <2> QED
    BY <1>2, <2>2, RemovePortInv DEF RemovePort
<1>3. CASE Save \/ ApplyFails
  BY <1>3, SaveInv, ApplyFailsInv
     DEF Save, ApplyFails, CallEnds, FirewalldCall
<1> QED
  BY <1>1, <1>2, <1>3

LEMMA FirewalldHost ==
    ASSUME FirewalldInv, HostStep, UNCHANGED <<backend, target>>, disturbed'
    PROVE  FirewalldInv'
<1>1. UNCHANGED callVars
  BY DEF HostStep, OperatorOpens, OperatorCloses, Reload
<1> QED
  BY <1>1, HostStepInv DEF FirewalldInv, FirewalldCall, callVars

-----------------------------------------------------------------------------
(* The invariant: iptables.                                                *)

LEMMA BinariesOfFamilies ==
    /\ \A f \in Families : BinaryOf(f) \in IPT!Binaries
    /\ \A f, g \in Families : BinaryOf(f) = BinaryOf(g) => f = g
    /\ \A b \in IPT!Binaries : \E f \in Families : b = BinaryOf(f)
BY DEF Families, BinaryOf, IPT!Binaries

LEMMA IPTablesBegins ==
    ASSUME IPTablesInv, backend = "iptables", IPT!BeginApply,
           UNCHANGED <<backend, obstructed>>
    PROVE  IPTablesInv'
BY DEF IPTablesInv, IPT!IPTablesTypeOK, IPT!BeginApply, IPT!kernelVars,
       IPT!diffVars, IPT!Binaries, JumpLeads, IPTablesCall, Hooked, Leads

(* Commands that leave INPUT alone: nothing is hooked or unhooked.         *)
LEMMA SameInput ==
    ASSUME UNCHANGED input
    PROVE  /\ \A b : Hooked(b)' = Hooked(b)
           /\ \A b : Leads(b)' = Leads(b)
BY DEF Hooked, Leads

LEMMA ChainSteps ==
    ASSUME IPTablesInv, target \subseteq Keys,
           UNCHANGED <<backend, target, disturbed, obstructed>>,
           IPT!EnsureChain \/ IPT!EnsureJump \/ IPT!ListChain \/ IPT!NextBinary
    PROVE  IPTablesInv'
<1> USE DEF IPTablesInv, IPT!kernelVars, IPT!diffVars
<1>0. UNCHANGED <<input, accepts>>
  BY DEF IPT!EnsureChain, IPT!EnsureJump, IPT!ListChain, IPT!NextBinary
<1>1. JumpLeads'
  BY <1>0, SameInput DEF JumpLeads
<1>2. CASE IPT!EnsureChain
  BY <1>0, <1>1, <1>2, SameInput
     DEF IPT!EnsureChain, IPT!IPTablesTypeOK, IPTablesCall
<1>3. CASE IPT!EnsureJump
  <2>1. IPT!Jumps(binary) \in Nat /\ (IPT!Jumps(binary) = 0 <=> ~Hooked(binary))
    BY JumpsHook DEF IPT!IPTablesTypeOK
  <2>2. stage' = IF Hooked(binary) THEN "list" ELSE "insert"
    BY <1>3, <2>1 DEF IPT!EnsureJump
  <2>3. IPT!IPTablesTypeOK'
    BY <1>3, <2>2 DEF IPT!EnsureJump, IPT!IPTablesTypeOK
  <2>4. IPTablesCall'
    BY <1>0, <1>3, <2>2, SameInput DEF IPT!EnsureJump, IPTablesCall
  <2> QED
    BY <1>1, <1>3, <2>3, <2>4 DEF IPT!EnsureJump
<1>4. CASE IPT!ListChain
  <2>1. IPT!IPTablesTypeOK'
    <3>1. accepts[binary] \subseteq Keys
      BY DEF IPT!IPTablesTypeOK
    <3>2. toAppend' \subseteq Keys
      BY <1>4 DEF IPT!ListChain
    <3> QED
      BY <1>4, <3>1, <3>2 DEF IPT!ListChain, IPT!IPTablesTypeOK
  <2>2. IPTablesCall'
    BY <1>0, <1>4, SameInput DEF IPT!ListChain, IPTablesCall
  <2> QED
    BY <1>1, <1>4, <2>1, <2>2 DEF IPT!ListChain
<1>5. CASE IPT!NextBinary
  <2>1. IPT!IPTablesTypeOK'
    BY <1>5 DEF IPT!NextBinary, IPT!BinaryDone, IPT!IPTablesTypeOK, IPT!Binaries
  <2>2. IPTablesCall'
    BY <1>0, <1>5, SameInput DEF IPT!NextBinary, IPT!BinaryDone, IPTablesCall
  <2> QED
    BY <1>1, <1>5, <2>1, <2>2 DEF IPT!NextBinary, IPT!BinaryDone
<1> QED
  BY <1>2, <1>3, <1>4, <1>5

(* INPUT of one binary becomes s.                                          *)
LEMMA InputBecomes ==
    ASSUME input \in [IPT!Binaries -> Seq(IPT!Rule)], NEW b \in IPT!Binaries,
           NEW s \in Seq(IPT!Rule), input' = [input EXCEPT ![b] = s]
    PROVE  /\ input' \in [IPT!Binaries -> Seq(IPT!Rule)]
           /\ \A d \in IPT!Binaries \ {b} :
                  (Hooked(d)' <=> Hooked(d)) /\ (Leads(d)' <=> Leads(d))
           /\ Hooked(b)' <=> \E i \in DOMAIN s : s[i] = "jump"
           /\ Leads(b)' <=> s # <<>> /\ Head(s) = "jump"
<1>1. input'[b] = s /\ \A d \in IPT!Binaries \ {b} : input'[d] = input[d]
  OBVIOUS
<1>2. input' \in [IPT!Binaries -> Seq(IPT!Rule)]
  OBVIOUS
<1> QED
  BY <1>1, <1>2 DEF Hooked, Leads

(* A rule is put in front of INPUT.                                        *)
LEMMA InputGrows ==
    ASSUME input \in [IPT!Binaries -> Seq(IPT!Rule)], NEW b \in IPT!Binaries,
           NEW r \in IPT!Rule, input' = [input EXCEPT ![b] = <<r>> \o @]
    PROVE  /\ input' \in [IPT!Binaries -> Seq(IPT!Rule)]
           /\ \A d \in IPT!Binaries \ {b} :
                  (Hooked(d)' <=> Hooked(d)) /\ (Leads(d)' <=> Leads(d))
           /\ Hooked(b)' <=> r = "jump" \/ Hooked(b)
           /\ Leads(b)' <=> r = "jump"
<1> DEFINE s == <<r>> \o input[b]
<1>1. input[b] \in Seq(IPT!Rule)
  OBVIOUS
<1>2. /\ s \in Seq(IPT!Rule) /\ s # <<>> /\ Head(s) = r
      /\ (\E i \in DOMAIN s : s[i] = "jump") <=> r = "jump" \/ Hooked(b)
  BY <1>1, Inserted DEF Hooked
<1>3. input' = [input EXCEPT ![b] = s]
  OBVIOUS
<1> HIDE DEF s
<1> QED
  BY <1>2, <1>3, InputBecomes

LEMMA InsertJumpInv ==
    ASSUME IPTablesInv, UNCHANGED <<backend, target, disturbed, obstructed>>,
           IPT!InsertJump
    PROVE  IPTablesInv'
<1> USE DEF IPTablesInv, IPT!InsertJump, IPT!diffVars
<1>1. binary \in IPT!Binaries /\ "jump" \in IPT!Rule
  BY DEF IPT!IPTablesTypeOK, IPT!Rule
<1>2. /\ input' \in [IPT!Binaries -> Seq(IPT!Rule)]
      /\ \A d \in IPT!Binaries \ {binary} :
             (Hooked(d)' <=> Hooked(d)) /\ (Leads(d)' <=> Leads(d))
      /\ Hooked(binary)' /\ Leads(binary)'
  BY <1>1, InputGrows DEF IPT!IPTablesTypeOK
<1>3. IPT!IPTablesTypeOK'
  BY <1>2 DEF IPT!IPTablesTypeOK
<1>4. JumpLeads'
  BY <1>2, BinariesOfFamilies DEF JumpLeads
<1>5. IPTablesCall'
  BY <1>2 DEF IPTablesCall, IPT!Binaries
<1> QED
  BY <1>3, <1>4, <1>5

LEMMA ChangeInv ==
    ASSUME IPTablesInv, NEW p \in Keys,
           UNCHANGED <<backend, target, disturbed, obstructed>>,
           IPT!DeleteRule(p) \/ IPT!AppendRule(p)
    PROVE  IPTablesInv'
<1> USE DEF IPTablesInv
<1>0. UNCHANGED <<input, stage, binary, chains>> /\ stage = "change"
  BY DEF IPT!DeleteRule, IPT!AppendRule
<1>1. JumpLeads'
  BY <1>0, SameInput DEF JumpLeads
<1>2. binary \in IPT!Binaries
  BY DEF IPT!IPTablesTypeOK
<1>3. CASE IPT!DeleteRule(p)
  <2>1. \A b \in IPT!Binaries : accepts'[b] =
            IF b = binary THEN accepts[b] \ {p} ELSE accepts[b]
    BY <1>2, <1>3 DEF IPT!DeleteRule, IPT!IPTablesTypeOK
  <2>2. IPT!IPTablesTypeOK'
    BY <1>3, <2>1 DEF IPT!DeleteRule, IPT!IPTablesTypeOK
  <2>3. IPTablesCall'
    BY <1>0, <1>2, <1>3, <2>1, SameInput
       DEF IPT!DeleteRule, IPTablesCall, IPT!Binaries
  <2> QED
    BY <1>0, <1>1, <2>2, <2>3
<1>4. CASE IPT!AppendRule(p)
  <2>1. \A b \in IPT!Binaries : accepts'[b] =
            IF b = binary THEN accepts[b] \cup {p} ELSE accepts[b]
    BY <1>2, <1>4 DEF IPT!AppendRule, IPT!IPTablesTypeOK
  <2>2. IPT!IPTablesTypeOK'
    BY <1>4, <2>1 DEF IPT!AppendRule, IPT!IPTablesTypeOK
  <2>3. IPTablesCall'
    BY <1>0, <1>2, <1>4, <2>1, SameInput
       DEF IPT!AppendRule, IPTablesCall, IPT!Binaries
  <2> QED
    BY <1>0, <1>1, <2>2, <2>3
<1> QED
  BY <1>3, <1>4

(* A call that has ended, well or not.                                     *)
LEMMA IPTablesEnds ==
    ASSUME IPTablesInv, UNCHANGED <<backend, obstructed>>,
           IPT!ApplyReturns \/ IPT!ApplyFails
    PROVE  IPTablesInv'
<1>1. /\ UNCHANGED <<input, chains, accepts, binary>> /\ stage' = "off"
      /\ toDelete' \subseteq toDelete /\ toAppend' \subseteq toAppend
  BY DEF IPT!ApplyReturns, IPT!ApplyFails, IPT!kernelVars, IPT!diffVars
<1> QED
  BY <1>1, SameInput
     DEF IPTablesInv, IPT!IPTablesTypeOK, JumpLeads, IPTablesCall

LEMMA IPTablesMoves ==
    ASSUME IPTablesInv, target \subseteq Keys,
           UNCHANGED <<backend, target, disturbed, obstructed>>,
           IPT!ApplyStep \/ IPT!ApplyReturns \/ IPT!ApplyFails
    PROVE  IPTablesInv'
BY ChainSteps, InsertJumpInv, ChangeInv, IPTablesEnds DEF IPT!ApplyStep

(* Whatever the host does, a rule that it puts ahead of bulb's jump counts *)
(* as an obstruction.                                                      *)
LEMMA IPTablesHost ==
    ASSUME IPTablesInv, UNCHANGED <<backend, target>>, disturbed',
           NEW f \in Families,
           \/ /\ IPT!RestoreRuleset(BinaryOf(f)) \/ IPT!FlushRules(BinaryOf(f))
              /\ obstructed' = obstructed \ {f}
           \/ /\ IPT!Prepend(BinaryOf(f), "other")
              /\ obstructed' = IF IPT!Jumps(BinaryOf(f)) > 0
                                 THEN obstructed \cup {f}
                                 ELSE obstructed
           \/ /\ IPT!Prepend(BinaryOf(f), "jump")
              /\ UNCHANGED obstructed
    PROVE  IPTablesInv'
<1> USE DEF IPTablesInv, IPT!diffVars
<1>0. BinaryOf(f) \in IPT!Binaries
      /\ \A g \in Families \ {f} : BinaryOf(g) \in IPT!Binaries \ {BinaryOf(f)}
  BY BinariesOfFamilies
<1>1. UNCHANGED <<stage, binary, toDelete, toAppend>>
  BY DEF IPT!RestoreRuleset, IPT!FlushRules, IPT!Prepend
<1>2. CASE /\ IPT!RestoreRuleset(BinaryOf(f)) \/ IPT!FlushRules(BinaryOf(f))
           /\ obstructed' = obstructed \ {f}
  <2>1. PICK s \in {<<>>, <<"other">>} :
            input' = [input EXCEPT ![BinaryOf(f)] = s]
    BY <1>2 DEF IPT!RestoreRuleset, IPT!FlushRules
  <2>2. s \in Seq(IPT!Rule) /\ ~\E i \in DOMAIN s : s[i] = "jump"
    BY Unjumped
  <2>3. /\ input' \in [IPT!Binaries -> Seq(IPT!Rule)]
        /\ \A d \in IPT!Binaries \ {BinaryOf(f)} :
               (Hooked(d)' <=> Hooked(d)) /\ (Leads(d)' <=> Leads(d))
        /\ ~Hooked(BinaryOf(f))'
    BY <1>0, <2>1, <2>2, InputBecomes DEF IPT!IPTablesTypeOK
  <2>4. accepts' = [accepts EXCEPT ![BinaryOf(f)] = {}]
        /\ chains' \subseteq chains /\ chains \ {BinaryOf(f)} \subseteq chains'
    BY <1>2 DEF IPT!RestoreRuleset, IPT!FlushRules
  <2>5. \A b \in IPT!Binaries :
            accepts'[b] = IF b = BinaryOf(f) THEN {} ELSE accepts[b]
    BY <2>4 DEF IPT!IPTablesTypeOK
  <2>6. IPT!IPTablesTypeOK'
    BY <1>1, <2>3, <2>4, <2>5 DEF IPT!IPTablesTypeOK
  <2>7. JumpLeads'
    BY <1>0, <1>2, <2>3 DEF JumpLeads
  <2> QED
    BY <1>1, <2>6, <2>7 DEF IPTablesCall
<1>3. ASSUME NEW r \in IPT!Rule, IPT!Prepend(BinaryOf(f), r),
             obstructed \subseteq obstructed',
             r = "other" /\ Hooked(BinaryOf(f)) => f \in obstructed'
      PROVE  IPTablesInv'
  <2>1. /\ input' \in [IPT!Binaries -> Seq(IPT!Rule)]
        /\ \A d \in IPT!Binaries \ {BinaryOf(f)} :
               (Hooked(d)' <=> Hooked(d)) /\ (Leads(d)' <=> Leads(d))
        /\ Hooked(BinaryOf(f))' <=> r = "jump" \/ Hooked(BinaryOf(f))
        /\ Leads(BinaryOf(f))' <=> r = "jump"
    BY <1>0, <1>3, InputGrows DEF IPT!Prepend, IPT!IPTablesTypeOK
  <2>2. IPT!IPTablesTypeOK'
    BY <1>1, <1>3, <2>1 DEF IPT!Prepend, IPT!IPTablesTypeOK
  <2>3. JumpLeads'
    BY <1>0, <1>3, <2>1 DEF JumpLeads, IPT!Rule
  <2> QED
    BY <1>1, <2>2, <2>3 DEF IPTablesCall
<1>4. CASE /\ IPT!Prepend(BinaryOf(f), "other")
           /\ obstructed' = IF IPT!Jumps(BinaryOf(f)) > 0
                              THEN obstructed \cup {f}
                              ELSE obstructed
  <2>1. /\ IPT!Jumps(BinaryOf(f)) \in Nat
        /\ IPT!Jumps(BinaryOf(f)) = 0 <=> ~Hooked(BinaryOf(f))
    BY <1>0, JumpsHook DEF IPT!IPTablesTypeOK
  <2>2. obstructed \subseteq obstructed'
        /\ (Hooked(BinaryOf(f)) => f \in obstructed')
    BY <1>4, <2>1
  <2> QED
    BY <1>3, <1>4, <2>2 DEF IPT!Rule
<1>5. CASE IPT!Prepend(BinaryOf(f), "jump") /\ UNCHANGED obstructed
  BY <1>3, <1>5 DEF IPT!Rule
<1> QED
  BY <1>2, <1>4, <1>5

-----------------------------------------------------------------------------
(* The invariant: nftables.                                                *)

LEMMA NFTablesMoves ==
    ASSUME NFTablesInv, target \subseteq Keys, UNCHANGED backend,
           \/ backend = "nftables" /\ NFT!BeginApply
           \/ NFT!ListTable \/ NFT!LoadRuleset \/ NFT!ApplyFails
           \/ NFT!FlushRuleset
    PROVE  NFTablesInv'
<1>0. MaxCopies \in Nat \ {0}
  BY BackendsAssumption
<1> QED
  BY <1>0
     DEF NFTablesInv, NFT!NFTablesTypeOK, NFT!BeginApply, NFT!ListTable,
         NFT!LoadRuleset, NFT!ApplyFails, NFT!FlushRuleset

-----------------------------------------------------------------------------
(* The invariant: the whole.                                               *)

LEMMA BackendsInit == Init => BackendsInv
<1> SUFFICES ASSUME Init PROVE BackendsInv
  OBVIOUS
<1> USE DEF Init
<1>1. SettingTyped
  BY BackendsAssumption DEF SettingTyped
<1>2. FirewalldInv
  BY BackendInitInv DEF FirewalldInv, FirewalldCall, BackendInit
<1>3. IPTablesInv
  <2>1. <<"other">> \in Seq(IPT!Rule)
        /\ ~\E i \in DOMAIN <<"other">> : <<"other">>[i] = "jump"
    BY Unjumped
  <2>2. \A b \in IPT!Binaries : ~Hooked(b)
    BY <2>1 DEF IPT!Init, Hooked
  <2>3. IPT!IPTablesTypeOK
    BY <2>1 DEF IPT!Init, IPT!IPTablesTypeOK, IPT!Binaries
  <2> QED
    BY <2>2, <2>3, BinariesOfFamilies
       DEF IPTablesInv, JumpLeads, IPTablesCall, IPT!Init
<1>4. NFTablesInv
  BY BackendsAssumption DEF NFT!Init, NFTablesInv, NFT!NFTablesTypeOK
<1> QED
  BY <1>1, <1>2, <1>3, <1>4 DEF BackendsInv

LEMMA SettingNext ==
    ASSUME SettingTyped, Next
    PROVE  SettingTyped' /\ UNCHANGED backend
<1> USE DEF SettingTyped
<1>1. ASSUME NEW kind \in Events, Spend(kind) PROVE left' \in [Events -> Nat]
  BY <1>1 DEF Spend
<1>2. CASE Call
  BY <1>2 DEF Call
<1>3. CASE Runs
  BY <1>3 DEF Runs, FirewalldRuns, IPTablesRuns, NFTablesRuns, settingVars,
              Reports, Retries
<1>4. CASE Fault \/ Restart
  BY <1>1, <1>4 DEF Fault, Restart, Retries, Events
<1>5. CASE Edit
  BY <1>1, <1>5 DEF Edit, Events
<1>6. CASE Host
  <2>1. left' \in [Events -> Nat] /\ disturbed' \in BOOLEAN
        /\ UNCHANGED <<backend, wanted, queued, target, reported>>
    BY <1>1, <1>6 DEF Host, Events
  <2>2. obstructed' \subseteq Families
    BY <1>6 DEF Host
  <2> QED
    BY <2>1, <2>2
<1> QED
  BY <1>2, <1>3, <1>4, <1>5, <1>6 DEF Next

LEMMA BackendsNext ==
    ASSUME BackendsInv, Next
    PROVE  BackendsInv'
<1> USE DEF BackendsInv
<1>0. SettingTyped' /\ UNCHANGED backend
  BY SettingNext
<1>t. target \subseteq Keys /\ wanted \subseteq Keys
  BY DEF SettingTyped
<1>1. CASE Call
  <2>1. phase # "applying" /\ stage = "off" /\ nftStage = "off"
    BY <1>1 DEF Call, Busy
  <2>2. phase = "idle"
    BY <2>1 DEF FirewalldInv, BackendInv, BackendTypeOK
  <2>3. FirewalldInv'
    BY <1>1, <1>t, <2>2, FirewalldSame, FirewalldBegins DEF Call
  <2>4. IPTablesInv'
    BY <1>1, <2>1, IPTablesSame, IPTablesBegins DEF Call
  <2>5. NFTablesInv'
    BY <1>1, <1>t, NFTablesSame, NFTablesMoves DEF Call
  <2> QED
    BY <1>0, <2>3, <2>4, <2>5
<1>2. CASE FirewalldRuns
  BY <1>0, <1>2, FirewalldMoves, IPTablesSame, NFTablesSame
     DEF FirewalldRuns, settingVars
<1>3. CASE IPTablesRuns
  BY <1>0, <1>t, <1>3, FirewalldSame, IPTablesMoves, NFTablesSame
     DEF IPTablesRuns, settingVars
<1>4. CASE NFTablesRuns
  BY <1>0, <1>t, <1>4, FirewalldSame, IPTablesSame, NFTablesMoves
     DEF NFTablesRuns, settingVars
<1>5. CASE Fault \/ Restart
  <2>0. /\ CutOff \/ UNCHANGED firewallVars
        /\ UNCHANGED <<backend, target, disturbed, obstructed>>
    BY <1>5 DEF Fault, Restart
  <2>1. FirewalldInv'
    BY <2>0, FirewalldSame, FirewalldMoves DEF CutOff, firewallVars
  <2>2. IPTablesInv'
    BY <1>t, <2>0, IPTablesSame, IPTablesMoves DEF CutOff, firewallVars
  <2>3. NFTablesInv'
    BY <1>t, <2>0, NFTablesSame, NFTablesMoves DEF CutOff, firewallVars
  <2> QED
    BY <1>0, <2>1, <2>2, <2>3
<1>6. CASE Edit
  BY <1>0, <1>6, FirewalldSame, IPTablesSame, NFTablesSame
     DEF Edit, firewallVars
<1>7. CASE Host
  <2>0. disturbed' /\ UNCHANGED <<backend, target>>
    BY <1>7 DEF Host
  <2>1. FirewalldInv'
    BY <1>7, <2>0, FirewalldSame, FirewalldHost DEF Host
  <2>2. IPTablesInv'
    BY <1>7, <2>0, IPTablesSame, IPTablesHost DEF Host
  <2>3. NFTablesInv'
    BY <1>7, <1>t, <2>0, NFTablesSame, NFTablesMoves DEF Host
  <2> QED
    BY <1>0, <2>1, <2>2, <2>3
<1> QED
  BY <1>1, <1>2, <1>3, <1>4, <1>5, <1>6, <1>7 DEF Next, Runs

LEMMA BackendsStutter ==
    ASSUME BackendsInv, UNCHANGED vars
    PROVE  BackendsInv'
BY FirewalldSame, IPTablesSame, NFTablesSame
   DEF BackendsInv, SettingTyped, vars, agentVars, settingVars, firewallVars

(* Which calls can be running, and how far each of them has come.          *)
THEOREM BackendsInvariant == Spec => []BackendsInv
<1>1. BackendsInv /\ [Next]_vars => BackendsInv'
  BY BackendsNext, BackendsStutter
<1> QED
  BY <1>1, BackendsInit, PTL DEF Spec

(* The three backends keep their types; in particular a chain of iptables  *)
(* that does not exist has no rules, and no rule is appended to one that   *)
(* has it.                                                                 *)
THEOREM BackendsTypeCorrect == Spec => []BackendsTypeOK
<1>1. BackendsInv => BackendsTypeOK
  BY DEF BackendsInv, SettingTyped, FirewalldInv, BackendInv, IPTablesInv,
         NFTablesInv, BackendsTypeOK
<1> QED
  BY <1>1, BackendsInvariant, PTL

-----------------------------------------------------------------------------
(* The refinement.  What the contract calls rules and disturbed:           *)

Rules == [f \in Families |-> Admits(f)]

Unpromised ==
    disturbed \/ obstructed # {} \/ Unhooked \/ Misread(target) # {}

LEMMA RulesTyped == BackendsInv => Rules \in [Families -> SUBSET Keys]
<1> SUFFICES ASSUME BackendsInv, NEW f \in Families
             PROVE  Admits(f) \subseteq Keys
  BY DEF Rules
<1>1. backend \in {"firewalld", "iptables", "nftables"}
  BY BackendsAssumption DEF BackendsInv, SettingTyped
<1>2. CASE backend = "firewalld"
  <2>1. \A g \in Foreign : Covers[g] \subseteq Keys
    BY BackendsAssumption
  <2> QED
    BY <1>2, <2>1 DEF Admits, OpenInZone
<1>3. CASE backend = "iptables"
  BY <1>3, BinariesOfFamilies
     DEF Admits, IPT!Admitted, BackendsInv, IPTablesInv, IPT!IPTablesTypeOK
<1>4. CASE backend = "nftables"
  BY <1>4 DEF Admits, NFT!Accepted, BackendsInv, NFTablesInv, NFT!NFTablesTypeOK
<1> QED
  BY <1>1, <1>2, <1>3, <1>4

LEMMA RulesTypedNext == BackendsInv' => (Rules \in [Families -> SUBSET Keys])'
BY RulesTyped, PTL

(* What a backend admits depends on what is in the kernel and the zone.    *)
LEMMA RulesSame ==
    ASSUME UNCHANGED <<backend, bulbOpen, operatorOpen, input, accepts,
                       elements, copies>>
    PROVE  Rules' = Rules
BY DEF Rules, Admits, OpenInZone, Zone, IPT!Admitted, NFT!Accepted

LEMMA UnpromisedSame ==
    ASSUME UNCHANGED <<disturbed, obstructed, target, input, accepts>>,
           Zone' \cap Foreign = Zone \cap Foreign
    PROVE  Unpromised' = Unpromised
<1>1. Misread(target)' = Misread(target)
  BY DEF Misread
<1> QED
  BY <1>1 DEF Unpromised, Unhooked, IPT!Jumps

(* Nothing is misread as a port of the target: what is seen open of it is. *)
LEMMA ReadIsOpen ==
    ASSUME target \subseteq Keys, Misread(target) = {}
    PROVE  target \cap GetPorts \subseteq OpenInZone
BY DEF Misread, GetPorts, OpenInZone

LEMMA UnpromisedHook ==
    ASSUME IPTablesInv
    PROVE  Unhooked <=> \E b \in IPT!Binaries : accepts[b] # {} /\ ~Hooked(b)
BY JumpsHook DEF Unhooked, IPTablesInv, IPT!IPTablesTypeOK

LEMMA UnpromisedHookNext ==
    IPTablesInv' =>
        (Unhooked <=> \E b \in IPT!Binaries : accepts[b] # {} /\ ~Hooked(b))'
<1>1. IPTablesInv =>
        (Unhooked <=> \E b \in IPT!Binaries : accepts[b] # {} /\ ~Hooked(b))
  BY UnpromisedHook
<1> QED
  BY <1>1, PTL

(* A step of the contract, or none.                                        *)
ContractStep == Contract!Next \/ UNCHANGED Contract!contractVars

LEMMA ContractInit == Init => Contract!Init
<1> SUFFICES ASSUME Init PROVE Contract!Init
  OBVIOUS
<1>1. Rules \in [Families -> SUBSET Keys]
  BY BackendsInit, RulesTyped
<1>2. ~Unhooked
  BY DEF Init, IPT!Init, Unhooked, IPT!Binaries
<1>3. ~Busy
  BY DEF Init, BackendInit, IPT!Init, NFT!Init, Busy
<1>4. Misread(target) = {}
  BY DEF Init, Misread
<1> QED
  BY <1>1, <1>2, <1>3, <1>4 DEF Contract!Init, Rules, Init

LEMMA CallBegins ==
    ASSUME BackendsInv, Call
    PROVE  Contract!Begin
<1>1. UNCHANGED <<backend, bulbOpen, operatorOpen, input, accepts, elements,
                  copies>>
  BY DEF Call, BeginApply, backendVars, zoneVars, IPT!BeginApply,
         IPT!kernelVars, NFT!BeginApply, iptablesVars, nftVars
<1>2. Rules' = Rules
  BY <1>1, RulesSame
<1>3. ~Busy /\ Busy'
  BY DEF Call, Busy, BeginApply, IPT!BeginApply, NFT!BeginApply
<1>4. Unpromised' \in BOOLEAN
  BY DEF Call, Unpromised, Unhooked
<1>5. target' \in SUBSET Keys /\ reported' = FALSE /\ UNCHANGED backend
  BY DEF Call, BackendsInv, SettingTyped
<1> QED
  BY <1>2, <1>3, <1>4, <1>5 DEF Contract!Begin, Rules, Unpromised

(* Steps that leave the firewall and what was asked of it alone.           *)
Quiet ==
    UNCHANGED <<backend, target, disturbed, obstructed, bulbOpen, operatorOpen,
                input, accepts, elements, copies>>

LEMMA QuietSteps ==
    ASSUME BackendsInv, Quiet
    PROVE  /\ (UNCHANGED reported /\ Busy' = Busy) =>
                  UNCHANGED Contract!contractVars
           /\ (UNCHANGED reported /\ Busy /\ ~Busy') => Contract!Fail
<1>1. Rules' = Rules /\ Unpromised' = Unpromised
  BY RulesSame, UnpromisedSame DEF Quiet, Zone
<1>2. UNCHANGED <<backend, target>>
  BY DEF Quiet
<1> QED
  BY <1>1, <1>2
     DEF Rules, Unpromised, Contract!contractVars, Contract!Fail

(* Steps of a call: what is admitted comes nearer to the target, or the    *)
(* contract promises nothing.                                              *)
LEMMA ProgressStep ==
    ASSUME BackendsInv, BackendsInv', Busy, Busy',
           UNCHANGED <<backend, target, reported>>,
           \/ Unpromised
           \/ /\ ~Unpromised'
              /\ \A f \in Families :
                     /\ Rules[f] \cap target \subseteq Rules'[f]
                     /\ Rules'[f] \subseteq Rules[f] \cup target
    PROVE  Contract!Progress \/ Contract!Repair
<1>1. Rules' \in [Families -> SUBSET Keys]
  BY RulesTypedNext
<1>2. Unpromised \in BOOLEAN /\ Unpromised' \in BOOLEAN
  BY DEF Unpromised, Unhooked, BackendsInv, SettingTyped
<1>3. CASE Unpromised
  BY <1>1, <1>2, <1>3 DEF Contract!Repair, Rules, Unpromised
<1>4. CASE ~Unpromised
  BY <1>1, <1>2, <1>4
     DEF Contract!Progress, Contract!Towards, Rules, Unpromised
<1> QED
  BY <1>3, <1>4

LEMMA SuccessStep ==
    ASSUME BackendsInv, BackendsInv', Busy, ~Busy', reported' = TRUE,
           UNCHANGED <<backend, target>>, Unpromised' = Unpromised,
           \A f \in Families :
               /\ Rules[f] \cap target \subseteq Rules'[f]
               /\ Rules'[f] \subseteq Rules[f] \cup target
               /\ ~Unpromised =>
                      /\ target \subseteq Rules'[f]
                      /\ backend = "iptables" => Rules'[f] = target
    PROVE  Contract!Succeed
<1>1. Rules' \in [Families -> SUBSET Keys]
  BY RulesTypedNext
<1> QED
  BY <1>1
     DEF Contract!Succeed, Contract!Towards, Contract!Met, Rules, Unpromised

LEMMA FirewalldImplements ==
    ASSUME BackendsInv, BackendsInv', FirewalldRuns
    PROVE  ContractStep
<1> USE DEF BackendsInv, FirewalldInv
<1>1. phase = "applying" /\ backend = "firewalld" /\ stage = "off"
      /\ nftStage = "off"
  BY DEF FirewalldRuns, AddPort, RemovePort, Save, ApplyFails, IPTablesInv,
         NFTablesInv
<1>2. UNCHANGED <<backend, target, disturbed, obstructed, input, accepts,
                  elements, copies, stage, nftStage>>
  BY DEF FirewalldRuns, settingVars, iptablesVars, nftVars
<1>3. Unpromised' = Unpromised
  <2>1. Zone' \cap Foreign = Zone \cap Foreign
    BY ZoneMoves DEF FirewalldRuns, Save, ApplyFails, zoneVars, Zone
  <2> QED
    BY <1>2, <2>1, UnpromisedSame
<1>4. \A f \in Families : Rules[f] = OpenInZone /\ Rules'[f] = OpenInZone'
  BY <1>1, <1>2 DEF Rules, Admits
<1>5. Busy /\ (Busy' <=> phase' = "applying")
  BY <1>1, <1>2 DEF Busy
<1>6. ASSUME NEW k \in Keys, AddPort(k), UNCHANGED reported PROVE ContractStep
  <2>1. OpenInZone' = OpenInZone \cup {k} /\ k \in target
    BY <1>1, <1>6, ZoneMoves DEF AddPort, FirewalldCall
  <2>2. Busy'
    BY <1>5, <1>6 DEF AddPort
  <2> QED
    BY <1>2, <1>3, <1>4, <1>5, <1>6, <2>1, <2>2, ProgressStep
       DEF ContractStep, Contract!Next
<1>7. ASSUME NEW k \in Keys, RemovePort(k), UNCHANGED reported
      PROVE  ContractStep
  <2>1. /\ OpenInZone' \subseteq OpenInZone
        /\ OpenInZone \ {k} \subseteq OpenInZone'
        /\ k \notin target
    BY <1>1, <1>7, ZoneMoves DEF RemovePort, FirewalldCall
  <2>2. Busy'
    BY <1>5, <1>7 DEF RemovePort
  <2> QED
    BY <1>2, <1>3, <1>4, <1>5, <1>7, <2>1, <2>2, ProgressStep
       DEF ContractStep, Contract!Next
<1>8. CASE Save /\ reported' = TRUE
  <2>1. OpenInZone' = OpenInZone
    BY <1>8 DEF Save, zoneVars, OpenInZone, Zone
  <2>2. target \subseteq OpenInZone \/ Unpromised
    <3>1. target \subseteq GetPorts \/ disturbed
      BY <1>1, <1>8 DEF Save, FirewalldCall
    <3> QED
      BY <3>1, ReadIsOpen DEF Unpromised, SettingTyped
  <2>3. ~Busy'
    BY <1>5, <1>8 DEF Save, CallEnds
  <2> QED
    BY <1>1, <1>2, <1>3, <1>4, <1>5, <1>8, <2>1, <2>2, <2>3, SuccessStep
       DEF ContractStep, Contract!Next
<1>9. CASE ApplyFails /\ UNCHANGED reported
  <2>1. ~Busy' /\ Quiet
    BY <1>2, <1>5, <1>9 DEF ApplyFails, CallEnds, zoneVars, Quiet
  <2> QED
    BY <1>5, <1>9, <2>1, QuietSteps DEF ContractStep, Contract!Next
<1> QED
  BY <1>6, <1>7, <1>8, <1>9 DEF FirewalldRuns, Reports, Retries

(* A command of a call of iptables that leaves the rules alone, and the    *)
(* three that do not.                                                      *)
LEMMA IPTablesStep ==
    ASSUME BackendsInv, BackendsInv', IPT!ApplyStep,
           UNCHANGED <<settingVars, reported, backendVars, nftVars>>
    PROVE  ContractStep
<1> USE DEF BackendsInv, IPTablesInv
<1>1. stage # "off" /\ stage' # "off" /\ backend = "iptables"
      /\ binary \in IPT!Binaries
  <2>1. stage # "off" /\ stage' # "off"
    BY DEF IPT!ApplyStep, IPT!EnsureChain, IPT!EnsureJump, IPT!InsertJump,
           IPT!ListChain, IPT!NextBinary, IPT!BinaryDone, IPT!DeleteRule,
           IPT!AppendRule
  <2> QED
    BY <2>1 DEF IPT!IPTablesTypeOK
<1>2. /\ Busy /\ Busy'
      /\ UNCHANGED <<backend, target, disturbed, obstructed, bulbOpen,
                     operatorOpen, elements, copies>>
  BY <1>1 DEF Busy, settingVars, backendVars, zoneVars, nftVars
<1>3. \A f \in Families :
          /\ Rules[f] = IF Leads(BinaryOf(f)) THEN accepts[BinaryOf(f)] ELSE {}
          /\ Rules'[f] =
                IF Leads(BinaryOf(f))' THEN accepts'[BinaryOf(f)] ELSE {}
  BY <1>1, <1>2 DEF Rules, Admits, IPT!Admitted, Leads
<1>4. /\ Unhooked <=> \E b \in IPT!Binaries : accepts[b] # {} /\ ~Hooked(b)
      /\ Unhooked' <=> \E b \in IPT!Binaries : accepts'[b] # {} /\ ~Hooked(b)'
  BY UnpromisedHook, UnpromisedHookNext
<1>m. Misread(target)' = Misread(target)
  BY <1>2 DEF Misread, Zone
<1>5. \A f \in Families : BinaryOf(f) \in IPT!Binaries
  BY BinariesOfFamilies
<1>6. CASE IPT!EnsureChain \/ IPT!EnsureJump \/ IPT!ListChain \/ IPT!NextBinary
  <2>1. Quiet
    BY <1>2, <1>6
       DEF Quiet, IPT!EnsureChain, IPT!EnsureJump, IPT!ListChain,
           IPT!NextBinary, IPT!kernelVars
  <2>2. Busy' = Busy
    BY <1>2 DEF Busy
  <2> QED
    BY <2>1, <2>2, QuietSteps DEF ContractStep
<1>7. CASE IPT!InsertJump
  <2>1. /\ \A d \in IPT!Binaries \ {binary} :
               (Hooked(d)' <=> Hooked(d)) /\ (Leads(d)' <=> Leads(d))
        /\ Hooked(binary)' /\ UNCHANGED accepts
    BY <1>1, <1>7, InputGrows
       DEF IPT!InsertJump, IPT!IPTablesTypeOK, IPT!Rule
  <2>2. CASE Unpromised
    BY <1>2, <2>2, ProgressStep DEF ContractStep, Contract!Next
  <2>3. CASE ~Unpromised
    <3>1. accepts[binary] = {}
      BY <1>1, <1>4, <1>7, <2>3 DEF Unpromised, IPTablesCall, IPT!InsertJump
    <3>2. ~Unpromised'
      BY <1>2, <1>4, <1>m, <2>1, <2>3, <3>1 DEF Unpromised
    <3>3. \A f \in Families : Rules'[f] = Rules[f]
      BY <1>3, <1>5, <2>1, <3>1
    <3> QED
      BY <1>2, <3>2, <3>3, ProgressStep DEF ContractStep, Contract!Next
  <2> QED
    BY <2>2, <2>3
<1>8. ASSUME NEW p \in Keys, IPT!DeleteRule(p) PROVE ContractStep
  <2>1. /\ \A b \in IPT!Binaries : accepts'[b] =
               IF b = binary THEN accepts[b] \ {p} ELSE accepts[b]
        /\ \A b : Hooked(b)' = Hooked(b) /\ Leads(b)' = Leads(b)
        /\ p \notin target
    BY <1>8, SameInput DEF IPT!DeleteRule, IPT!IPTablesTypeOK, IPTablesCall
  <2>2. ~Unpromised => ~Unpromised'
    BY <1>2, <1>4, <1>m, <2>1 DEF Unpromised
  <2>3. \A f \in Families : /\ Rules[f] \cap target \subseteq Rules'[f]
                            /\ Rules'[f] \subseteq Rules[f] \cup target
    BY <1>3, <1>5, <2>1
  <2> QED
    BY <1>2, <2>2, <2>3, ProgressStep DEF ContractStep, Contract!Next
<1>9. ASSUME NEW p \in Keys, IPT!AppendRule(p) PROVE ContractStep
  <2>1. /\ \A b \in IPT!Binaries : accepts'[b] =
               IF b = binary THEN accepts[b] \cup {p} ELSE accepts[b]
        /\ \A b : Hooked(b)' = Hooked(b) /\ Leads(b)' = Leads(b)
        /\ p \in target
    BY <1>9, SameInput DEF IPT!AppendRule, IPT!IPTablesTypeOK, IPTablesCall
  <2>2. Hooked(binary) \/ disturbed
    BY <1>9 DEF IPT!AppendRule, IPTablesCall
  <2>3. ~Unpromised => ~Unpromised'
    BY <1>2, <1>4, <1>m, <2>1, <2>2 DEF Unpromised
  <2>4. \A f \in Families : /\ Rules[f] \cap target \subseteq Rules'[f]
                            /\ Rules'[f] \subseteq Rules[f] \cup target
    BY <1>3, <1>5, <2>1
  <2> QED
    BY <1>2, <2>3, <2>4, ProgressStep DEF ContractStep, Contract!Next
<1> QED
  BY <1>6, <1>7, <1>8, <1>9 DEF IPT!ApplyStep

(* When ip6tables is done, so is iptables; both have a jump, and if no     *)
(* rule precedes it then each admits what its chain accepts.               *)
LEMMA IPTablesReturns ==
    ASSUME BackendsInv, BackendsInv', IPT!ApplyReturns, reported' = TRUE,
           UNCHANGED <<settingVars, backendVars, nftVars>>
    PROVE  Contract!Succeed
<1> USE DEF BackendsInv, IPTablesInv
<1>1. stage = "change" /\ stage' = "off" /\ binary = "ip6tables"
      /\ UNCHANGED <<input, accepts>> /\ backend = "iptables"
      /\ toDelete = {} /\ toAppend = {}
  BY DEF IPT!ApplyReturns, IPT!BinaryDone, IPT!kernelVars
<1>2. phase # "applying" /\ nftStage = "off"
  BY <1>1 DEF FirewalldInv, NFTablesInv
<1>3. /\ Busy /\ ~Busy'
      /\ UNCHANGED <<backend, target, disturbed, obstructed, bulbOpen,
                     operatorOpen, elements, copies>>
  BY <1>1, <1>2
     DEF Busy, settingVars, backendVars, zoneVars, callVars, nftVars
<1>4. Unpromised' = Unpromised /\ Rules' = Rules
  BY <1>1, <1>3, UnpromisedSame, RulesSame DEF Zone
<1>5. ASSUME ~Unpromised, NEW f \in Families PROVE Rules[f] = target
  <2>1. Hooked(BinaryOf(f)) /\ accepts[BinaryOf(f)] = target
    BY <1>1, <1>5 DEF Unpromised, IPTablesCall, BinaryOf
  <2>2. Leads(BinaryOf(f))
    BY <1>5, <2>1 DEF Unpromised, JumpLeads
  <2> QED
    BY <1>1, <2>1, <2>2 DEF Rules, Admits, IPT!Admitted, Leads
<1> QED
  BY <1>3, <1>4, <1>5, SuccessStep

LEMMA IPTablesImplements ==
    ASSUME BackendsInv, BackendsInv', IPTablesRuns
    PROVE  ContractStep
<1>1. UNCHANGED <<settingVars, backendVars, nftVars>>
  BY DEF IPTablesRuns
<1>2. CASE IPT!ApplyStep /\ UNCHANGED reported
  BY <1>1, <1>2, IPTablesStep
<1>3. CASE IPT!ApplyReturns /\ reported' = TRUE
  BY <1>1, <1>3, IPTablesReturns DEF ContractStep, Contract!Next
<1>4. CASE IPT!ApplyFails /\ UNCHANGED reported
  <2>1. stage # "off" /\ stage' = "off" /\ UNCHANGED <<input, accepts>>
    BY <1>4 DEF IPT!ApplyFails, IPT!kernelVars
  <2>2. phase # "applying" /\ nftStage = "off"
    BY <2>1 DEF BackendsInv, IPTablesInv, FirewalldInv, NFTablesInv
  <2>3. Busy /\ ~Busy' /\ Quiet
    BY <1>1, <2>1, <2>2
       DEF Busy, Quiet, settingVars, backendVars, zoneVars, callVars, nftVars
  <2> QED
    BY <1>4, <2>3, QuietSteps DEF ContractStep, Contract!Next
<1> QED
  BY <1>2, <1>3, <1>4 DEF IPTablesRuns, Reports, Retries

LEMMA NFTablesImplements ==
    ASSUME BackendsInv, BackendsInv', NFTablesRuns
    PROVE  ContractStep
<1> USE DEF BackendsInv, NFTablesInv
<1>1. UNCHANGED <<backend, target, disturbed, obstructed, bulbOpen,
                  operatorOpen, phase, input, accepts, stage>>
  BY DEF NFTablesRuns, settingVars, backendVars, zoneVars, callVars,
         iptablesVars
<1>2. nftStage # "off" /\ backend = "nftables"
  BY DEF NFTablesRuns, NFT!ListTable, NFT!LoadRuleset, NFT!ApplyFails
<1>3. phase # "applying" /\ stage = "off"
  BY <1>2 DEF FirewalldInv, IPTablesInv
<1>4. Busy /\ (Busy' <=> nftStage' # "off")
  BY <1>1, <1>2, <1>3 DEF Busy
<1>5. CASE NFT!ListTable /\ UNCHANGED reported
  <2>1. Quiet /\ Busy'
    BY <1>1, <1>4, <1>5 DEF Quiet, NFT!ListTable
  <2>2. Busy' = Busy
    BY <1>4, <2>1 DEF Busy
  <2> QED
    BY <1>5, <2>1, <2>2, QuietSteps DEF ContractStep
<1>6. CASE NFT!LoadRuleset /\ reported' = TRUE
  <2>0. MaxCopies \in Nat \ {0}
    BY BackendsAssumption
  <2>1. elements' = elements \cup target /\ copies' > 0
    BY <1>6, <2>0 DEF NFT!LoadRuleset, NFT!NFTablesTypeOK
  <2>2. copies > 0 \/ elements = {}
    BY <2>0 DEF NFT!NFTablesTypeOK
  <2>3. \A f \in Families :
            /\ Rules[f] = IF copies > 0 THEN elements ELSE {}
            /\ Rules'[f] = elements \cup target
    BY <1>1, <1>2, <2>1 DEF Rules, Admits, NFT!Accepted
  <2>4. Unpromised' = Unpromised /\ ~Busy'
    BY <1>1, <1>4, <1>6, UnpromisedSame DEF NFT!LoadRuleset, Zone
  <2> QED
    BY <1>1, <1>2, <1>4, <1>6, <2>2, <2>3, <2>4, SuccessStep
       DEF ContractStep, Contract!Next
<1>7. CASE NFT!ApplyFails /\ UNCHANGED reported
  <2>1. Quiet /\ ~Busy'
    BY <1>1, <1>4, <1>7 DEF Quiet, NFT!ApplyFails
  <2> QED
    BY <1>4, <1>7, <2>1, QuietSteps DEF ContractStep, Contract!Next
<1> QED
  BY <1>5, <1>6, <1>7 DEF NFTablesRuns, Reports, Retries

(* A failed command, or the end of the process, ends the call; a process   *)
(* that was not in a call leaves no trace.                                 *)
LEMMA FaultImplements ==
    ASSUME BackendsInv, Fault \/ Restart
    PROVE  ContractStep
<1>1. /\ CutOff \/ UNCHANGED firewallVars
      /\ UNCHANGED <<backend, target, disturbed, obstructed, reported>>
  BY DEF Fault, Restart, Retries
<1>2. Quiet
  BY <1>1
     DEF CutOff, firewallVars, Quiet, ApplyFails, IPT!ApplyFails,
         NFT!ApplyFails, zoneVars, IPT!kernelVars, backendVars, iptablesVars,
         nftVars
<1>3. CASE UNCHANGED firewallVars
  <2>1. Busy' = Busy
    BY <1>3 DEF firewallVars, Busy, backendVars, callVars, iptablesVars, nftVars
  <2> QED
    BY <1>1, <1>2, <2>1, QuietSteps DEF ContractStep
<1>4. CASE CutOff
  <2>1. /\ backend # "firewalld" => phase = "idle"
        /\ backend # "iptables" => stage = "off"
        /\ backend # "nftables" => nftStage = "off"
    BY DEF BackendsInv, FirewalldInv, IPTablesInv, NFTablesInv
  <2>2. Busy /\ ~Busy'
    BY <1>4, <2>1
       DEF CutOff, Busy, ApplyFails, CallEnds, IPT!ApplyFails, NFT!ApplyFails,
           backendVars, callVars, iptablesVars, nftVars
  <2> QED
    BY <1>1, <1>2, <2>2, QuietSteps DEF ContractStep, Contract!Next
<1> QED
  BY <1>1, <1>3, <1>4

LEMMA EditImplements ==
    ASSUME BackendsInv, Edit
    PROVE  ContractStep
<1>1. Quiet /\ UNCHANGED reported
  BY DEF Edit, Quiet, firewallVars, backendVars, zoneVars, iptablesVars, nftVars
<1>2. Busy' = Busy
  BY DEF Edit, Busy, firewallVars, backendVars, callVars, iptablesVars, nftVars
<1> QED
  BY <1>1, <1>2, QuietSteps DEF ContractStep

LEMMA HostImplements ==
    ASSUME BackendsInv, BackendsInv', Host
    PROVE  ContractStep
<1>1. Rules' \in [Families -> SUBSET Keys]
  BY RulesTypedNext
<1>2. UNCHANGED <<phase, stage, nftStage>>
  BY DEF Host, HostStep, OperatorOpens, OperatorCloses, Reload, callVars,
         IPT!RestoreRuleset, IPT!FlushRules, IPT!Prepend, NFT!FlushRuleset,
         backendVars, iptablesVars, nftVars
<1>3. Busy' = Busy
  BY <1>2 DEF Busy
<1>4. UNCHANGED <<backend, target, reported>> /\ disturbed' = TRUE
  BY DEF Host
<1> QED
  BY <1>1, <1>3, <1>4 DEF ContractStep, Contract!Next, Contract!Interfere, Rules

(* Every command of every backend is a step of the contract, or invisible  *)
(* in it; so is everything the host does.                                  *)
THEOREM BackendsImplementContract == Spec => ImplementsContract
<1>1. BackendsInv /\ BackendsInv' /\ [Next]_vars =>
          [Contract!Next]_(Contract!contractVars)
  <2> SUFFICES ASSUME BackendsInv, BackendsInv', [Next]_vars
               PROVE  ContractStep
    BY DEF ContractStep
  <2>1. CASE Call
    BY <2>1, CallBegins DEF ContractStep, Contract!Next
  <2>2. CASE Runs
    BY <2>2, FirewalldImplements, IPTablesImplements, NFTablesImplements
       DEF Runs
  <2>3. CASE Fault \/ Restart
    BY <2>3, FaultImplements
  <2>4. CASE Edit
    BY <2>4, EditImplements
  <2>5. CASE Host
    BY <2>5, HostImplements
  <2>6. CASE UNCHANGED vars
    <3>1. Quiet /\ UNCHANGED reported
      BY <2>6 DEF vars, agentVars, settingVars, firewallVars, Quiet,
                  backendVars, zoneVars, iptablesVars, nftVars
    <3>2. Busy' = Busy
      BY <2>6 DEF vars, firewallVars, Busy, backendVars, callVars,
                  iptablesVars, nftVars
    <3> QED
      BY <3>1, <3>2, QuietSteps DEF ContractStep
  <2> QED
    BY <2>1, <2>2, <2>3, <2>4, <2>5, <2>6 DEF Next
<1> QED
  BY <1>1, ContractInit, BackendsInvariant, PTL
     DEF Spec, ImplementsContract, Contract!Spec

(* The firewalld backend among the others does what FirewalldBackend says, *)
(* so everything proved of that holds here: no foreign port is closed or   *)
(* adopted, and every port bulb has open is accounted for.                 *)
THEOREM BackendsRunFirewalld == Spec => BackendSpec
<1>1. BackendsInv /\ [Next]_vars => [BackendNext]_backendVars
  <2> SUFFICES ASSUME BackendsInv, [Next]_vars
               PROVE  BackendNext \/ UNCHANGED backendVars
    OBVIOUS
  <2>1. CASE Call
    <3>1. wanted \in SUBSET Keys
      BY DEF BackendsInv, SettingTyped
    <3> QED
      BY <2>1, <3>1 DEF Call, BackendNext
  <2>2. CASE Runs
    BY <2>2 DEF Runs, FirewalldRuns, IPTablesRuns, NFTablesRuns, BackendNext,
                ApplyStep
  <2>3. CASE Fault \/ Restart \/ Edit \/ Host
    BY <2>3 DEF Fault, Restart, CutOff, Edit, Host, firewallVars, BackendNext
  <2>4. CASE UNCHANGED vars
    BY <2>4 DEF vars, firewallVars
  <2> QED
    BY <2>1, <2>2, <2>3, <2>4 DEF Next
<1>2. Init => BackendInit
  BY DEF Init
<1> QED
  BY <1>1, <1>2, BackendsInvariant, PTL DEF Spec, BackendSpec

(* Whichever backend is in use, every port that bulb has open is accounted *)
(* for, and what operators have opened stays open and theirs.              *)
THEOREM BackendsSpareOperators ==
    Spec => /\ []OpenPortsAccountedFor
            /\ NeverClosesForeignPort
            /\ NeverAdoptsForeignPort
BY BackendsRunFirewalld, BackendAccounting, BackendSparesForeignPorts,
   BackendAdoptsNothing, PTL
=============================================================================
