-------------------------- MODULE FirewallContract --------------------------
(***************************************************************************)
(* What the firewall-agent relies on when it calls Backend.Apply           *)
(* (internal/firewall/backend.go): it reports a port as applied as soon as *)
(* Apply has returned nil.  Whichever backend is used and however many     *)
(* commands it needs, a call moves the admitted ports towards its target   *)
(* and never away from it; if it returns nil then the target is admitted,  *)
(* in both address families, unless somebody else has changed the firewall *)
(* meanwhile.  A backend that owns its rules admits exactly the target.    *)
(***************************************************************************)
CONSTANTS Ports, Families

VARIABLES
    exact,     \* the backend owns the rules it looks at
    rules,     \* family -> the ports admitted
    busy,      \* a call of Apply is running
    target,    \* the ports it was given
    reported,  \* the last call returned nil
    disturbed  \* the firewall is not as the backend alone would have it

contractVars == <<exact, rules, busy, target, reported, disturbed>>

Init ==
    /\ exact \in BOOLEAN
    /\ rules \in [Families -> SUBSET Ports]
    /\ busy = FALSE
    /\ target \in SUBSET Ports
    /\ reported = FALSE
    /\ disturbed = FALSE

Begin ==
    /\ ~busy
    /\ busy' = TRUE
    /\ target' \in SUBSET Ports
    /\ reported' = FALSE
    /\ disturbed' \in BOOLEAN
    /\ UNCHANGED <<exact, rules>>

(* Nothing of the target is lost, and nothing else is gained.              *)
Towards(old, new) == old \cap target \subseteq new /\ new \subseteq old \cup target

Progress ==
    /\ busy
    /\ rules' \in [Families -> SUBSET Ports]
    /\ \A f \in Families : Towards(rules[f], rules'[f])
    /\ UNCHANGED <<exact, busy, target, reported, disturbed>>

(* Of the commands that make up for what others have done nothing is       *)
(* promised: a rule that lost its effect may have it again for a moment.   *)
Repair ==
    /\ busy
    /\ disturbed
    /\ disturbed' \in BOOLEAN
    /\ rules' \in [Families -> SUBSET Ports]
    /\ UNCHANGED <<exact, busy, target, reported>>

Met(admitted) == target \subseteq admitted /\ (exact => admitted = target)

(* The last command of a call may be the one that completes it.            *)
Succeed ==
    /\ busy
    /\ busy' = FALSE
    /\ reported' = TRUE
    /\ rules' \in [Families -> SUBSET Ports]
    /\ \A f \in Families :
           /\ Towards(rules[f], rules'[f])
           /\ Met(rules'[f]) \/ disturbed
    /\ UNCHANGED <<exact, target, disturbed>>

(* What the caller learns from an error is only that there was one.  Its   *)
(* target is what it will call with again.                                 *)
Fail ==
    /\ busy
    /\ busy' = FALSE
    /\ UNCHANGED <<exact, rules, target, reported, disturbed>>

Interfere ==
    /\ rules' \in [Families -> SUBSET Ports]
    /\ disturbed' = TRUE
    /\ UNCHANGED <<exact, busy, target, reported>>

Next == Begin \/ Progress \/ Repair \/ Succeed \/ Fail \/ Interfere

Spec == Init /\ [][Next]_contractVars
=============================================================================
