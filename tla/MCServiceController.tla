------------------------ MODULE MCServiceController ------------------------
EXTENDS ServiceController, TLC

CONSTANTS web, shop, n1, n2, http, dns

Base == [matches |-> TRUE, ports |-> {http}, selector |-> FALSE, local |-> FALSE,
         keep |-> FALSE, dnsName |-> FALSE, problem |-> "none"]

\* Specs that compete for a port, or are refused for another reason.
RivalSpecs == {Base, [Base EXCEPT !.selector = TRUE],
               [Base EXCEPT !.problem = "unbuildable"],
               [Base EXCEPT !.local = TRUE]}

\* A Service that goes through its life: proxied, with DNS, restricted to
\* some nodes and to be kept, in conflict over the name of an LBPort, and
\* disowned.
LifeSpecs == {[Base EXCEPT !.dnsName = TRUE],
              [Base EXCEPT !.selector = TRUE, !.dnsName = TRUE, !.keep = TRUE],
              [Base EXCEPT !.ports = {http, dns}],
              [Base EXCEPT !.matches = FALSE, !.keep = TRUE]}

BothFamilies == [n \in Nodes |-> IF n = n1 THEN {"A"} ELSE {"A", "AAAA"}]

DNSTaken == {<<web, dns>>}

Limits(edit, crash, fault, cluster) ==
    ("edit" :> edit) @@ ("crash" :> crash) @@ ("fault" :> fault)
        @@ ("cluster" :> cluster)

\* Three edits create, change and delete, or let two Services meet.
LifeBudget == Limits(3, 1, 1, 1)
RivalBudget == Limits(3, 0, 0, 1)
=============================================================================
