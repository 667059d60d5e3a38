CONSTANTS
    web = web
    shop = shop
    n1 = n1
    n2 = n2
    http = http
    dns = dns
    Absent = Absent
    Svcs = {web}
    Ports = {http, dns}
    Nodes = {n1, n2}
    Selected = {n1}
    Families <- BothFamilies
    Specs <- LifeSpecs
    Taken <- DNSTaken
    AgentNodes = {n2}
    Lagging = {"svc", "lb"}
    Budget <- LifeBudget
SPECIFICATION Spec
INVARIANTS
    ControllerTypeOK
    LBPortsNeverOrphaned
    StatusTruthful
    StaleNodesPruned
    ChildrenNeverOrphaned
