CONSTANTS
    web = web
    shop = shop
    n1 = n1
    n2 = n2
    http = http
    dns = dns
    Absent = Absent
    Svcs = {web, shop}
    Ports = {http}
    Nodes = {n1}
    Selected = {n1}
    Families <- BothFamilies
    Specs <- RivalSpecs
    Taken = {}
    AgentNodes = {n1}
    Lagging = {"ds"}
    Budget <- RivalBudget
SPECIFICATION FairSpec
INVARIANTS
    NoPortShared
    TrafficTruthful
PROPERTIES
    ServicesSettleInTheEnd
