CONSTANTS
    a = a
    b = b
    Absent = Absent
    ThisNode = "this"
    Keys <- MCKeys
    Foreign = {}
    Reads <- MCReads
    Names = {a, b}
    KeyOf <- MCKeyOf
    NodeLists <- MCNodeLists
    DenyLists <- MCDenyLists
    Budget <- MCBudget
SPECIFICATION FairSpec
INVARIANTS
    AgentTypeOK
    StatusSettles
PROPERTIES
    OpensOnlyAllowedPorts
    BackendSpec
    WantedPortsOpenInTheEnd
    TrackedPortsCloseInTheEnd
    StatusTrueInTheEnd
