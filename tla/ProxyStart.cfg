SPECIFICATION Spec
CONSTANTS
    Services <- MCServices
    EndpointSets <- MCEndpointSets
    RefusedNames = {"probes"}
    UnprivilegedStart = 100
    MaxChanges = 1
INVARIANTS
    StartsUnlessNamed
    ForwardsToOwnPort
PROPERTIES
    FreshInTheEnd
CHECK_DEADLOCK FALSE
