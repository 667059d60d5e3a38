SPECIFICATION Spec
CONSTANTS
    p1 = p1
    p2 = p2
    q = q
    g6 = g6
    u6 = u6
    l6 = l6
    None = None
    KindOf <- MCKindOf
    AddrLists <- MCAddrLists
    Limit <- MCLimit
INVARIANTS
    PublishedWasPublic
PROPERTIES
    AnnotationsRightInTheEnd
