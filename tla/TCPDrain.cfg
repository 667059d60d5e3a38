SPECIFICATION FairSpec
CONSTANTS
    l1 = l1
    l2 = l2
    c1 = c1
    Listeners <- MCListeners
    Conns <- MCConns
    Chatty <- MCChatty
    MaxChunks = 2
    SendsHeader = TRUE
INVARIANT
    InFlightDrained
CHECK_DEADLOCK FALSE
