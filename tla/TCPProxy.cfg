SPECIFICATION FairSpec
CONSTANTS
    l1 = l1
    l2 = l2
    c1 = c1
    Listeners <- MCListeners
    Conns <- MCConns
    Chatty <- MCChatty
    MaxChunks = 2
    SendsHeader = TRUE
INVARIANTS
    TCPTypeOK
    NothingOutlivesServe
    EndOfStreamIsReal
PROPERTIES
    NoneAddedWhileWaiting
    ServeReturnsInTheEnd
CHECK_DEADLOCK FALSE
