CHECK_DEADLOCK FALSE
SPECIFICATION FairSpec
CONSTANTS
    web = web
    dns = dns
    range1 = range1
    sctp1 = sctp1
    Keys <- MCKeys
    UDPKeys <- MCUDPKeys
    Foreign <- MCForeign
    Reads <- MCReads
    Covers <- MCCovers
    MaxCopies = 2
    Choices <- NFTablesOnly
    Limit <- QuietLimit
PROPERTIES
    NFTablesClosesPorts
