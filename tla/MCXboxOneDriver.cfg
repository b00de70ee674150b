CONSTANTS
    InPackets <- MCDriverInPackets
    MaxPacketSizes <- MCDriverMaxPacketSizes
    AsyncIOResults = {TRUE, FALSE}
    MaxTx = 3
    c1 = c1
    c2 = c2
    Clients <- MCClients
    Selectors = {0, 1, 2}
    Scalars = {0, 1, 2}
SPECIFICATION DriverSpec
INVARIANT ClientPointerValid
INVARIANT RegisteredAfterSetup
PROPERTY TerminationCompletes
PROPERTY ImplementsLicensing
