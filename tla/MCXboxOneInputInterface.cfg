CONSTANTS
    InPackets <- MCInPackets
    MaxPacketSizes <- MCMaxPacketSizes
    AsyncIOResults = {TRUE, FALSE}
    MaxTx = 260
SPECIFICATION Spec
INVARIANT TypeOK
INVARIANT SingleOutstandingReceive
INVARIANT QuiescentAtRelease
INVARIANT CounterTracksTransmissions
INVARIANT LateReportBound
PROPERTY StopCompletes
