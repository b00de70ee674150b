CONSTANTS
    InPackets <- MCInPackets
    MaxPacketSizes <- MCMaxPacketSizes
    AsyncIOResults = {TRUE, FALSE}
    MaxTx = 20
SPECIFICATION Spec
INVARIANT GuideResponseComplete
