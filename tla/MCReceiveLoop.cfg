CONSTANTS
    InPackets <- MCInPackets
    MaxPacketSizes <- MCMaxPacketSizes
    AsyncIOResults = {TRUE}
    MaxTx = 260
SPECIFICATION Spec
INVARIANT ReceiveAlwaysArmed
