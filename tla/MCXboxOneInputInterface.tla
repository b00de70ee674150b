----------------------- MODULE MCXboxOneInputInterface -----------------------
(* Instantiates the input interface for TLC.  The packets are the two the *)
(* driver knows, in the size and version it accepts and in the ones the    *)
(* spec mentions (a 16-byte button payload, guide version 0x31), and an   *)
(* unknown type.  An OUT packet size of 8 makes the 9-byte guide response *)
(* be refused, 64 lets it through, 0 makes SetupPipe fail.                 *)
EXTENDS XboxOneInputInterfaceRefinement

MCInPackets ==
    { [packetType |-> 32, version |-> 0,  size |-> 14],
      [packetType |-> 32, version |-> 0,  size |-> 16],
      [packetType |-> 7,  version |-> 48, size |-> 2],
      [packetType |-> 7,  version |-> 49, size |-> 2],
      [packetType |-> 1,  version |-> 32, size |-> 9] }

MCMaxPacketSizes == {0, 8, 64}
=============================================================================
