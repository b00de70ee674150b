------------------------ MODULE MCXboxOneDeviceDescription ------------------------
(* Instantiates the synthesizer for TLC.  The code units are NUL, 'A',    *)
(* U+0100 (whose low byte is NUL) and U+0141 (low byte 'A'); descriptors  *)
(* have every bLength from 0 to 8, odd ones included, and four units of   *)
(* memory after the header, so the last unit always lies past bLength.    *)
EXTENDS XboxOneDeviceDescription

MCUnits == {0, 65, 256, 321}

NullDescriptor == [present |-> FALSE, bLength |-> 0, bString |-> <<0, 0, 0, 0>>]

MCStringDescriptors ==
    {[present |-> TRUE, bLength |-> n, bString |-> s] :
        n \in 0..8, s \in [1..4 -> MCUnits]} \cup {NullDescriptor}
=============================================================================
