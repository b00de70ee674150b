----------------------------- MODULE MCXboxOneDriver -----------------------------
(* Instantiates the whole driver for TLC: two connections, the selectors  *)
(* 0 (unknown), 1 (licensing) and 2 (past the table), and scalars 0, 1    *)
(* and 2 (2 is true as a bool).  Two packets (a button report and a guide *)
(* report that is answered) and the OUT packet sizes 0 and 64.             *)
EXTENDS XboxOneDriverRefinement

CONSTANTS c1, c2

MCClients == {c1, c2}

MCDriverInPackets ==
    { [packetType |-> 32, version |-> 0,  size |-> 14],
      [packetType |-> 7,  version |-> 48, size |-> 2] }

MCDriverMaxPacketSizes == {0, 64}
=============================================================================
