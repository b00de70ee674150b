--------------------- MODULE XboxOneInputInterfaceRefinement ---------------------
(***************************************************************************)
(* The input interface implements the abstract receive loop.  A read is   *)
(* outstanding while it is armed on the pipe, queued for GotData or being *)
(* handled by it; the number of sends is the count of packets handed to   *)
(* IO.                                                                     *)
(***************************************************************************)
EXTENDS XboxOneInputInterface

ReadOutstanding == IF armed = 0 /\ queue = <<>> /\ ~got.busy THEN 0 ELSE 1

Loop == INSTANCE XboxOneReceiveLoop
            WITH lphase <- phase, outstanding <- ReadOutstanding, sends <- out.tx

(* Every behaviour of the input interface is one of the abstract receive  *)
(* loop: each step of Start_Impl, the pipe, GotData, Stop_Impl, finalize  *)
(* and free is a step of the abstract loop or leaves its state alone.     *)
ImplementsReceiveLoop == Loop!LoopSpec

=============================================================================
