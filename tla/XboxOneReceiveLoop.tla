--------------------------- MODULE XboxOneReceiveLoop ---------------------------
(***************************************************************************)
(* What the input interface promises, without its machinery: one read of  *)
(* the IN pipe is outstanding or none is; a read is handled whole, and    *)
(* handling it sends at most one packet; the handshake at Start sends at  *)
(* most two; Stop may take two steps (a cancel, then its handler); and the *)
(* object is released only when no read is outstanding.  How the read     *)
(* travels from the pipe through the dispatch queue to GotData, and when  *)
(* the re-arm happens, is left out.                                        *)
(***************************************************************************)
EXTENDS Naturals

VARIABLES
    lphase,       \* the interface's lifecycle
    outstanding,  \* 1 while a read is outstanding, 0 otherwise
    sends         \* packets handed to the OUT pipe

loopvars == <<lphase, outstanding, sends>>

LoopInit == lphase = "inited" /\ outstanding = 0 /\ sends = 0

(* Start succeeds, sending the handshake and arming a read (the arm may   *)
(* fail), or fails with nothing armed and nothing sent.                    *)
Begin ==
    /\ lphase = "inited"
    /\ \/ /\ lphase' = "running"
          /\ outstanding' \in {0, 1}
          /\ sends' \in sends..(sends + 2)
       \/ /\ lphase' = "failed"
          /\ UNCHANGED <<outstanding, sends>>

(* The outstanding read completes and is handled: perhaps one packet is   *)
(* sent, and the next read is armed or, if arming fails, not.             *)
Handle ==
    /\ lphase = "running"
    /\ outstanding = 1
    /\ outstanding' \in {0, 1}
    /\ sends' \in {sends, sends + 1}
    /\ UNCHANGED lphase

(* Stop: at once, or by a cancel whose handler finishes it; either may    *)
(* drop the outstanding read, and the stop itself ends it.                 *)
Halt ==
    /\ lphase \in {"running", "failed"}
    /\ lphase' \in {"stopping", "stopped"}
    /\ outstanding' \in {0, outstanding}
    /\ lphase' = "stopped" => outstanding' = 0
    /\ UNCHANGED sends

(* While stopping, the outstanding read may complete; its completion is    *)
(* dropped, since nothing will handle it any more.                         *)
Drop ==
    /\ lphase = "stopping"
    /\ outstanding = 1
    /\ outstanding' = 0
    /\ UNCHANGED <<lphase, sends>>

Finish ==
    /\ lphase = "stopping"
    /\ lphase' = "stopped"
    /\ outstanding' = 0
    /\ UNCHANGED sends

(* The object is released only with no read outstanding.                   *)
Release ==
    /\ lphase \in {"stopped", "failed"}
    /\ outstanding = 0
    /\ lphase' = "freed"
    /\ UNCHANGED <<outstanding, sends>>

LoopNext == Begin \/ Handle \/ Halt \/ Drop \/ Finish \/ Release

LoopSpec == LoopInit /\ [][LoopNext]_loopvars

=============================================================================
