------------------------- MODULE XboxOneInputInterface -------------------------
(***************************************************************************)
(* The "controller" interface driver of the Xbox One controller           *)
(* (src/XboxControllerDriver/XboxOne/XboxOneInputInterface.cpp): its      *)
(* lifecycle (init, Start_Impl with handleStart, Stop_Impl, the cancel    *)
(* handler `finalize', free), the receive loop built on one asynchronous  *)
(* read of the IN interrupt pipe (RequestAsyncInterruptData / GotData),   *)
(* the classification of inbound packets, the outbound sends with their   *)
(* 8-bit counter (SendInterruptData), and the enable gate (SetEnable).    *)
(*                                                                         *)
(* The DriverKit framework is the environment: the IN pipe completes the  *)
(* outstanding read, the completion is queued on the interface's serial   *)
(* dispatch queue, and GotData runs from that queue.  Start_Impl,         *)
(* Stop_Impl, GotData and the cancel handler all run on that one queue,   *)
(* so none of them interleave; SetEnable is called by the user client     *)
(* from the user client's own queue and so may land in the middle of      *)
(* GotData, between its read of `enabled' and the dispatch.                *)
(***************************************************************************)
EXTENDS Naturals, Sequences

CONSTANTS
    InPackets,        \* headers the controller may put in the IN buffer
    MaxPacketSizes,   \* max packet sizes the OUT endpoint may negotiate
    AsyncIOResults,   \* outcomes AsyncIO on the IN pipe may return
    MaxTx             \* bound on packets handed to the OUT pipe

ASSUME ConstantsAssumption ==
    /\ InPackets \subseteq [packetType : 0..255, version : 0..255, size : 0..255]
    /\ MaxPacketSizes \subseteq Nat
    /\ AsyncIOResults \subseteq BOOLEAN /\ AsyncIOResults # {}
    /\ MaxTx \in Nat

(* Constants of XboxOneInputPackets.h and XboxOneInputInterface.cpp.      *)
XBOXONE_IN_GUIDE == 7
XBOXONE_IN_BUTTON == 32
XBOXONE_BUTTON_REPORT_SIZE == 14        \* sizeof(button report) - header
XBOXONE_GUIDE_REPORT_SIZE == 2          \* sizeof(guide report) - header
XBOXONE_GUIDE_RESPONSE_SIZE == 9        \* sizeof(guide response) - header
INIT_PACKET_SIZE == 5
SWAP_TO_WIRED_PACKET_SIZE == 5
CounterModulus == 256                   \* outCounter is a uint8_t

Phases == {"inited", "running", "failed", "stopping", "stopped", "freed"}
ActionStates == {"none", "live", "cancelled"}   \* ivars->gotDataAction
Statuses == {"success", "error", "aborted"}      \* status of a completion
TxKinds == {"none", "init", "wired", "guideResponse"}
OutStates == [outCounter : 0..(CounterModulus - 1), tx : Nat,
              last : [kind : TxKinds, ctr : 0..(CounterModulus - 1), len : Nat]]

VARIABLES
    phase,      \* where the object is in its DriverKit lifecycle
    enabled,    \* ivars->enabled
    action,     \* ivars->gotDataAction: not created, live, or cancelled
    outLen,     \* ivars->outPipe.memory.length
    armed,      \* AsyncIO requests outstanding on the IN pipe
    queue,      \* completions queued for GotData on the dispatch queue
    buffer,     \* header currently in ivars->inPipe.memory.address
    got,        \* GotData in progress: the status and `enabled' it read
    out,        \* ivars->outCounter, with the history of transmissions
    forwarded,  \* history: packet types passed to handleReport
    late        \* history: reports forwarded while disabled, since enabled

vars == <<phase, enabled, action, outLen, armed, queue, buffer, got, out,
          forwarded, late>>

NoPacket == [packetType |-> 0, version |-> 0, size |-> 0]
Idle == [busy |-> FALSE, status |-> "success", enabled |-> FALSE]
NoTx == [kind |-> "none", ctr |-> 0, len |-> 0]

-----------------------------------------------------------------------------
(* Mutant: the counter is stamped and advanced before the size check, so *)
(* a refused packet consumes a counter value.                              *)
SendInterruptDataCountsRefused(o, kind, size, cap) ==
    [outCounter |-> (o.outCounter + 1) % CounterModulus,
     tx         |-> IF size > cap THEN o.tx ELSE o.tx + 1,
     last       |-> IF size > cap THEN o.last
                    ELSE [kind |-> kind, ctr |-> o.outCounter, len |-> size]]

(* Mutant: the counter kept in a wider integer that never wraps.           *)
SendInterruptDataNoWrap(o, kind, size, cap) ==
    IF size > cap
    THEN o
    ELSE [outCounter |-> o.outCounter + 1,
          tx         |-> o.tx + 1,
          last       |-> [kind |-> kind, ctr |-> o.outCounter, len |-> size]]

(* SendInterruptData(data, size), as a function of the outbound state `o' *)
(* (counter, number of packets handed to IO, last packet handed to IO)    *)
(* and of the OUT buffer's length `cap'.  A packet longer than the buffer *)
(* is refused before the counter is touched; otherwise the counter is     *)
(* stamped into byte 2 and then incremented (address[2] = outCounter++)   *)
(* and the packet goes to IO, whose result is only logged.                *)
SendInterruptData(o, kind, size, cap) ==
    IF size > cap
    THEN o
    ELSE [outCounter |-> (o.outCounter + 1) % CounterModulus,
          tx         |-> o.tx + 1,
          last       |-> [kind |-> kind, ctr |-> o.outCounter, len |-> size]]

(* RequestAsyncInterruptData(): AsyncIO on the IN pipe with gotDataAction; *)
(* on failure it only logs, so nothing is outstanding afterwards.         *)
RequestAsyncInterruptData(ok) ==
    armed' = armed + (IF ok THEN 1 ELSE 0)

(* Mutant: GotData without the check of ivars->enabled.                    *)
AcceptedIgnoresGate(g) == g.status = "success"

(* GotData_Impl's two early exits: an error status, a disabled gate.        *)
Accepted(g) == g.status = "success" /\ g.enabled

(* Mutant: the early exits re-arm before `goto Exit', which re-arms again. *)
GotDataExitDoubleArm(ok) ==
    armed' = armed + (IF ~ok THEN 0 ELSE IF Accepted(got) THEN 1 ELSE 2)

(* Mutant: an error status returns without re-arming.                      *)
GotDataExitSkipsErrors(ok) ==
    armed' = armed + (IF ok /\ got.status = "success" THEN 1 ELSE 0)

(* GotData_Impl's Exit label: RequestAsyncInterruptData on every path.     *)
GotDataExit(ok) == RequestAsyncInterruptData(ok)

(* HandleReportGeneric: the header's type and size must both match.      *)
Matches(p, packetType, size) ==
    p.packetType = packetType /\ p.size = size

(* super::Stop of the cancel handler or of the fast path closes the       *)
(* interface, aborting the outstanding read; the abort is delivered to    *)
(* GotData only while the action has not been cancelled.                  *)
Aborted(n) == [i \in 1..n |-> "aborted"]

SuperStop ==
    /\ armed' = 0
    /\ queue' = IF action = "live" THEN queue \o Aborted(armed) ELSE queue
    /\ phase' = "stopped"

-----------------------------------------------------------------------------
(* init(): ivars zeroed (outCounter 0, no action, no buffers), then        *)
(* enabled = true.                                                         *)
Init ==
    /\ phase = "inited"
    /\ enabled = TRUE
    /\ action = "none"
    /\ outLen = 0
    /\ armed = 0
    /\ queue = <<>>
    /\ buffer = NoPacket
    /\ got = Idle
    /\ out = [outCounter |-> 0, tx |-> 0, last |-> NoTx]
    /\ forwarded = {}
    /\ late = 0

(* Start_Impl: Open the interface and super::Start, which calls           *)
(* handleStart: super::handleStart, InitDescriptors, InitPipes,           *)
(* SetupPipes (fails on a zero max packet size), CreateActionGotData.     *)
(* Any of these may fail, and Start fails with nothing armed.  On         *)
(* success the two handshake packets are sent (results ignored) and the   *)
(* first read is armed (result ignored).                                  *)
StartFailed ==
    /\ phase' = "failed"
    /\ UNCHANGED <<enabled, action, outLen, armed, queue, buffer, got, out,
                   forwarded, late>>

handleStart(len, armOk) ==
    /\ len # 0
    /\ outLen' = len
    /\ action' = "live"
    /\ out' = SendInterruptData(SendInterruptData(out, "init", INIT_PACKET_SIZE, len),
                                 "wired", SWAP_TO_WIRED_PACKET_SIZE, len)
    /\ RequestAsyncInterruptData(armOk)
    /\ phase' = "running"
    /\ UNCHANGED <<enabled, queue, buffer, got, forwarded, late>>

Start_Impl ==
    /\ phase = "inited"
    /\ \/ StartFailed
       \/ \E len \in MaxPacketSizes, armOk \in AsyncIOResults :
              handleStart(len, armOk)

(* The IN pipe completes the outstanding read (environment).  On success  *)
(* the controller's packet is in the buffer.  The completion is queued    *)
(* for GotData unless gotDataAction has been cancelled.                    *)
PipeCompletes ==
    /\ armed > 0
    /\ out.tx < MaxTx
    /\ \E st \in {"success", "error"}, p \in InPackets :
          /\ armed' = armed - 1
          /\ buffer' = IF st = "success" THEN p ELSE buffer
          /\ queue' = IF action = "live" THEN Append(queue, st) ELSE queue
    /\ UNCHANGED <<phase, enabled, action, outLen, got, out, forwarded, late>>

(* GotData_Impl, up to its read of the flag: it takes the status of the   *)
(* completion and reads ivars->enabled.                                    *)
GotDataCheck ==
    /\ queue # <<>>
    /\ ~got.busy
    /\ got' = [busy |-> TRUE, status |-> Head(queue), enabled |-> enabled]
    /\ queue' = Tail(queue)
    /\ UNCHANGED <<phase, enabled, action, outLen, armed, buffer, out,
                   forwarded, late>>

(* GotData_Impl, the rest: an error status or a disabled gate skips to    *)
(* Exit.  Otherwise HandleControllerReport, then HandleGuideReport: each  *)
(* matches type and size and passes the buffer to handleReport, which may *)
(* fail; a handled guide report of version 0x30 is answered with the      *)
(* guide response.  Exit always calls RequestAsyncInterruptData.          *)
GotDataDispatch ==
    /\ got.busy
    /\ \E hidOk \in BOOLEAN, armOk \in AsyncIOResults :
          LET p == buffer
              accepted == Accepted(got)
              button == accepted /\ Matches(p, XBOXONE_IN_BUTTON, XBOXONE_BUTTON_REPORT_SIZE)
              guide == accepted /\ Matches(p, XBOXONE_IN_GUIDE, XBOXONE_GUIDE_REPORT_SIZE)
              reported == (button \/ guide) /\ hidOk
          IN /\ forwarded' = IF reported THEN forwarded \cup {p.packetType}
                                         ELSE forwarded
             /\ late' = IF reported /\ ~enabled THEN late + 1 ELSE late
             /\ out' = IF reported /\ guide /\ p.version = 48
                       THEN SendInterruptData(out, "guideResponse",
                                              XBOXONE_GUIDE_RESPONSE_SIZE, outLen)
                       ELSE out
             /\ GotDataExit(armOk)
    /\ got' = Idle
    /\ UNCHANGED <<phase, enabled, action, outLen, queue, buffer>>

(* SetEnable(enabled), called by XboxOneUserClient::HandleLicensing from  *)
(* the user client's queue; a no-op once ivars is gone.                    *)
SetEnable(b) ==
    /\ phase # "freed"
    /\ enabled' = b
    /\ late' = IF b THEN 0 ELSE late
    /\ UNCHANGED <<phase, action, outLen, armed, queue, buffer, got, out,
                   forwarded>>

(* Mutant: Stop_Impl always takes the fast path, super::Stop at once.    *)
Stop_ImplNoCancel ==
    /\ phase \in {"running", "failed"}
    /\ ~got.busy
    /\ SuperStop
    /\ UNCHANGED <<enabled, action, outLen, buffer, got, out, forwarded, late>>

(* Stop_Impl: with no gotDataAction, super::Stop at once; otherwise       *)
(* Cancel(finalize), which drops the queued callbacks, and return.        *)
Stop_Impl ==
    /\ phase \in {"running", "failed"}
    /\ ~got.busy
    /\ IF action = "none"
       THEN SuperStop /\ UNCHANGED action
       ELSE /\ action' = "cancelled"
            /\ queue' = <<>>
            /\ phase' = "stopping"
            /\ UNCHANGED armed
    /\ UNCHANGED <<enabled, outLen, buffer, got, out, forwarded, late>>

(* Mutant: the finalize block waits for the outstanding read to finish.   *)
FinalizeWaitsForRead ==
    /\ phase = "stopping"
    /\ ~got.busy
    /\ armed = 0
    /\ SuperStop
    /\ UNCHANGED <<enabled, action, outLen, buffer, got, out, forwarded, late>>

(* The `finalize' block, run by DriverKit once the cancel has completed:  *)
(* super::Stop, then the releases of the retains taken in Stop_Impl.       *)
Finalize ==
    /\ phase = "stopping"
    /\ ~got.busy
    /\ SuperStop
    /\ UNCHANGED <<enabled, action, outLen, buffer, got, out, forwarded, late>>

(* free(): releases the descriptors, both pipes and their buffers, the    *)
(* action and the interface, and deletes ivars.                            *)
free ==
    /\ phase \in {"stopped", "failed"}
    /\ phase' = "freed"
    /\ UNCHANGED <<enabled, action, outLen, armed, queue, buffer, got, out,
                   forwarded, late>>

(* The object's life has ended; nothing more happens to it.                *)
Terminated ==
    /\ phase = "freed"
    /\ UNCHANGED vars

Next ==
    \/ Start_Impl
    \/ PipeCompletes
    \/ GotDataCheck
    \/ GotDataDispatch
    \/ \E b \in BOOLEAN : SetEnable(b)
    \/ Stop_Impl
    \/ Finalize
    \/ free
    \/ Terminated

(* The dispatch queue runs what is queued on it, and DriverKit runs the   *)
(* cancel handler and releases a stopped object.  The controller, the     *)
(* user client and the termination request (Stop_Impl) are not fair.      *)
Fairness ==
    /\ WF_vars(GotDataCheck)
    /\ WF_vars(GotDataDispatch)
    /\ WF_vars(Finalize)
    /\ WF_vars(free)

Spec == Init /\ [][Next]_vars /\ Fairness

-----------------------------------------------------------------------------
(* Every variable keeps its type.                                          *)
TypeOK ==
    /\ phase \in Phases
    /\ enabled \in BOOLEAN
    /\ action \in ActionStates
    /\ outLen \in Nat
    /\ armed \in Nat
    /\ queue \in Seq(Statuses)
    /\ buffer \in InPackets \cup {NoPacket}
    /\ got \in [busy : BOOLEAN, status : Statuses, enabled : BOOLEAN]
    /\ out \in OutStates
    /\ forwarded \subseteq 0..255
    /\ late \in Nat

(* The reads in flight: armed AsyncIOs, queued completions, running GotData. *)
InFlightOf(a, q, g) == a + Len(q) + (IF g.busy THEN 1 ELSE 0)

InFlight == InFlightOf(armed, queue, got)

(* The receive loop never has two reads in flight: an outstanding AsyncIO, *)
(* a completion queued for GotData and a GotData in progress number at    *)
(* most one together, so the single IN buffer is never overwritten while  *)
(* GotData reads it (RequestAsyncInterruptData is called only at Exit).   *)
SingleOutstandingReceive == InFlight <= 1

(* Spec section 3: while the interface runs exactly one receive is         *)
(* pending, so the loop never stops listening (GotData's Exit re-arms on  *)
(* every path).                                                            *)
ReceiveAlwaysArmed == phase = "running" => InFlight = 1

(* Stop_Impl and finalize quiesce the loop before free() releases the     *)
(* pipes and buffers: once freed, no read is outstanding, no GotData is   *)
(* queued and none is running.                                             *)
QuiescentAtRelease ==
    phase = "freed" => armed = 0 /\ queue = <<>> /\ ~got.busy

(* SendInterruptData advances outCounter exactly once for every packet it *)
(* hands to the OUT pipe, never for a refused one, and stamps each packet *)
(* with the counter value before the increment: the k-th transmitted      *)
(* packet carries (k - 1) mod 256.                                         *)
CounterTracksTransmissions ==
    /\ out.outCounter = out.tx % CounterModulus
    /\ out.tx > 0 => out.last.ctr = (out.tx - 1) % CounterModulus

(* After SetEnable(false) at most one report reaches handleReport before  *)
(* the next SetEnable(true): the one whose GotData had already read the   *)
(* flag (spec section 4.5, the one-packet delay).                          *)
LateReportBound == late <= 1

(* Spec section 6: only button reports (0x20) are submitted as HID        *)
(* reports; guide reports (0x07) are consumed by the driver.               *)
OnlyButtonReportsForwarded == forwarded \subseteq {XBOXONE_IN_BUTTON}

(* Spec sections 3 and 8: the guide response handed to the OUT pipe is the *)
(* whole 13-byte packet (4-byte header, 4 bytes of data, 5 of padding).   *)
GuideResponseComplete ==
    out.last.kind = "guideResponse" => out.last.len = 13

(* A Stop_Impl that cancels the action is always followed by super::Stop  *)
(* and the release of the object.                                          *)
StopCompletes == phase = "stopping" ~> phase = "freed"

=============================================================================
