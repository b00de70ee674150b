------------------------ MODULE XboxOneRefinementProofs ------------------------
(***************************************************************************)
(* The input interface implements the abstract receive loop, for every    *)
(* value of the constants: Spec => Loop!LoopSpec.                          *)
(*                                                                         *)
(* A step maps to an abstract step only in a reachable state: GotData     *)
(* handles a read only while the interface runs, a completion that is     *)
(* dropped comes while stopping, and free() finds nothing outstanding.    *)
(* The inductive invariant IInv of XboxOneInputInterfaceProofs gives all  *)
(* of this but one fact, that a cancelled action belongs to an interface  *)
(* that is stopping or past it; CancelledAfterStop adds that fact.        *)
(***************************************************************************)
EXTENDS XboxOneInputInterfaceRefinement, XboxOneInputInterfaceProofs

(* gotDataAction is cancelled only by Stop_Impl, which leaves the object  *)
(* stopping; nothing brings it back to running.                            *)
CancelledAfterStop ==
    action = "cancelled" => phase \in {"stopping", "stopped", "freed"}

RInv == IInv /\ CancelledAfterStop

-----------------------------------------------------------------------------
(* A sequence is empty exactly when its length is 0.                       *)
LEMMA EmptyIffLen ==
    ASSUME NEW S, NEW q \in Seq(S)
    PROVE  (q = <<>>) <=> (Len(q) = 0)
BY EmptySeq

(* SendInterruptData hands at most one packet to IO.                       *)
LEMMA SendTxGrowth ==
    ASSUME NEW o \in OutStates, NEW kind \in TxKinds,
           NEW size \in Nat, NEW cap \in Nat
    PROVE  SendInterruptData(o, kind, size, cap).tx \in {o.tx, o.tx + 1}
BY DEF SendInterruptData, OutStates

(* The handshake of handleStart, two sends in a row, hands at most two.   *)
LEMMA HandshakeTxGrowth ==
    ASSUME NEW o \in OutStates, NEW cap \in Nat
    PROVE  LET h == SendInterruptData(SendInterruptData(o, "init", INIT_PACKET_SIZE, cap),
                                      "wired", SWAP_TO_WIRED_PACKET_SIZE, cap)
           IN  h.tx \in o.tx..(o.tx + 2)
<1> DEFINE o1 == SendInterruptData(o, "init", INIT_PACKET_SIZE, cap)
          h == SendInterruptData(o1, "wired", SWAP_TO_WIRED_PACKET_SIZE, cap)
<1>1. o1 \in OutStates /\ o1.tx \in {o.tx, o.tx + 1}
  BY SendInterruptDataType, SendTxGrowth DEF TxKinds, INIT_PACKET_SIZE
<1>2. h.tx \in {o1.tx, o1.tx + 1}
  BY <1>1, SendTxGrowth DEF TxKinds, SWAP_TO_WIRED_PACKET_SIZE
<1>3. o.tx \in Nat
  BY DEF OutStates
<1>4. QED
  BY <1>1, <1>2, <1>3

LEMMA InitRInv == Init => RInv
BY InitIInv DEF Init, RInv, CancelledAfterStop

(* CancelledAfterStop is preserved by every step on its own.              *)
LEMMA NextCancelled ==
    CancelledAfterStop /\ [Next]_vars => CancelledAfterStop'
<1> SUFFICES ASSUME CancelledAfterStop, [Next]_vars PROVE CancelledAfterStop'
    OBVIOUS
<1> USE DEF CancelledAfterStop
<1>1. CASE Start_Impl
  BY <1>1 DEF Start_Impl, StartFailed, handleStart
<1>2. CASE Stop_Impl
  BY <1>2 DEF Stop_Impl, SuperStop
<1>3. CASE Finalize \/ free
  BY <1>3 DEF Finalize, SuperStop, free
<1>4. CASE PipeCompletes \/ GotDataCheck \/ GotDataDispatch
                        \/ \E b \in BOOLEAN : SetEnable(b)
  BY <1>4 DEF PipeCompletes, GotDataCheck, GotDataDispatch, SetEnable
<1>5. CASE Terminated \/ UNCHANGED vars
  BY <1>5 DEF Terminated, vars
<1>6. QED
  BY <1>1, <1>2, <1>3, <1>4, <1>5 DEF Next

LEMMA NextRInv == RInv /\ [Next]_vars => RInv'
BY NextIInv, NextCancelled DEF RInv

-----------------------------------------------------------------------------
(* The initial state is the abstract initial state.                        *)
LEMMA InitRefines == Init => Loop!LoopInit
BY DEF Init, Loop!LoopInit, ReadOutstanding, Idle

(* Every step from a reachable state is a step of the abstract loop or     *)
(* leaves the interface's phase, its outstanding read and its count of     *)
(* sends alone.                                                            *)
LEMMA NextRefines ==
    RInv /\ RInv' /\ [Next]_vars => [Loop!LoopNext]_Loop!loopvars
<1> SUFFICES ASSUME RInv, RInv', [Next]_vars
             PROVE  [Loop!LoopNext]_Loop!loopvars
    OBVIOUS
<1> DEFINE Abs == <<phase, ReadOutstanding, out.tx>>
<1>0. /\ TypeOK /\ OneOrNone(armed, queue, got) /\ Consistent /\ CancelledAfterStop
      /\ TypeOK'
  BY DEF RInv, IInv
<1>q. (queue = <<>>) <=> (Len(queue) = 0)
  BY <1>0, EmptyIffLen DEF TypeOK
<1>q2. (queue' = <<>>) <=> (Len(queue') = 0)
  BY <1>0, EmptyIffLen DEF TypeOK
<1> HIDE DEF Abs
<1>1. CASE Start_Impl
  <2>1. phase = "inited" /\ ReadOutstanding = 0
    BY <1>0, <1>1, <1>q DEF Start_Impl, Consistent, Quiet, ReadOutstanding
  <2>2. CASE StartFailed
    BY <2>1, <2>2 DEF StartFailed, ReadOutstanding, Loop!LoopNext, Loop!Begin
  <2>3. CASE \E len \in MaxPacketSizes, armOk \in AsyncIOResults :
                handleStart(len, armOk)
    <3>1. PICK len \in MaxPacketSizes, armOk \in AsyncIOResults :
                handleStart(len, armOk)
      BY <2>3
    <3>2. out'.tx \in out.tx..(out.tx + 2)
      BY <1>0, <3>1, HandshakeTxGrowth, ConstantsAssumption DEF handleStart, TypeOK
    <3>3. ReadOutstanding' \in {0, 1} /\ phase' = "running"
      BY <3>1 DEF ReadOutstanding, handleStart
    <3>4. QED
      BY <2>1, <3>2, <3>3 DEF Loop!LoopNext, Loop!Begin
  <2>4. QED
    BY <1>1, <2>2, <2>3 DEF Start_Impl
<1>2. CASE PipeCompletes
  <2>1. armed = 1 /\ Len(queue) = 0 /\ ~got.busy /\ action # "none"
    BY <1>0, <1>2 DEF PipeCompletes, OneOrNone, Consistent, Quiet
  <2>2. ReadOutstanding = 1 /\ phase' = phase /\ got' = got /\ out' = out
    BY <2>1, <1>2 DEF PipeCompletes, ReadOutstanding
  <2>3. CASE action = "live"
    <3>1. queue' # <<>>
      BY <1>0, <1>2, <2>3, AppendProperties DEF PipeCompletes, TypeOK
    <3>2. ReadOutstanding' = 1
      BY <3>1 DEF ReadOutstanding
    <3>3. QED
      BY <2>2, <3>2 DEF Loop!loopvars
  <2>4. CASE action # "live"
    <3>1. phase = "stopping"
      BY <1>0, <2>1, <2>4 DEF TypeOK, ActionStates, CancelledAfterStop,
                               Consistent, Quiet
    <3>2. armed' = 0 /\ queue' = queue /\ queue = <<>>
      BY <1>2, <2>1, <2>4, <1>q DEF PipeCompletes
    <3>3. ReadOutstanding' = 0
      BY <2>1, <2>2, <3>2 DEF ReadOutstanding
    <3>4. QED
      BY <2>2, <3>1, <3>3 DEF Loop!LoopNext, Loop!Drop
  <2>5. QED
    BY <2>3, <2>4
<1>3. CASE GotDataCheck
  <2>1. got'.busy /\ UNCHANGED <<phase, out>> /\ queue # <<>>
    BY <1>3 DEF GotDataCheck
  <2>2. ReadOutstanding = 1 /\ ReadOutstanding' = 1
    BY <2>1 DEF ReadOutstanding
  <2>3. QED
    BY <2>1, <2>2 DEF Loop!loopvars
<1>4. CASE GotDataDispatch
  <2>1. got.busy /\ phase = "running"
    BY <1>0, <1>4 DEF GotDataDispatch, Consistent, Quiet, TypeOK, Phases
  <2>2. out'.tx \in {out.tx, out.tx + 1}
    <3>1. PICK hidOk \in BOOLEAN, armOk \in AsyncIOResults :
              out' \in {out, SendInterruptData(out, "guideResponse",
                                               XBOXONE_GUIDE_RESPONSE_SIZE, outLen)}
      BY <1>4 DEF GotDataDispatch
    <3>2. CASE out' = out
      BY <3>2
    <3>3. CASE out' = SendInterruptData(out, "guideResponse",
                                        XBOXONE_GUIDE_RESPONSE_SIZE, outLen)
      <4>1. out \in OutStates /\ outLen \in Nat
        BY <1>0 DEF TypeOK
      <4>2. QED
        BY <3>3, <4>1, SendTxGrowth DEF TxKinds, XBOXONE_GUIDE_RESPONSE_SIZE
    <3>4. QED
      BY <3>1, <3>2, <3>3
  <2>3. ReadOutstanding = 1 /\ ReadOutstanding' \in {0, 1} /\ phase' = phase
    BY <1>4, <2>1 DEF ReadOutstanding, GotDataDispatch
  <2>4. QED
    BY <2>1, <2>2, <2>3 DEF Loop!LoopNext, Loop!Handle
<1>5. CASE \E b \in BOOLEAN : SetEnable(b)
  BY <1>5 DEF SetEnable, ReadOutstanding, Loop!loopvars
<1>6. CASE Stop_Impl
  <2>1. phase \in {"running", "failed"} /\ ~got.busy /\ UNCHANGED <<got, out>>
    BY <1>6 DEF Stop_Impl
  <2>2. CASE action = "none"
    <3>1. armed' = 0 /\ queue' = queue /\ queue = <<>> /\ phase' = "stopped"
      BY <1>0, <1>6, <2>2, <1>q DEF Stop_Impl, SuperStop, Consistent, Quiet
    <3>2. ReadOutstanding' = 0
      BY <2>1, <3>1 DEF ReadOutstanding
    <3>3. QED
      BY <2>1, <3>1, <3>2 DEF Loop!LoopNext, Loop!Halt
  <2>3. CASE action # "none"
    <3>1. armed' = armed /\ queue' = <<>> /\ phase' = "stopping"
      BY <1>6, <2>3 DEF Stop_Impl
    <3>2. ReadOutstanding' \in {0, ReadOutstanding}
      BY <2>1, <3>1 DEF ReadOutstanding
    <3>3. QED
      BY <2>1, <3>1, <3>2 DEF Loop!LoopNext, Loop!Halt
  <2>4. QED
    BY <2>2, <2>3
<1>7. CASE Finalize
  <2>1. phase = "stopping" /\ action = "cancelled" /\ Len(queue) = 0
    BY <1>0, <1>7 DEF Finalize, Consistent
  <2>2. armed' = 0 /\ queue' = queue /\ queue = <<>> /\ phase' = "stopped"
        /\ ~got'.busy /\ out' = out
    BY <1>7, <2>1, <1>q DEF Finalize, SuperStop
  <2>3. ReadOutstanding' = 0
    BY <2>2 DEF ReadOutstanding
  <2>4. QED
    BY <2>1, <2>2, <2>3 DEF Loop!LoopNext, Loop!Finish
<1>8. CASE free
  <2>1. phase \in {"stopped", "failed"} /\ ReadOutstanding = 0
    BY <1>0, <1>8, <1>q DEF free, Consistent, Quiet, ReadOutstanding
  <2>2. phase' = "freed" /\ UNCHANGED <<armed, queue, got, out>>
    BY <1>8 DEF free
  <2>3. QED
    BY <2>1, <2>2 DEF ReadOutstanding, Loop!LoopNext, Loop!Release
<1>9. CASE Terminated \/ UNCHANGED vars
  BY <1>9 DEF Terminated, vars, ReadOutstanding, Loop!loopvars
<1>10. QED
  BY <1>1, <1>2, <1>3, <1>4, <1>5, <1>6, <1>7, <1>8, <1>9 DEF Next

-----------------------------------------------------------------------------
(* Spec section 3's receive loop, as XboxOneReceiveLoop states it: every  *)
(* behaviour of the input interface (Start_Impl with its handshake, the   *)
(* pipe, GotData with its re-arm and guide response, Stop_Impl's cancel,  *)
(* finalize and free) is a behaviour of the abstract loop, for every set  *)
(* of packets, packet sizes and AsyncIO outcomes.  ImplementsReceiveLoop  *)
(* is that abstract specification.                                         *)
THEOREM RefinesReceiveLoop == Spec => ImplementsReceiveLoop
<1>1. Spec => []RInv
  BY InitRInv, NextRInv, PTL DEF Spec
<1>2. QED
  BY <1>1, InitRefines, NextRefines, PTL DEF Spec, ImplementsReceiveLoop, Loop!LoopSpec


=============================================================================
