---------------------- MODULE XboxOneInputInterfaceProofs ----------------------
(***************************************************************************)
(* Proofs about the input interface, for every value of the constants     *)
(* that satisfies ConstantsAssumption: the type invariant, that the      *)
(* receive loop never has more than one read in flight, and that nothing  *)
(* is in flight once the object is freed.                                  *)
(*                                                                         *)
(* SingleOutstandingReceive is not inductive by itself: Start_Impl arms a *)
(* read, so it needs "nothing is in flight before Start"; and super::Stop *)
(* appends the aborted read to the queue of a live action, so it needs    *)
(* "the action is cancelled while stopping" and "no action, nothing in    *)
(* flight" to know that the aborted read is never delivered.  The bound  *)
(* on the sum is carried as its three shapes (OneOrNone), which each     *)
(* action preserves without arithmetic on the next state.                 *)
(***************************************************************************)
EXTENDS XboxOneInputInterface, SequenceTheorems, TLAPS

(* At most one read in flight, spelt out: nothing; one armed read; or one *)
(* queued completion.  A running GotData counts as the one read.           *)
OneOrNone(a, q, g) ==
    \/ a = 0 /\ Len(q) = 0
    \/ a = 1 /\ Len(q) = 0 /\ ~g.busy
    \/ a = 0 /\ Len(q) = 1 /\ ~g.busy

Quiet == armed = 0 /\ Len(queue) = 0 /\ ~got.busy

(* The strengthening of the two invariants.                                *)
Consistent ==
    /\ phase \in {"inited", "failed", "stopped", "freed"} => Quiet
    /\ phase = "stopping" => action = "cancelled" /\ Len(queue) = 0 /\ ~got.busy
    /\ action = "none" => Quiet

IInv == TypeOK /\ OneOrNone(armed, queue, got) /\ Consistent

-----------------------------------------------------------------------------
(* The same, for the three counts of reads in flight as plain numbers.   *)
LEMMA SumShapes ==
    ASSUME NEW a \in Nat, NEW n \in Nat,
           NEW g \in [busy : BOOLEAN, status : Statuses, enabled : BOOLEAN]
    PROVE  a + n + (IF g.busy THEN 1 ELSE 0) <= 1
           <=> \/ a = 0 /\ n = 0
               \/ a = 1 /\ n = 0 /\ ~g.busy
               \/ a = 0 /\ n = 1 /\ ~g.busy
<1>1. CASE g.busy
  BY <1>1
<1>2. CASE ~g.busy
  BY <1>2
<1>3. QED
  BY <1>1, <1>2

(* The bound on the reads in flight is the disjunction of its shapes.      *)
LEMMA InFlightShapes ==
    ASSUME NEW a \in Nat, NEW q \in Seq(Statuses),
           NEW g \in [busy : BOOLEAN, status : Statuses, enabled : BOOLEAN]
    PROVE  InFlightOf(a, q, g) <= 1 <=> OneOrNone(a, q, g)
<1>1. Len(q) \in Nat
  BY LenProperties
<1>2. QED
  BY <1>1, SumShapes, Zenon DEF InFlightOf, OneOrNone

(* A send keeps the outbound state well-typed, for every packet and every *)
(* buffer length, whether it is refused or handed to IO.                   *)
LEMMA SendInterruptDataType ==
    ASSUME NEW o \in OutStates, NEW kind \in TxKinds,
           NEW size \in Nat, NEW cap \in Nat
    PROVE  SendInterruptData(o, kind, size, cap) \in OutStates
BY DEF SendInterruptData, OutStates, CounterModulus

(* A sequence of length one is not empty.                                  *)
LEMMA NonEmptyOfLen ==
    ASSUME NEW q, Len(q) = 1
    PROVE  q # <<>>
<1>1. Len(<<>>) = 0
  OBVIOUS
<1>2. QED
  BY <1>1

LEMMA InitIInv == Init => IInv
BY ConstantsAssumption
   DEF Init, IInv, TypeOK, OneOrNone, Consistent, Quiet,
       Phases, ActionStates, Statuses, NoPacket, Idle, NoTx, OutStates,
       TxKinds, CounterModulus

LEMMA NextIInv == IInv /\ [Next]_vars => IInv'
<1> SUFFICES ASSUME IInv, [Next]_vars PROVE IInv'
    OBVIOUS
<1> USE ConstantsAssumption DEF IInv, TypeOK, OneOrNone, Consistent, Quiet,
        Phases, ActionStates, Statuses, Idle
<1>1. CASE Start_Impl
  <2>1. CASE StartFailed
    BY <1>1, <2>1 DEF Start_Impl, StartFailed
  <2>2. CASE \E len \in MaxPacketSizes, armOk \in AsyncIOResults :
                handleStart(len, armOk)
    <3>1. PICK len \in MaxPacketSizes, armOk \in AsyncIOResults :
                handleStart(len, armOk)
      BY <2>2
    <3>2. out' \in OutStates
      BY <3>1, SendInterruptDataType
         DEF handleStart, TxKinds, INIT_PACKET_SIZE, SWAP_TO_WIRED_PACKET_SIZE
    <3>3. armed = 0 /\ Len(queue) = 0 /\ ~got.busy
      BY <1>1 DEF Start_Impl
    <3>4. (armed' = 0 \/ armed' = 1) /\ queue' = queue /\ got' = got
      BY <3>1, <3>3 DEF handleStart, RequestAsyncInterruptData
    <3>5. QED
      BY <3>1, <3>2, <3>3, <3>4 DEF handleStart
  <2>3. QED
    BY <1>1, <2>1, <2>2 DEF Start_Impl
<1>2. CASE PipeCompletes
  <2>1. PICK st \in {"success", "error"}, p \in InPackets :
            /\ armed' = armed - 1
            /\ buffer' = IF st = "success" THEN p ELSE buffer
            /\ queue' = IF action = "live" THEN Append(queue, st) ELSE queue
    BY <1>2 DEF PipeCompletes
  <2>2. armed = 1 /\ Len(queue) = 0 /\ ~got.busy /\ action # "none"
    BY <1>2 DEF PipeCompletes
  <2>3. armed' = 0
    BY <2>1, <2>2
  <2>5. queue' \in Seq(Statuses) /\ (Len(queue') = 0 \/ Len(queue') = 1)
    <3>1. CASE action = "live"
      <4>1. Append(queue, st) \in Seq(Statuses) /\ Len(Append(queue, st)) = 1
        BY <2>2, AppendProperties
      <4>2. QED
        BY <2>1, <3>1, <4>1
    <3>2. CASE action # "live"
      BY <2>1, <2>2, <3>2
    <3>3. QED
      BY <3>1, <3>2
  <2>4. QED
    BY <1>2, <2>1, <2>2, <2>3, <2>5 DEF PipeCompletes
<1>3. CASE GotDataCheck
  <2>1. armed = 0 /\ Len(queue) = 1 /\ ~got.busy /\ action # "none"
    BY <1>3 DEF GotDataCheck
  <2>2. Tail(queue) \in Seq(Statuses) /\ Len(Tail(queue)) = 0
    <3>1. queue # <<>>
      BY <2>1, NonEmptyOfLen, Zenon
    <3>2. QED
      BY <3>1, HeadTailProperties
  <2>3. queue' \in Seq(Statuses) /\ Len(queue') = 0 /\ armed' = 0 /\ got'.busy
    BY <1>3, <2>1, <2>2 DEF GotDataCheck
  <2>4. QED
    BY <1>3, <2>1, <2>3 DEF GotDataCheck
<1>4. CASE GotDataDispatch
  <2>1. PICK hidOk \in BOOLEAN, armOk \in AsyncIOResults :
            LET p == buffer
                accepted == Accepted(got)
                button == accepted /\ Matches(p, XBOXONE_IN_BUTTON, XBOXONE_BUTTON_REPORT_SIZE)
                guide == accepted /\ Matches(p, XBOXONE_IN_GUIDE, XBOXONE_GUIDE_REPORT_SIZE)
                reported == (button \/ guide) /\ hidOk
            IN /\ forwarded' = IF reported THEN forwarded \cup {p.packetType}
                                          ELSE forwarded
               /\ late' = IF reported /\ ~enabled THEN late + 1 ELSE late
               /\ out' = IF reported /\ guide /\ p.version = 48
                        THEN SendInterruptData(out, "guideResponse",
                                               XBOXONE_GUIDE_RESPONSE_SIZE, outLen)
                        ELSE out
               /\ GotDataExit(armOk)
    BY <1>4 DEF GotDataDispatch
  <2>2. out' \in OutStates
    BY <2>1, SendInterruptDataType DEF TxKinds, XBOXONE_GUIDE_RESPONSE_SIZE
  <2>3. buffer.packetType \in 0..255
    BY DEF NoPacket
  <2>4. /\ forwarded' \in {forwarded, forwarded \cup {buffer.packetType}}
        /\ late' \in {late, late + 1}
        /\ GotDataExit(armOk)
    BY <2>1, Zenon
  <2>8. forwarded' \subseteq 0..255 /\ late' \in Nat
    <3>1. forwarded' \subseteq 0..255
      BY <2>3, <2>4, Zenon
    <3>2. late' \in Nat
      BY <2>4
    <3>3. QED
      BY <3>1, <3>2
  <2>5. armed = 0 /\ Len(queue) = 0 /\ action # "none"
    BY <1>4 DEF GotDataDispatch
  <2>6. armed' = 0 \/ armed' = 1
    BY <2>4, <2>5 DEF GotDataExit, RequestAsyncInterruptData
  <2>9. got' = Idle /\ UNCHANGED <<phase, enabled, action, outLen, queue, buffer>>
    BY <1>4 DEF GotDataDispatch
  <2>10. got.busy /\ phase # "inited"
    BY <1>4 DEF GotDataDispatch
  <2>11. TypeOK'
    BY <2>2, <2>6, <2>8, <2>9
  <2>12. OneOrNone(armed, queue, got)'
    BY <2>5, <2>6, <2>9
  <2>13. Consistent'
    BY <2>5, <2>9, <2>10
  <2>7. QED
    BY <2>11, <2>12, <2>13
<1>5. CASE \E b \in BOOLEAN : SetEnable(b)
  BY <1>5 DEF SetEnable
<1>6. CASE Stop_Impl
  <2>1. CASE action = "none"
    <3>1. armed' = 0 /\ queue' = queue /\ phase' = "stopped"
      BY <1>6, <2>1 DEF Stop_Impl, SuperStop
    <3>2. QED
      BY <1>6, <2>1, <3>1 DEF Stop_Impl
  <2>2. CASE action # "none"
    BY <1>6, <2>2 DEF Stop_Impl
  <2>3. QED
    BY <2>1, <2>2
<1>7. CASE Finalize
  <2>1. action = "cancelled" /\ ~got.busy
    BY <1>7 DEF Finalize
  <2>2. armed' = 0 /\ queue' = queue /\ phase' = "stopped"
    BY <1>7, <2>1 DEF Finalize, SuperStop
  <2>3. QED
    BY <1>7, <2>1, <2>2 DEF Finalize
<1>8. CASE free
  BY <1>8 DEF free
<1>9. CASE Terminated
  BY <1>9 DEF Terminated, vars
<1>10. CASE UNCHANGED vars
  BY <1>10 DEF vars
<1>11. QED
  BY <1>1, <1>2, <1>3, <1>4, <1>5, <1>6, <1>7, <1>8, <1>9, <1>10 DEF Next

(* The inductive invariant implies the read bound, in the same state.     *)
LEMMA IInvSingle == IInv => SingleOutstandingReceive
BY InFlightShapes DEF IInv, TypeOK, SingleOutstandingReceive, InFlight

-----------------------------------------------------------------------------
(* Every reachable state is well-typed.                                    *)
THEOREM TypeCorrect == Spec => []TypeOK
<1>1. Spec => []IInv
  BY InitIInv, NextIInv, PTL DEF Spec
<1>2. QED
  BY <1>1, PTL DEF IInv

(* The receive loop never has two reads in flight (an outstanding AsyncIO, *)
(* a queued completion, a running GotData), for every set of packets, of  *)
(* packet sizes and of AsyncIO outcomes.                                   *)
THEOREM SingleOutstanding == Spec => []SingleOutstandingReceive
<1>1. Spec => []IInv
  BY InitIInv, NextIInv, PTL DEF Spec
<1>2. QED
  BY <1>1, IInvSingle, PTL

(* Stop_Impl's cancel and the finalize block quiesce the receive loop      *)
(* before free() releases the pipes, buffers and action: when the object   *)
(* is freed no AsyncIO is outstanding, no completion is queued and no      *)
(* GotData is running, whichever stop path was taken.                     *)
THEOREM Released == Spec => []QuiescentAtRelease
<1>1. Spec => []IInv
  BY InitIInv, NextIInv, PTL DEF Spec
<1>2. IInv => QuiescentAtRelease
  <2>1. SUFFICES ASSUME IInv, phase = "freed"
                 PROVE  armed = 0 /\ queue = <<>> /\ ~got.busy
    BY DEF QuiescentAtRelease
  <2>2. armed = 0 /\ Len(queue) = 0 /\ ~got.busy /\ queue \in Seq(Statuses)
    BY <2>1 DEF IInv, Consistent, Quiet, TypeOK
  <2>3. QED
    BY <2>2, EmptySeq
<1>3. QED
  BY <1>1, <1>2, PTL

-----------------------------------------------------------------------------
(* The counter law of CounterTracksTransmissions, for any outbound state.  *)
CounterLaw(o) ==
    /\ o.outCounter = o.tx % CounterModulus
    /\ o.tx > 0 => o.last.ctr = (o.tx - 1) % CounterModulus

(* SendInterruptData keeps the counter law: a refused packet changes      *)
(* nothing, and a sent one is stamped with the old counter, after which   *)
(* the counter and the count of packets advance together modulo 256.     *)
LEMMA SendKeepsCounterLaw ==
    ASSUME NEW o \in OutStates, NEW kind \in TxKinds,
           NEW size \in Nat, NEW cap \in Nat,
           CounterLaw(o)
    PROVE  CounterLaw(SendInterruptData(o, kind, size, cap))
<1>1. CASE size > cap
  BY <1>1 DEF SendInterruptData
<1>2. CASE ~(size > cap)
  <2>1. o.tx \in Nat /\ o.outCounter = o.tx % 256
    BY DEF OutStates, CounterLaw, CounterModulus
  <2>2. (o.outCounter + 1) % 256 = (o.tx + 1) % 256
    BY <2>1
  <2>3. o.outCounter = ((o.tx + 1) - 1) % 256
    BY <2>1
  <2>4. QED
    BY <1>2, <2>2, <2>3 DEF SendInterruptData, CounterLaw, CounterModulus
<1>3. QED
  BY <1>1, <1>2

(* Every step keeps the counter law, from a well-typed state.              *)
LEMMA NextCounterLaw ==
    TypeOK /\ CounterLaw(out) /\ [Next]_vars => CounterLaw(out)'
<1> SUFFICES ASSUME TypeOK, CounterLaw(out), [Next]_vars
             PROVE  CounterLaw(out')
    OBVIOUS
<1>1. CASE \E len \in MaxPacketSizes, armOk \in AsyncIOResults : handleStart(len, armOk)
  <2>1. PICK len \in MaxPacketSizes, armOk \in AsyncIOResults : handleStart(len, armOk)
    BY <1>1
  <2> DEFINE o1 == SendInterruptData(out, "init", INIT_PACKET_SIZE, len)
  <2>2. len \in Nat /\ out \in OutStates
    BY ConstantsAssumption DEF TypeOK
  <2>3. o1 \in OutStates /\ CounterLaw(o1)
    BY <2>2, SendInterruptDataType, SendKeepsCounterLaw DEF TxKinds, INIT_PACKET_SIZE
  <2>4. out' = SendInterruptData(o1, "wired", SWAP_TO_WIRED_PACKET_SIZE, len)
    BY <2>1 DEF handleStart
  <2>5. QED
    BY <2>2, <2>3, <2>4, SendKeepsCounterLaw DEF TxKinds, SWAP_TO_WIRED_PACKET_SIZE
<1>2. CASE GotDataDispatch
  <2>1. out' \in {out, SendInterruptData(out, "guideResponse",
                                        XBOXONE_GUIDE_RESPONSE_SIZE, outLen)}
    BY <1>2 DEF GotDataDispatch
  <2>2. out \in OutStates /\ outLen \in Nat
    BY DEF TypeOK
  <2>3. CounterLaw(SendInterruptData(out, "guideResponse",
                                     XBOXONE_GUIDE_RESPONSE_SIZE, outLen))
    BY <2>2, SendKeepsCounterLaw DEF TxKinds, XBOXONE_GUIDE_RESPONSE_SIZE
  <2>4. QED
    BY <2>1, <2>3
<1>3. CASE ~(\E len \in MaxPacketSizes, armOk \in AsyncIOResults : handleStart(len, armOk))
           /\ ~GotDataDispatch
  <2>1. out' = out
    BY <1>3 DEF Next, Start_Impl, StartFailed, PipeCompletes, GotDataCheck,
                SetEnable, Stop_Impl, Finalize, free, Terminated, vars
  <2>2. QED
    BY <2>1
<1>4. QED
  BY <1>1, <1>2, <1>3

(* The 8-bit counter SendInterruptData stamps into byte 2 of every packet *)
(* always equals the number of packets handed to IO modulo 256, and the  *)
(* last packet carries the count before it: refused packets never         *)
(* consume a value, and the wrap at 256 is the uint8_t's.                  *)
THEOREM CounterCorrect == Spec => []CounterTracksTransmissions
<1>1. Init => CounterLaw(out)
  BY DEF Init, CounterLaw, CounterModulus
<1>2. Spec => []CounterLaw(out)
  BY <1>1, NextCounterLaw, TypeCorrect, PTL DEF Spec
<1>3. QED
  BY <1>2, PTL DEF CounterTracksTransmissions, CounterLaw

-----------------------------------------------------------------------------
(* The strengthening of LateReportBound: while enabled nothing is late,   *)
(* and once a report has been forwarded late, the GotData in progress (if *)
(* any) read the gate closed.                                              *)
LateInv ==
    /\ late \in {0, 1}
    /\ enabled => late = 0
    /\ late = 1 => ~(got.busy /\ got.enabled)

LEMMA NextLateInv == TypeOK /\ LateInv /\ [Next]_vars => LateInv'
<1> SUFFICES ASSUME TypeOK, LateInv, [Next]_vars PROVE LateInv'
    OBVIOUS
<1>1. CASE GotDataCheck
  BY <1>1 DEF GotDataCheck, LateInv
<1>2. CASE GotDataDispatch
  <2>1. PICK hidOk \in BOOLEAN, armOk \in AsyncIOResults :
            late' = IF ((Accepted(got) /\ Matches(buffer, XBOXONE_IN_BUTTON, XBOXONE_BUTTON_REPORT_SIZE))
                        \/ (Accepted(got) /\ Matches(buffer, XBOXONE_IN_GUIDE, XBOXONE_GUIDE_REPORT_SIZE)))
                       /\ hidOk /\ ~enabled
                    THEN late + 1 ELSE late
    BY <1>2 DEF GotDataDispatch
  <2>2. got.busy /\ got' = Idle /\ enabled' = enabled
    BY <1>2 DEF GotDataDispatch
  <2>3. CASE Accepted(got) /\ ~enabled
    <3>1. late = 0
      BY <2>2, <2>3 DEF LateInv, Accepted
    <3>2. late' \in {0, 1}
      BY <2>1, <3>1
    <3>3. QED
      BY <2>2, <2>3, <3>2 DEF LateInv, Idle
  <2>4. CASE ~(Accepted(got) /\ ~enabled)
    <3>1. late' = late
      BY <2>1, <2>4
    <3>2. QED
      BY <2>2, <3>1 DEF LateInv, Idle
  <2>5. QED
    BY <2>3, <2>4
<1>3. CASE \E b \in BOOLEAN : SetEnable(b)
  BY <1>3 DEF SetEnable, LateInv
<1>4. CASE Start_Impl
  BY <1>4 DEF Start_Impl, StartFailed, handleStart, LateInv
<1>5. CASE PipeCompletes \/ Stop_Impl \/ Finalize \/ free
  BY <1>5 DEF PipeCompletes, Stop_Impl, Finalize, free, LateInv
<1>6. CASE Terminated \/ UNCHANGED vars
  BY <1>6 DEF Terminated, vars, LateInv
<1>7. QED
  BY <1>1, <1>2, <1>3, <1>4, <1>5, <1>6 DEF Next

(* Spec section 4.5's one-packet delay: after SetEnable(false) at most    *)
(* one report reaches handleReport before the next SetEnable(true), the   *)
(* one whose GotData read the flag before it changed (SetEnable runs on    *)
(* the user client's queue, between GotData's read and its dispatch).     *)
THEOREM LateBounded == Spec => []LateReportBound
<1>1. Init => LateInv
  BY DEF Init, LateInv
<1>2. Spec => []LateInv
  BY <1>1, NextLateInv, TypeCorrect, PTL DEF Spec
<1>3. LateInv => LateReportBound
  BY DEF LateInv, LateReportBound
<1>4. QED
  BY <1>2, <1>3, PTL


-----------------------------------------------------------------------------
(* While the interface runs, the action is live and a read is in flight.  *)
ArmedInv == phase = "running" => action = "live" /\ ~Quiet

(* One of two counts is 1 and the other 0: their sum is 1.               *)
LEMMA OneOfTwo ==
    ASSUME NEW a \in Nat, NEW n \in Nat, (a = 1 /\ n = 0) \/ (a = 0 /\ n = 1)
    PROVE  a + n + 0 = 1
OBVIOUS

(* With at most one read in flight and not none, exactly one is.           *)
LEMMA ExactlyOneInFlight ==
    ASSUME NEW a \in Nat, NEW q \in Seq(Statuses),
           NEW g \in [busy : BOOLEAN, status : Statuses, enabled : BOOLEAN],
           OneOrNone(a, q, g), ~(a = 0 /\ Len(q) = 0 /\ ~g.busy)
    PROVE  InFlightOf(a, q, g) = 1
<1>1. Len(q) \in Nat
  BY LenProperties
<1>2. CASE g.busy
  <2>1. a = 0 /\ Len(q) = 0
    BY <1>2 DEF OneOrNone
  <2>2. InFlightOf(a, q, g) = 0 + 0 + 1
    BY <1>2, <2>1 DEF InFlightOf
  <2>3. QED
    BY <2>2
<1>3. CASE ~g.busy
  <2>1. (a = 1 /\ Len(q) = 0) \/ (a = 0 /\ Len(q) = 1)
    BY <1>3 DEF OneOrNone
  <2>2. InFlightOf(a, q, g) = a + Len(q) + 0
    BY <1>3 DEF InFlightOf
  <2>3. a + Len(q) + 0 = 1
    BY <1>1, <2>1, OneOfTwo
  <2>4. QED
    BY <2>2, <2>3
<1>4. QED
  BY <1>2, <1>3

(* If AsyncIO never fails, every step keeps ArmedInv: handleStart arms the *)
(* first read, a completion of the live action is queued, GotData takes   *)
(* it, and GotData's Exit arms the next one.                               *)
LEMMA NextArmedInv ==
    ASSUME AsyncIOResults = {TRUE}
    PROVE  IInv /\ ArmedInv /\ [Next]_vars => ArmedInv'
<1> SUFFICES ASSUME IInv, ArmedInv, [Next]_vars PROVE ArmedInv'
    OBVIOUS
<1>0. TypeOK /\ OneOrNone(armed, queue, got) /\ Consistent
  BY DEF IInv
<1>1. CASE Start_Impl
  <2>1. CASE StartFailed
    BY <2>1 DEF StartFailed, ArmedInv
  <2>2. CASE \E len \in MaxPacketSizes, armOk \in AsyncIOResults : handleStart(len, armOk)
    <3>1. PICK len \in MaxPacketSizes, armOk \in AsyncIOResults : handleStart(len, armOk)
      BY <2>2
    <3>2. armed = 0 /\ armOk = TRUE
      BY <1>0, <1>1 DEF Start_Impl, Consistent, Quiet
    <3>3. armed' = 1 /\ action' = "live"
      BY <3>1, <3>2 DEF handleStart, RequestAsyncInterruptData
    <3>4. QED
      BY <3>3 DEF ArmedInv, Quiet
  <2>3. QED
    BY <1>1, <2>1, <2>2 DEF Start_Impl
<1>2. CASE PipeCompletes
  <2>1. phase' = phase /\ action' = action
    BY <1>2 DEF PipeCompletes
  <2>2. CASE phase = "running"
    <3>1. action = "live"
      BY <2>2 DEF ArmedInv
    <3>2. PICK st \in {"success", "error"}, p \in InPackets : queue' = Append(queue, st)
      BY <1>2, <3>1 DEF PipeCompletes
    <3>3. Len(queue') # 0
      BY <1>0, <3>2, AppendProperties, LenProperties DEF TypeOK, Statuses
    <3>4. QED
      BY <2>1, <3>1, <3>3 DEF ArmedInv, Quiet
  <2>3. CASE phase # "running"
    BY <2>1, <2>3 DEF ArmedInv
  <2>4. QED
    BY <2>2, <2>3
<1>3. CASE GotDataCheck
  BY <1>3 DEF GotDataCheck, ArmedInv, Quiet
<1>4. CASE GotDataDispatch
  <2>1. PICK hidOk \in BOOLEAN, armOk \in AsyncIOResults : GotDataExit(armOk)
    BY <1>4 DEF GotDataDispatch
  <2>2. armed \in Nat /\ armOk = TRUE
    BY <1>0 DEF TypeOK
  <2>3. armed' # 0
    BY <2>1, <2>2 DEF GotDataExit, RequestAsyncInterruptData
  <2>4. phase' = phase /\ action' = action
    BY <1>4 DEF GotDataDispatch
  <2>5. QED
    BY <2>3, <2>4 DEF ArmedInv, Quiet
<1>5. CASE \E b \in BOOLEAN : SetEnable(b)
  BY <1>5 DEF SetEnable, ArmedInv, Quiet
<1>6. CASE Stop_Impl \/ Finalize \/ free
  BY <1>6 DEF Stop_Impl, SuperStop, Finalize, free, ArmedInv
<1>7. CASE Terminated \/ UNCHANGED vars
  BY <1>7 DEF Terminated, vars, ArmedInv, Quiet
<1>8. QED
  BY <1>1, <1>2, <1>3, <1>4, <1>5, <1>6, <1>7 DEF Next

(* Spec section 3: when AsyncIO on the IN pipe never fails, exactly one   *)
(* read is in flight whenever the interface runs, because GotData's Exit  *)
(* re-arms on every path.  The hypothesis is the whole difference: the    *)
(* code ignores a failed AsyncIO at the first arm and at the re-arm       *)
(* (XboxOneInputInterface.cpp:401 and :854), and run                      *)
(* receive_loop_arm_fails shows the loop dying without it.                 *)
THEOREM AlwaysArmed ==
    ASSUME AsyncIOResults = {TRUE}
    PROVE  Spec => []ReceiveAlwaysArmed
<1>1. Init => IInv /\ ArmedInv
  BY InitIInv DEF Init, ArmedInv
<1>2. IInv /\ ArmedInv /\ [Next]_vars => (IInv /\ ArmedInv)'
  BY NextIInv, NextArmedInv
<1>3. IInv /\ ArmedInv => ReceiveAlwaysArmed
  <2>1. SUFFICES ASSUME IInv, ArmedInv, phase = "running" PROVE InFlight = 1
    BY DEF ReceiveAlwaysArmed
  <2>2. TypeOK /\ OneOrNone(armed, queue, got) /\ ~Quiet
    BY <2>1 DEF IInv, ArmedInv
  <2>3. QED
    BY <2>2, ExactlyOneInFlight DEF TypeOK, Quiet, InFlight
<1>4. QED
  BY <1>1, <1>2, <1>3, PTL DEF Spec

=============================================================================
