-------------------------- MODULE XboxOneDriverProofs --------------------------
(***************************************************************************)
(* Proofs about the composed driver, for any set of connections and any   *)
(* constants: a user client never holds its unretained pointer to an      *)
(* input interface that has been freed.                                    *)
(***************************************************************************)
EXTENDS XboxOneDriver, XboxOneInputInterfaceProofs, TLAPS

(* The strengthening: every started client was created under the          *)
(* interface, and while one is started the interface is running.  The    *)
(* second half holds because the interface opens clients only while it    *)
(* runs and DriverKit stops it only once its clients have stopped.         *)
DriverInv ==
    /\ cphase \in [Clients -> ClientPhases]
    /\ cprov \in [Clients -> Providers]
    /\ \A c \in Clients :
          cphase[c] = "started" => cprov[c] = "interface" /\ phase = "running"

(* A step that leaves the interface's phase and the clients' phases and   *)
(* providers alone keeps DriverInv.                                        *)
LEMMA FrameInv ==
    ASSUME DriverInv,
           phase' = phase, cphase' = cphase, cprov' = cprov
    PROVE  DriverInv'
BY DEF DriverInv

(* A step of the interface that changes no client and starts from a state *)
(* with no started client keeps DriverInv.                                 *)
LEMMA NoClientInv ==
    ASSUME DriverInv,
           \A c \in Clients : cphase[c] # "started",
           cphase' = cphase, cprov' = cprov
    PROVE  DriverInv'
BY DEF DriverInv

(* The initial state satisfies the strengthening.                          *)
LEMMA InitDriverInv == DriverInit => DriverInv
BY DEF DriverInit, ClientsInit, DriverInv, ClientPhases, Providers

(* Every step of the driver keeps the strengthening.                       *)
LEMMA NextDriverInv == DriverInv /\ [DriverNext]_allvars => DriverInv'
<1> SUFFICES ASSUME DriverInv, [DriverNext]_allvars PROVE DriverInv'
    OBVIOUS
<1>1. CASE DeviceStarts
    BY <1>1, FrameInv DEF DeviceStarts, vars, cvars
<1>2. CASE InterfaceStarts
    <2>1. \A c \in Clients : cphase[c] # "started"
        BY <1>2 DEF InterfaceStarts, InterfaceStep, Start_Impl, DriverInv
    <2>2. cphase' = cphase /\ cprov' = cprov
        BY <1>2 DEF InterfaceStarts, InterfaceStep, cvars
    <2>3. QED
        BY <2>1, <2>2, NoClientInv
<1>3. CASE InterfaceStep(PipeCompletes)
    BY <1>3, FrameInv DEF InterfaceStep, PipeCompletes, cvars
<1>4. CASE InterfaceStep(GotDataCheck)
    BY <1>4, FrameInv DEF InterfaceStep, GotDataCheck, cvars
<1>5. CASE InterfaceStep(GotDataDispatch)
    BY <1>5, FrameInv DEF InterfaceStep, GotDataDispatch, cvars
<1>6. ASSUME NEW c \in Clients, OpenConnection(c) PROVE DriverInv'
    <2>1. /\ phase = "running"
          /\ phase' = phase
          /\ \E superInit, ivarsAllocated, superStart, serviceRegistered \in BOOLEAN :
               IF UserClientInit(superInit, ivarsAllocated)
                  /\ UserClientStart_Impl(superStart, serviceRegistered)
               THEN /\ cphase' = [cphase EXCEPT ![c] = "started"]
                    /\ cprov' = [cprov EXCEPT ![c] = "interface"]
               ELSE /\ cphase' = [cphase EXCEPT ![c] = "failed"]
                    /\ cprov' = cprov
        BY <1>6 DEF OpenConnection, NewUserClient_Impl, vars
    <2>2. QED
        BY <2>1 DEF DriverInv, ClientPhases, Providers
<1>7. ASSUME NEW c \in Clients, CallMethod(c) PROVE DriverInv'
    <2>1. phase' = phase /\ cphase' = cphase /\ cprov' = cprov
        BY <1>7 DEF CallMethod, ExternalMethod, HandleLicensing, SetEnable, vars
    <2>2. QED
        BY <2>1, FrameInv
<1>8. ASSUME NEW c \in Clients, CloseConnection(c) PROVE DriverInv'
    <2>1. /\ phase' = phase
          /\ cphase' = [cphase EXCEPT ![c] = "stopped"]
          /\ cprov' = cprov
        BY <1>8 DEF CloseConnection, ClientStop_Impl, vars
    <2>2. QED
        BY <2>1 DEF DriverInv, ClientPhases
<1>9. ASSUME NEW c \in Clients, ReleaseClient(c) PROVE DriverInv'
    <2>1. /\ phase' = phase
          /\ cphase' = [cphase EXCEPT ![c] = "freed"]
          /\ cprov' = cprov
        BY <1>9 DEF ReleaseClient, ClientFree, vars
    <2>2. QED
        BY <2>1 DEF DriverInv, ClientPhases
<1>10. CASE Unplug
    BY <1>10, FrameInv DEF Unplug, vars, cvars
<1>11. CASE InterfaceStops
    <2>1. \A c \in Clients : cphase[c] # "started"
        BY <1>11 DEF InterfaceStops, ChildrenStopped, DriverInv
    <2>2. cphase' = cphase /\ cprov' = cprov
        BY <1>11 DEF InterfaceStops, InterfaceStep, cvars
    <2>3. QED
        BY <2>1, <2>2, NoClientInv
<1>12. CASE InterfaceStep(Finalize)
    <2>1. \A c \in Clients : cphase[c] # "started"
        BY <1>12 DEF InterfaceStep, Finalize, DriverInv
    <2>2. cphase' = cphase /\ cprov' = cprov
        BY <1>12 DEF InterfaceStep, cvars
    <2>3. QED
        BY <2>1, <2>2, NoClientInv
<1>13. CASE InterfaceStep(free)
    <2>1. \A c \in Clients : cphase[c] # "started"
        BY <1>13 DEF InterfaceStep, free, DriverInv
    <2>2. cphase' = cphase /\ cprov' = cprov
        BY <1>13 DEF InterfaceStep, cvars
    <2>3. QED
        BY <2>1, <2>2, NoClientInv
<1>14. CASE DeviceStops
    BY <1>14, FrameInv DEF DeviceStops, vars, cvars
<1>15. CASE DeviceReleased
    BY <1>15, FrameInv DEF DeviceReleased, vars, cvars
<1>16. CASE terminating /\ Ended /\ UNCHANGED allvars
    BY <1>16, FrameInv DEF allvars, vars, cvars
<1>17. CASE UNCHANGED allvars
    BY <1>17, FrameInv DEF allvars, vars, cvars
<1>18. QED
    BY <1>1, <1>2, <1>3, <1>4, <1>5, <1>6, <1>7, <1>8, <1>9, <1>10, <1>11,
       <1>12, <1>13, <1>14, <1>15, <1>16, <1>17 DEF DriverNext

(* The user client's unretained pointer (XboxOneUserClient.cpp:145), used *)
(* by HandleLicensing to call SetEnable, never points to a freed input    *)
(* interface while the client is started, whatever the number of          *)
(* connections: ClientPointerValid holds in every reachable state.         *)
THEOREM PointerNeverDangles == DriverSpec => []ClientPointerValid
<1>1. DriverInv => ClientPointerValid
    BY DEF DriverInv, ClientPointerValid
<1>2. QED
    BY InitDriverInv, NextDriverInv, <1>1, PTL DEF DriverSpec

-----------------------------------------------------------------------------
(* The steps of Start_Impl, as a set.                                      *)
Steps == {StartSteps[i] : i \in 1..8}

(* Each step has one position in StartSteps, and StepIndex finds it.       *)
LEMMA StepIndexFound ==
    ASSUME NEW s \in Steps
    PROVE  StepIndex(s) \in 1..8 /\ StartSteps[StepIndex(s)] = s
BY DEF Steps, StepIndex

(* RegisterService is the last step.                                       *)
LEMMA RegisterServiceLast == StepIndex("RegisterService") = 8
<1>1. \A i \in 1..8 : StartSteps[i] = "RegisterService" <=> i = 8
  BY DEF StartSteps
<1>2. QED
  BY <1>1 DEF StepIndex

(* A Start_Impl that gets as far as RegisterService and succeeds there    *)
(* passed every step: then each step succeeds and the call returns        *)
(* success.                                                                *)
LEMMA RegisteredMeansAllPassed ==
    ASSUME NEW o \in StartOutcomes, Succeeds(o, "RegisterService")
    PROVE  /\ \A s \in Steps : Succeeds(o, s)
           /\ StartReturn(o) = "success"
<1>1. \A i \in 1..8 : o[StartSteps[i]]
  <2>1. \A i \in 1..7 : o[StartSteps[i]]
    BY RegisterServiceLast DEF Succeeds, Reached
  <2>2. o[StartSteps[8]]
    BY DEF Succeeds, StartSteps
  <2>3. QED
    BY <2>1, <2>2
<1>2. ASSUME NEW s \in Steps PROVE Succeeds(o, s)
  <2>1. StepIndex(s) \in 1..8 /\ StartSteps[StepIndex(s)] = s
    BY StepIndexFound
  <2>2. QED
    BY <1>1, <2>1 DEF Succeeds, Reached
<1>3. FailedAt(o) = "none"
  BY <1>1 DEF FailedAt
<1>4. QED
  BY <1>2, <1>3 DEF StartReturn

(* The service is registered only by a Start_Impl that set the           *)
(* configuration, passed super::Start and returned success, and Stop and *)
(* free keep that record: RegisteredAfterSetup is itself inductive.       *)
LEMMA NextRegistered ==
    RegisteredAfterSetup /\ [DriverNext]_allvars => RegisteredAfterSetup'
<1> SUFFICES ASSUME RegisteredAfterSetup, [DriverNext]_allvars
             PROVE  RegisteredAfterSetup'
    OBVIOUS
<1>1. CASE DeviceStarts
  <2>1. PICK o \in StartOutcomes : DeviceStart_Impl(o)
    BY <1>1 DEF DeviceStarts
  <2>2. "SetConfiguration" \in Steps /\ "superStart" \in Steps
    BY DEF Steps, StartSteps
  <2>3. QED
    BY <2>1, <2>2, RegisteredMeansAllPassed DEF DeviceStart_Impl, RegisteredAfterSetup
<1>2. CASE DeviceStops \/ DeviceReleased
  BY <1>2 DEF DeviceStops, DeviceStop_Impl, DeviceReleased, DeviceFree, RegisteredAfterSetup
<1>3. CASE ~DeviceStarts /\ ~DeviceStops /\ ~DeviceReleased
  <2>1. UNCHANGED dvars
    BY <1>3 DEF DriverNext, allvars, InterfaceStarts, InterfaceStep, OpenConnection,
                CallMethod, CloseConnection, ReleaseClient, Unplug, InterfaceStops
  <2>2. QED
    BY <2>1 DEF dvars, RegisteredAfterSetup
<1>4. QED
  BY <1>1, <1>2, <1>3

(* The device driver registers its service (XboxOneDevice.cpp:150) only   *)
(* after it opened the device, set configuration 1 and passed             *)
(* IOService::Start, and only in a Start_Impl that returned success,      *)
(* however the calls before it fail and whatever the rest of the driver   *)
(* does.                                                                   *)
THEOREM RegistrationFollowsSetup == DriverSpec => []RegisteredAfterSetup
<1>1. DriverInit => RegisteredAfterSetup
  BY DEF DriverInit, DeviceInit, RegisteredAfterSetup
<1>2. QED
  BY <1>1, NextRegistered, PTL DEF DriverSpec


-----------------------------------------------------------------------------
(* Every step of the driver is a step of the input interface alone or     *)
(* leaves the interface's variables unchanged.  The one step of another   *)
(* component that reaches into the interface is HandleLicensing, which    *)
(* calls SetEnable from the user client's queue.                           *)
LEMMA DriverStepIsInterfaceStep == [DriverNext]_allvars => [Next]_vars
<1> SUFFICES ASSUME [DriverNext]_allvars PROVE [Next]_vars
    OBVIOUS
<1>1. CASE InterfaceStarts \/ InterfaceStops
  BY <1>1 DEF InterfaceStarts, InterfaceStops, InterfaceStep, Next
<1>2. CASE InterfaceStep(PipeCompletes) \/ InterfaceStep(GotDataCheck)
           \/ InterfaceStep(GotDataDispatch) \/ InterfaceStep(Finalize)
           \/ InterfaceStep(free)
  BY <1>2 DEF InterfaceStep, Next
<1>3. ASSUME NEW c \in Clients, CallMethod(c) PROVE [Next]_vars
  <2>1. PICK sel \in Selectors, scalar \in Scalars, countsOk \in BOOLEAN :
            ExternalMethod(c, sel, scalar, countsOk)
    BY <1>3 DEF CallMethod
  <2>2. SetEnable(scalar # 0) \/ UNCHANGED vars
    BY <2>1 DEF ExternalMethod, HandleLicensing
  <2>3. (scalar # 0) \in BOOLEAN
    OBVIOUS
  <2>4. QED
    BY <2>2, <2>3 DEF Next
<1>4. CASE ~InterfaceStarts /\ ~InterfaceStops
           /\ ~InterfaceStep(PipeCompletes) /\ ~InterfaceStep(GotDataCheck)
           /\ ~InterfaceStep(GotDataDispatch) /\ ~InterfaceStep(Finalize)
           /\ ~InterfaceStep(free)
           /\ ~\E c \in Clients : CallMethod(c)
  BY <1>4 DEF DriverNext, allvars, DeviceStarts, OpenConnection, NewUserClient_Impl,
              CloseConnection, ClientStop_Impl, ReleaseClient, ClientFree, Unplug,
              DeviceStops, DeviceReleased
<1>5. QED
  BY <1>1, <1>2, <1>3, <1>4

(* The input interface's guarantees hold inside the whole driver, with    *)
(* any number of connections calling HandleLicensing concurrently with    *)
(* the interface's queue: never two reads in flight, nothing in flight at *)
(* release, the counter law of SendInterruptData, and at most one report  *)
(* forwarded after SetEnable(false) (spec section 4.5's one-packet delay, *)
(* with SetEnable now coming from the user clients' queues).              *)
THEOREM InterfaceGuaranteesInDriver ==
    DriverSpec => /\ []SingleOutstandingReceive
                  /\ []QuiescentAtRelease
                  /\ []CounterTracksTransmissions
                  /\ []LateReportBound
<1>1. DriverSpec => Init /\ [][Next]_vars
  <2>1. DriverInit => Init
    BY DEF DriverInit
  <2>2. QED
    BY <2>1, DriverStepIsInterfaceStep, PTL DEF DriverSpec
<1>2. Init /\ [][Next]_vars => []IInv
  BY InitIInv, NextIInv, PTL
<1>3. Init /\ [][Next]_vars => []CounterLaw(out)
  <2>1. Init => CounterLaw(out)
    BY DEF Init, CounterLaw, CounterModulus
  <2>2. IInv /\ CounterLaw(out) /\ [Next]_vars => CounterLaw(out)'
    BY NextCounterLaw DEF IInv
  <2>3. QED
    BY <1>2, <2>1, <2>2, PTL
<1>4. Init /\ [][Next]_vars => []LateInv
  <2>1. Init => LateInv
    BY DEF Init, LateInv
  <2>2. IInv /\ LateInv /\ [Next]_vars => LateInv'
    BY NextLateInv DEF IInv
  <2>3. QED
    BY <1>2, <2>1, <2>2, PTL
<1>5. IInv => SingleOutstandingReceive /\ QuiescentAtRelease
  <2>1. IInv => SingleOutstandingReceive
    BY IInvSingle
  <2>2. IInv => QuiescentAtRelease
    <3>1. SUFFICES ASSUME IInv, phase = "freed"
                   PROVE  armed = 0 /\ queue = <<>> /\ ~got.busy
      BY DEF QuiescentAtRelease
    <3>2. armed = 0 /\ Len(queue) = 0 /\ ~got.busy /\ queue \in Seq(Statuses)
      BY <3>1 DEF IInv, Consistent, Quiet, TypeOK
    <3>3. QED
      BY <3>2, EmptySeq
  <2>3. QED
    BY <2>1, <2>2
<1>6. CounterLaw(out) => CounterTracksTransmissions
  BY DEF CounterLaw, CounterTracksTransmissions
<1>7. LateInv => LateReportBound
  BY DEF LateInv, LateReportBound
<1>8. QED
  BY <1>1, <1>2, <1>3, <1>4, <1>5, <1>6, <1>7, PTL

=============================================================================
