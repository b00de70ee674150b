---------------------- MODULE XboxOneDriverRefinementProofs ----------------------
(***************************************************************************)
(* Proofs that the composed driver implements both abstract               *)
(* specifications, for any set of connections and any constants: the     *)
(* receive loop of XboxOneReceiveLoop (every driver step is an interface  *)
(* step, so the interface's refinement carries over), and the licensing   *)
(* contract of XboxOneLicensing under the mapping of                       *)
(* XboxOneDriverRefinement.                                                *)
(***************************************************************************)
EXTENDS XboxOneDriverRefinement, XboxOneDriverProofs, XboxOneRefinementProofs,
        TLAPS

(* The driver's behaviours are behaviours of the interface alone.          *)
LEMMA DriverIsInterface == DriverSpec => Init /\ [][Next]_vars
<1>1. DriverInit => Init
  BY DEF DriverInit
<1>2. QED
  BY <1>1, DriverStepIsInterfaceStep, PTL DEF DriverSpec

(* With user clients calling SetEnable from their own queues and the      *)
(* device and the unplug interleaved, the input interface still behaves   *)
(* as the abstract receive loop: one read outstanding or none, a read     *)
(* handled whole, at most one packet per handled read and two for the     *)
(* handshake, and release only with nothing outstanding.                   *)
THEOREM DriverRefinesReceiveLoop == DriverSpec => ImplementsReceiveLoop
<1>1. Init /\ [][Next]_vars => []RInv
  BY InitRInv, NextRInv, PTL
<1>2. QED
  BY <1>1, DriverIsInterface, InitRefines, NextRefines, PTL
     DEF ImplementsReceiveLoop, Loop!LoopSpec

-----------------------------------------------------------------------------
(* The strengthening the licensing refinement needs on top of DriverInv:  *)
(* a started client holds the interface pointer, so HandleLicensing       *)
(* always reaches SetEnable and never answers "off" for a call that did   *)
(* not set the gate.                                                       *)
LicInv ==
    /\ DriverInv
    /\ cptr \in [Clients -> BOOLEAN]
    /\ \A c \in Clients : cphase[c] = "started" => cptr[c]

LEMMA InitLicInv == DriverInit => LicInv
BY InitDriverInv DEF DriverInit, ClientsInit, LicInv

LEMMA NextLicInv == LicInv /\ [DriverNext]_allvars => LicInv'
<1> SUFFICES ASSUME LicInv, [DriverNext]_allvars PROVE LicInv'
    OBVIOUS
<1>1. DriverInv'
  BY NextDriverInv DEF LicInv
<1> DEFINE Held == /\ cptr \in [Clients -> BOOLEAN]
                  /\ \A c \in Clients : cphase[c] = "started" => cptr[c]
<1>2. Held /\ cphase \in [Clients -> ClientPhases]
  BY DEF LicInv, DriverInv
<1>3. ASSUME NEW c \in Clients, OpenConnection(c) PROVE Held'
  <2>1. \E superInit, ivarsAllocated, superStart, serviceRegistered \in BOOLEAN :
          IF UserClientInit(superInit, ivarsAllocated)
             /\ UserClientStart_Impl(superStart, serviceRegistered)
          THEN /\ cphase' = [cphase EXCEPT ![c] = "started"]
               /\ cptr' = [cptr EXCEPT ![c] = TRUE]
          ELSE /\ cphase' = [cphase EXCEPT ![c] = "failed"]
               /\ cptr' = cptr
    BY <1>3 DEF OpenConnection, NewUserClient_Impl, SetInputInterface
  <2>2. QED
    BY <2>1, <1>2
<1>4. ASSUME NEW c \in Clients, ReleaseClient(c) PROVE Held'
  <2>1. cphase' = [cphase EXCEPT ![c] = "freed"] /\ cptr' = [cptr EXCEPT ![c] = FALSE]
    BY <1>4 DEF ReleaseClient, ClientFree
  <2>2. QED
    BY <2>1, <1>2
<1>5. ASSUME NEW c \in Clients, CloseConnection(c) PROVE Held'
  <2>1. cphase' = [cphase EXCEPT ![c] = "stopped"] /\ cptr' = cptr
    BY <1>5 DEF CloseConnection, ClientStop_Impl
  <2>2. QED
    BY <2>1, <1>2
<1>6. ASSUME NEW c \in Clients, CallMethod(c) PROVE Held'
  <2>1. cphase' = cphase /\ cptr' = cptr
    BY <1>6 DEF CallMethod, ExternalMethod
  <2>2. QED
    BY <2>1, <1>2
<1>7. CASE \E c \in Clients : OpenConnection(c) \/ CallMethod(c)
                             \/ CloseConnection(c) \/ ReleaseClient(c)
  BY <1>1, <1>3, <1>4, <1>5, <1>6, <1>7 DEF LicInv
<1>8. CASE ~\E c \in Clients : OpenConnection(c) \/ CallMethod(c)
                              \/ CloseConnection(c) \/ ReleaseClient(c)
  <2>1. cphase' = cphase /\ cptr' = cptr
    BY <1>8 DEF DriverNext, allvars, cvars, DeviceStarts, InterfaceStarts, InterfaceStep,
                Unplug, InterfaceStops, DeviceStops, DeviceReleased
  <2>2. QED
    BY <1>1, <1>2, <2>1 DEF LicInv
<1>9. QED
  BY <1>7, <1>8


-----------------------------------------------------------------------------
(* The sessions the mapping reads off the clients' phases.                 *)
Sess == [c \in Clients |-> SessionOf(cphase[c])]

(* A step that keeps the stage, the sessions, the gate and the answers is *)
(* a stutter of the licensing contract.                                    *)
LEMMA LicStutter ==
    ASSUME StageOf(phase') = StageOf(phase), Sess' = Sess,
           enabled' = enabled, reply' = reply
    PROVE  UNCHANGED Lic!licvars
BY DEF Lic!licvars, Sess

(* Changing one client's phase changes its session alone.                  *)
LEMMA SessionUpdate ==
    ASSUME NEW c \in Clients, NEW p, cphase \in [Clients -> ClientPhases],
           cphase' = [cphase EXCEPT ![c] = p]
    PROVE  Sess' = [Sess EXCEPT ![c] = SessionOf(p)]
BY DEF Sess

(* The driver's initial state is the contract's.                           *)
LEMMA InitLic == DriverInit => Lic!LicInit
BY DEF DriverInit, Init, ClientsInit, Lic!LicInit, StageOf, SessionOf

(* Every driver step, from a state of LicInv, is a step of the contract    *)
(* or a stutter.                                                           *)
LEMMA NextLic == LicInv /\ [DriverNext]_allvars => [Lic!LicNext]_Lic!licvars
<1> SUFFICES ASSUME LicInv, [DriverNext]_allvars
             PROVE  [Lic!LicNext]_Lic!licvars
    OBVIOUS
<1> USE DEF LicInv, DriverInv
<1>1. CASE UNCHANGED <<phase, enabled, cphase, reply>>
  BY <1>1, LicStutter DEF Sess
<1>2. CASE InterfaceStarts
  <2>1. /\ phase = "inited" /\ phase' \in {"running", "failed"}
        /\ UNCHANGED <<enabled, cphase, reply>>
    BY <1>2 DEF InterfaceStarts, InterfaceStep, Start_Impl, StartFailed,
                handleStart, cvars
  <2>2. Lic!Serve
    BY <2>1 DEF Lic!Serve, StageOf, Sess
  <2>3. QED
    BY <2>2 DEF Lic!LicNext
<1>3. CASE InterfaceStep(Finalize) \/ InterfaceStep(free)
  <2>1. /\ phase \in {"stopping", "stopped", "failed"}
        /\ phase' \in {"stopped", "freed"}
        /\ UNCHANGED <<enabled, cphase, reply>>
    BY <1>3 DEF InterfaceStep, Finalize, free, SuperStop, cvars
  <2>2. QED
    BY <2>1, LicStutter DEF StageOf, Sess
<1>4. CASE InterfaceStops
  <2>1. /\ phase \in {"running", "failed"} /\ phase' \in {"stopping", "stopped"}
        /\ UNCHANGED <<enabled, cphase, reply>>
        /\ ChildrenStopped
    BY <1>4 DEF InterfaceStops, InterfaceStep, Stop_Impl, SuperStop, cvars
  <2>2. CASE phase = "running"
    <3>1. \A c \in Clients : Sess[c] # "open"
      BY <2>1 DEF ChildrenStopped, Sess, SessionOf
    <3>2. Lic!Retire
      BY <2>1, <2>2, <3>1 DEF Lic!Retire, StageOf, Sess
    <3>3. QED
      BY <3>2 DEF Lic!LicNext
  <2>3. CASE phase = "failed"
    BY <2>1, <2>3, LicStutter DEF StageOf, Sess
  <2>4. QED
    BY <2>1, <2>2, <2>3
<1>5. ASSUME NEW c \in Clients, OpenConnection(c)
      PROVE  [Lic!LicNext]_Lic!licvars
  <2>1. /\ phase = "running" /\ cphase[c] = "none"
        /\ UNCHANGED <<phase, enabled>>
        /\ \/ cphase' = [cphase EXCEPT ![c] = "started"] /\ reply' = reply
           \/ /\ cphase' = [cphase EXCEPT ![c] = "failed"]
              /\ reply' = [reply EXCEPT ![c] = "error"]
    BY <1>5 DEF OpenConnection, NewUserClient_Impl, vars
  <2>2. CASE cphase' = [cphase EXCEPT ![c] = "started"] /\ reply' = reply
    <3>1. Sess' = [Sess EXCEPT ![c] = "open"]
      BY <2>2, SessionUpdate DEF SessionOf
    <3>2. Lic!Open(c)
      BY <2>1, <2>2, <3>1 DEF Lic!Open, StageOf, Sess, SessionOf
    <3>3. QED
      BY <3>2 DEF Lic!LicNext
  <2>3. CASE /\ cphase' = [cphase EXCEPT ![c] = "failed"]
             /\ reply' = [reply EXCEPT ![c] = "error"]
    <3>1. Sess' = [Sess EXCEPT ![c] = "failed"]
      BY <2>3, SessionUpdate DEF SessionOf
    <3>2. Lic!Open(c)
      BY <2>1, <2>3, <3>1 DEF Lic!Open, StageOf, Sess, SessionOf
    <3>3. QED
      BY <3>2 DEF Lic!LicNext
  <2>4. QED
    BY <2>1, <2>2, <2>3
<1>6. ASSUME NEW c \in Clients, CallMethod(c)
      PROVE  [Lic!LicNext]_Lic!licvars
  <2>1. PICK sel \in Selectors, scalar \in Scalars, countsOk \in BOOLEAN :
            ExternalMethod(c, sel, scalar, countsOk)
    BY <1>6 DEF CallMethod
  <2>2. cphase[c] = "started" /\ cptr[c] /\ UNCHANGED <<phase, cphase>>
    BY <2>1 DEF ExternalMethod, HandleLicensing, SetEnable, vars
  <2>3. Sess[c] = "open"
    BY <2>2 DEF Sess, SessionOf
  <2>4. CASE Dispatched(sel, countsOk)
    <3>1. enabled' = (scalar # 0)
          /\ reply' = [reply EXCEPT ![c] = IF scalar # 0 THEN "on" ELSE "off"]
      BY <2>1, <2>2, <2>4 DEF ExternalMethod, HandleLicensing, SetEnable
    <3>2. Lic!Call(c, scalar)
      BY <2>2, <2>3, <3>1 DEF Lic!Call, StageOf, Sess
    <3>3. QED
      BY <3>2 DEF Lic!LicNext
  <2>5. CASE ~Dispatched(sel, countsOk)
    <3>1. enabled' = enabled /\ reply' = [reply EXCEPT ![c] = "error"]
      BY <2>1, <2>5 DEF ExternalMethod, vars
    <3>2. Lic!Call(c, scalar)
      BY <2>2, <2>3, <3>1 DEF Lic!Call, StageOf, Sess
    <3>3. QED
      BY <3>2 DEF Lic!LicNext
  <2>6. QED
    BY <2>4, <2>5
<1>7. ASSUME NEW c \in Clients, CloseConnection(c)
      PROVE  [Lic!LicNext]_Lic!licvars
  <2>1. /\ cphase[c] = "started" /\ cphase' = [cphase EXCEPT ![c] = "stopped"]
        /\ UNCHANGED <<phase, enabled, reply>>
    BY <1>7 DEF CloseConnection, ClientStop_Impl, vars
  <2>2. Sess' = [Sess EXCEPT ![c] = "closed"] /\ Sess[c] = "open"
    BY <2>1, SessionUpdate DEF Sess, SessionOf
  <2>3. Lic!Close(c)
    BY <2>1, <2>2 DEF Lic!Close, StageOf, Sess
  <2>4. QED
    BY <2>3 DEF Lic!LicNext
<1>8. ASSUME NEW c \in Clients, ReleaseClient(c)
      PROVE  [Lic!LicNext]_Lic!licvars
  <2>1. /\ cphase[c] = "stopped" /\ cphase' = [cphase EXCEPT ![c] = "freed"]
        /\ UNCHANGED <<phase, enabled, reply>>
    BY <1>8 DEF ReleaseClient, ClientFree, vars
  <2>2. Sess' = [Sess EXCEPT ![c] = "closed"] /\ Sess[c] = "closed"
    BY <2>1, SessionUpdate DEF Sess, SessionOf
  <2>3. Sess' = Sess
    BY <2>2 DEF Sess
  <2>4. QED
    BY <2>1, <2>3, LicStutter
<1>9. CASE ~InterfaceStarts /\ ~InterfaceStops
           /\ ~InterfaceStep(Finalize) /\ ~InterfaceStep(free)
           /\ ~\E c \in Clients : OpenConnection(c) \/ CallMethod(c)
                                 \/ CloseConnection(c) \/ ReleaseClient(c)
  <2>1. UNCHANGED <<phase, enabled, cphase, reply>>
    BY <1>9 DEF DriverNext, allvars, cvars, vars, DeviceStarts, InterfaceStep,
                PipeCompletes, GotDataCheck, GotDataDispatch, Unplug,
                DeviceStops, DeviceReleased
  <2>2. QED
    BY <2>1, <1>1
<1>10. QED
  BY <1>2, <1>3, <1>4, <1>5, <1>6, <1>7, <1>8, <1>9

(* The driver keeps the licensing contract it offers apps, for any set of *)
(* connections: opens only on a serving interface, an interface stop only *)
(* once every connection is closed, and an answer of HandleLicensing that *)
(* tells the app exactly the value SetEnable was given.                    *)
THEOREM DriverImplementsLicensing == DriverSpec => ImplementsLicensing
<1>1. DriverSpec => []LicInv
  BY InitLicInv, NextLicInv, PTL DEF DriverSpec
<1>2. QED
  BY <1>1, InitLic, NextLic, PTL DEF DriverSpec, ImplementsLicensing, Lic!LicSpec

=============================================================================
