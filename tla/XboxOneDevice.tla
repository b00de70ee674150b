---------------------------- MODULE XboxOneDevice ----------------------------
(***************************************************************************)
(* The driver of the controller's USB device                               *)
(* (src/XboxControllerDriver/XboxOne/XboxOneDevice.cpp).  DriverKit        *)
(* matches it to the vendor-specific IOUSBHostDevice; its Start_Impl opens *)
(* the device, selects configuration 1 (which lets DriverKit match the     *)
(* interfaces), calls super::Start and registers the service.  Each call  *)
(* of Start_Impl may fail; the outcome of a Start is a function from the  *)
(* steps below to BOOLEAN, TRUE for the steps that succeed.  Start_Impl   *)
(* runs on the device's own queue in one piece, so it is one action.      *)
(***************************************************************************)
EXTENDS Naturals

(* The checks and calls of Start_Impl, in the order the code makes them.   *)
(* "configurations" is the check bNumConfigurations >= 1.                  *)
StartSteps == <<"cast", "deviceDescriptor", "configurations", "Open",
                "configurationDescriptor", "SetConfiguration", "superStart",
                "RegisterService">>

StartOutcomes == [{StartSteps[i] : i \in 1..8} -> BOOLEAN]

(* The steps that jump to Exit without setting ret, so Start_Impl returns *)
(* the kIOReturnSuccess it was initialised with (or Open's success).      *)
SilentFailures == {"deviceDescriptor", "configurations", "configurationDescriptor"}

DevicePhases == {"inited", "started", "failed", "stopped", "freed"}
Results == {"none", "success", "error"}

VARIABLES
    dphase,       \* where the device driver is in its DriverKit lifecycle
    dret,         \* the kern_return_t Start_Impl returned
    opened,       \* this driver holds the IOUSBHostDevice open
    configured,   \* configuration 1 is set active on the device
    superStarted, \* IOService::Start has succeeded
    registered    \* RegisterService has succeeded

dvars == <<dphase, dret, opened, configured, superStarted, registered>>

-----------------------------------------------------------------------------
(* The position of step s in StartSteps.                                   *)
StepIndex(s) == CHOOSE i \in 1..8 : StartSteps[i] = s

(* Mutant: the result of SetConfiguration is not checked, so the code goes *)
(* on to super::Start and RegisterService after a failed SetConfiguration. *)
ReachedIgnoringSetConfiguration(o, s) ==
    \A i \in 1..(StepIndex(s) - 1) :
        StartSteps[i] = "SetConfiguration" \/ o[StartSteps[i]]

(* Step s of a Start with outcome o is made: every step before it passed. *)
Reached(o, s) == \A i \in 1..(StepIndex(s) - 1) : o[StartSteps[i]]

(* Step s is made and succeeds.                                            *)
Succeeds(o, s) == Reached(o, s) /\ o[s]

(* The step at which Start_Impl goes to Exit, "none" when it gets through. *)
FailedAt(o) ==
    IF \A i \in 1..8 : o[StartSteps[i]]
    THEN "none"
    ELSE CHOOSE s \in {StartSteps[i] : i \in 1..8} : Reached(o, s) /\ ~o[s]

(* Start_Impl's return value: a failed call sets ret to its error (the    *)
(* cast sets kIOReturnError); the silent failures leave it a success.      *)
StartReturn(o) ==
    IF FailedAt(o) \in SilentFailures \cup {"none"} THEN "success" ELSE "error"

(* init(): super::init and the (empty) ivars.                              *)
DeviceInit ==
    /\ dphase = "inited"
    /\ dret = "none"
    /\ opened = FALSE
    /\ configured = FALSE
    /\ superStarted = FALSE
    /\ registered = FALSE

(* Start_Impl(provider), down to its Exit label, which frees the device   *)
(* and configuration descriptors it copied on every path.  DriverKit      *)
(* counts the device as started exactly when Start_Impl returns success.  *)
DeviceStart_Impl(o) ==
    /\ dphase = "inited"
    /\ opened' = Succeeds(o, "Open")
    /\ configured' = Succeeds(o, "SetConfiguration")
    /\ superStarted' = Succeeds(o, "superStart")
    /\ registered' = Succeeds(o, "RegisterService")
    /\ dret' = StartReturn(o)
    /\ dphase' = IF StartReturn(o) = "success" THEN "started" ELSE "failed"

(* Stop_Impl: super::Stop; its result is only logged.  The device is not  *)
(* closed here: DriverKit closes a provider its terminated client left    *)
(* open.                                                                   *)
DeviceStop_Impl ==
    /\ dphase = "started"
    /\ dphase' = "stopped"
    /\ opened' = FALSE
    /\ UNCHANGED <<dret, configured, superStarted, registered>>

(* free(): deletes ivars and calls super::free.  DriverKit releases the    *)
(* object after a failed Start or after Stop.                              *)
DeviceFree ==
    /\ dphase \in {"failed", "stopped"}
    /\ dphase' = "freed"
    /\ opened' = FALSE
    /\ UNCHANGED <<dret, configured, superStarted, registered>>

DeviceNext ==
    \/ \E o \in StartOutcomes : DeviceStart_Impl(o)
    \/ DeviceStop_Impl
    \/ DeviceFree
    \/ dphase = "freed" /\ UNCHANGED dvars

DeviceSpec == DeviceInit /\ [][DeviceNext]_dvars

-----------------------------------------------------------------------------
(* Every variable keeps its type.                                          *)
DeviceTypeOK ==
    /\ dphase \in DevicePhases
    /\ dret \in Results
    /\ opened \in BOOLEAN
    /\ configured \in BOOLEAN
    /\ superStarted \in BOOLEAN
    /\ registered \in BOOLEAN

(* The comment above RegisterService (XboxOneDevice.cpp:150) says the     *)
(* matched device must register itself or the OS treats Start as failed:  *)
(* a Start_Impl that returns success has registered the service.           *)
StartSuccessMeansRegistered == dret = "success" => registered

(* The service is registered only on a device that this driver opened and *)
(* whose configuration it set, after IOService::Start succeeded: every    *)
(* failed call of Start_Impl stops it before RegisterService.              *)
RegisteredAfterSetup ==
    registered => configured /\ superStarted /\ dret = "success"

=============================================================================
