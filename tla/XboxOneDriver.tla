----------------------------- MODULE XboxOneDriver -----------------------------
(***************************************************************************)
(* The driver as a whole: the device driver (XboxOneDevice), the input     *)
(* interface (XboxOneInputInterface) and the user clients apps open on it *)
(* (XboxOneUserClient), composed under DriverKit's rules:                  *)
(*  - the interface is matched, and started, only once the device driver  *)
(*    has set configuration 1 active;                                      *)
(*  - nothing is matched or opened once the controller is unplugged       *)
(*    (`terminating');                                                      *)
(*  - termination runs from the leaves up: the interface's Stop_Impl is    *)
(*    called only once the user clients created under it have stopped.     *)
(* Each component keeps its own queue; the steps of different components  *)
(* interleave freely.                                                      *)
(***************************************************************************)
EXTENDS XboxOneUserClient, XboxOneDevice

VARIABLE terminating   \* the controller has been unplugged

allvars == <<vars, cvars, dvars, terminating>>

DriverInit == Init /\ ClientsInit /\ DeviceInit /\ terminating = FALSE

(* The interface's own steps, leaving the other components alone.          *)
InterfaceStep(A) == A /\ UNCHANGED <<cvars, dvars, terminating>>

(* The user clients created under the interface have all stopped.          *)
ChildrenStopped ==
    \A c \in Clients : ~(cphase[c] = "started" /\ cprov[c] = "interface")

DeviceStarts ==
    /\ ~terminating
    /\ \E o \in StartOutcomes : DeviceStart_Impl(o)
    /\ UNCHANGED <<vars, cvars, terminating>>

InterfaceStarts ==
    /\ configured
    /\ ~terminating
    /\ InterfaceStep(Start_Impl)

OpenConnection(c) ==
    /\ ~terminating
    /\ NewUserClient_Impl(c)
    /\ UNCHANGED <<dvars, terminating>>

CallMethod(c) ==
    /\ \E sel \in Selectors, scalar \in Scalars, countsOk \in BOOLEAN :
          ExternalMethod(c, sel, scalar, countsOk)
    /\ UNCHANGED <<dvars, terminating>>

CloseConnection(c) == ClientStop_Impl(c) /\ UNCHANGED <<dvars, terminating>>

ReleaseClient(c) == ClientFree(c) /\ UNCHANGED <<dvars, terminating>>

Unplug ==
    /\ ~terminating
    /\ terminating' = TRUE
    /\ UNCHANGED <<vars, cvars, dvars>>

InterfaceStops ==
    /\ terminating
    /\ ChildrenStopped
    /\ InterfaceStep(Stop_Impl)

DeviceStops ==
    /\ terminating
    /\ DeviceStop_Impl
    /\ UNCHANGED <<vars, cvars, terminating>>

DeviceReleased == DeviceFree /\ UNCHANGED <<vars, cvars, terminating>>

(* Every component has ended, or never came to exist.                      *)
Ended ==
    /\ phase \in {"inited", "freed"}
    /\ dphase \in {"inited", "freed"}
    /\ \A c \in Clients : cphase[c] \in {"none", "failed", "freed"}

DriverNext ==
    \/ DeviceStarts
    \/ InterfaceStarts
    \/ InterfaceStep(PipeCompletes)
    \/ InterfaceStep(GotDataCheck)
    \/ InterfaceStep(GotDataDispatch)
    \/ \E c \in Clients : OpenConnection(c) \/ CallMethod(c)
                          \/ CloseConnection(c) \/ ReleaseClient(c)
    \/ Unplug
    \/ InterfaceStops
    \/ InterfaceStep(Finalize)
    \/ InterfaceStep(free)
    \/ DeviceStops
    \/ DeviceReleased
    \/ terminating /\ Ended /\ UNCHANGED allvars

(* The interface's queue runs what is queued on it; once the controller    *)
(* is unplugged DriverKit stops the clients, the interface and the device *)
(* and releases them.  The interface's Stop_Impl is queued on its serial  *)
(* queue and runs as soon as the GotData in progress returns, however     *)
(* often completions keep arriving: it is strongly fair.  Apps, the        *)
(* controller and the unplug are not fair.                                 *)
DriverFairness ==
    /\ WF_allvars(InterfaceStep(GotDataCheck))
    /\ WF_allvars(InterfaceStep(GotDataDispatch))
    /\ WF_allvars(InterfaceStep(Finalize))
    /\ WF_allvars(InterfaceStep(free))
    /\ SF_allvars(InterfaceStops)
    /\ \A c \in Clients : /\ WF_allvars(terminating /\ CloseConnection(c))
                          /\ WF_allvars(ReleaseClient(c))
    /\ WF_allvars(DeviceStops)
    /\ WF_allvars(DeviceReleased)

DriverSpec == DriverInit /\ [][DriverNext]_allvars /\ DriverFairness

-----------------------------------------------------------------------------
(* The user client's pointer to the interface is not retained (line 145), *)
(* and HandleLicensing calls SetEnable through it: whenever a started      *)
(* client holds the pointer, the interface it points to has not been       *)
(* freed.  This rests on Create(this, ...) making the client a child of   *)
(* the interface, which DriverKit stops before the interface.              *)
ClientPointerValid ==
    \A c \in Clients : cphase[c] = "started" /\ cptr[c] => phase # "freed"

(* Once the controller is unplugged every component reaches its end:      *)
(* the clients' Stop_Impl hand over to the interface's, whose cancel      *)
(* handler completes the stop, and every object is freed.                  *)
TerminationCompletes == terminating ~> Ended

=============================================================================
