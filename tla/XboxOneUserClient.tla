--------------------------- MODULE XboxOneUserClient ---------------------------
(***************************************************************************)
(* The user client (src/XboxControllerDriver/XboxOne/XboxOneUserClient.cpp) *)
(* and the input interface's NewUserClient_Impl that creates it.  An app   *)
(* such as the UserClientTester opens a connection to the input interface; *)
(* DriverKit calls NewUserClient_Impl on the interface's queue, which      *)
(* creates the client as a child of the interface (Create(this, ...)) and  *)
(* hands it a plain, unretained pointer back to the interface              *)
(* (SetInputInterface).  Each call the app makes runs ExternalMethod on   *)
(* the client's own queue; selector 1 ends in HandleLicensing, which calls *)
(* SetEnable on the interface through that pointer.  Several apps may hold *)
(* connections at once: Clients is the set of connections.                 *)
(***************************************************************************)
EXTENDS XboxOneInputInterface

CONSTANTS
    Clients,     \* connections apps may open
    Selectors,   \* selectors apps may pass to IOConnectCallScalarMethod
    Scalars      \* values apps may pass as scalarInput[0]

ASSUME ClientConstantsAssumption ==
    /\ Selectors \subseteq Nat
    /\ Scalars \subseteq Nat

(* ExternalMethodType of XboxOneUserClient.cpp.                            *)
ExternalMethodType_Unknown == 0
ExternalMethodType_Licensing == 1
kNumberOfExternalMethods == 2

ClientPhases == {"none", "started", "failed", "stopped", "freed"}
Providers == {"none", "interface", "other"}
Replies == {"none", "error", "on", "off"}

VARIABLES
    cphase,   \* cphase[c]: where connection c's user client is in its life
    cptr,     \* cptr[c]: ivars->inputInterface != nullptr
    cprov,    \* cprov[c]: the provider the client was created under
    reply     \* reply[c]: the outcome of c's last call, as the app sees it

cvars == <<cphase, cptr, cprov, reply>>

-----------------------------------------------------------------------------
(* The user client's init(): super::init, then the ivars allocation; it   *)
(* returns false if either fails.                                          *)
UserClientInit(superInit, ivarsAllocated) == superInit /\ ivarsAllocated

(* The user client's Start_Impl: super::Start, then RegisterService; it    *)
(* returns the first error.                                                *)
UserClientStart_Impl(superStart, serviceRegistered) == superStart /\ serviceRegistered

(* SetInputInterface(interface): ivars->inputInterface = OSDynamicCast(     *)
(* XboxOneInputInterface, interface), which for the interface's own       *)
(* `this' is never null.                                                   *)
SetInputInterface(c) == cptr' = [cptr EXCEPT ![c] = TRUE]

(* Mutant: the client is created under a provider other than the input    *)
(* interface, so its life is not tied to the interface's.                  *)
NewUserClient_ImplOtherProvider(c) ==
    /\ phase = "running"
    /\ ~got.busy
    /\ cphase[c] = "none"
    /\ \E superInit, ivarsAllocated, superStart, serviceRegistered \in BOOLEAN :
          IF UserClientInit(superInit, ivarsAllocated)
             /\ UserClientStart_Impl(superStart, serviceRegistered)
          THEN /\ cphase' = [cphase EXCEPT ![c] = "started"]
               /\ cprov' = [cprov EXCEPT ![c] = "other"]
               /\ SetInputInterface(c)
               /\ reply' = reply
          ELSE /\ cphase' = [cphase EXCEPT ![c] = "failed"]
               /\ reply' = [reply EXCEPT ![c] = "error"]
               /\ UNCHANGED <<cptr, cprov>>
    /\ UNCHANGED vars

(* NewUserClient_Impl, on the interface's queue: Create(this,             *)
(* "UserClientProperties", &client) makes the client a child of the       *)
(* interface and runs its init and Start_Impl; if either fails, Create    *)
(* fails and so does the app's open.  Otherwise the client, cast to       *)
(* XboxOneUserClient (the class the properties name), is given the        *)
(* interface by SetInputInterface.                                         *)
NewUserClient_Impl(c) ==
    /\ phase = "running"
    /\ ~got.busy
    /\ cphase[c] = "none"
    /\ \E superInit, ivarsAllocated, superStart, serviceRegistered \in BOOLEAN :
          IF UserClientInit(superInit, ivarsAllocated)
             /\ UserClientStart_Impl(superStart, serviceRegistered)
          THEN /\ cphase' = [cphase EXCEPT ![c] = "started"]
               /\ cprov' = [cprov EXCEPT ![c] = "interface"]
               /\ SetInputInterface(c)
               /\ reply' = reply
          ELSE /\ cphase' = [cphase EXCEPT ![c] = "failed"]
               /\ reply' = [reply EXCEPT ![c] = "error"]
               /\ UNCHANGED <<cptr, cprov>>
    /\ UNCHANGED vars

(* ExternalMethod's dispatch: only 0 < selector < kNumberOfExternalMethods *)
(* gets an entry of externalMethodChecks; super::ExternalMethod then checks *)
(* the app's argument counts against it (one scalar in, one out).          *)
Dispatched(sel, countsOk) ==
    /\ sel > ExternalMethodType_Unknown
    /\ sel < kNumberOfExternalMethods
    /\ countsOk

(* Mutant: the scalar is compared with 1 instead of converted to bool, so  *)
(* any other non-zero value disables the gate.                             *)
HandleLicensingEqualsOne(c, scalar) ==
    IF cptr[c]
    THEN /\ SetEnable(scalar = 1)
         /\ reply' = [reply EXCEPT ![c] = IF scalar # 0 THEN "on" ELSE "off"]
    ELSE /\ reply' = [reply EXCEPT ![c] = "off"]
         /\ UNCHANGED vars

(* HandleLicensing: enable = (bool)scalarInput[0]; with the interface     *)
(* pointer set it calls SetEnable(enable) and answers enable, otherwise it *)
(* answers false.  It returns success either way.                          *)
HandleLicensing(c, scalar) ==
    IF cptr[c]
    THEN /\ SetEnable(scalar # 0)
         /\ reply' = [reply EXCEPT ![c] = IF scalar # 0 THEN "on" ELSE "off"]
    ELSE /\ reply' = [reply EXCEPT ![c] = "off"]
         /\ UNCHANGED vars

(* ExternalMethod(selector, ...) on the client's queue.  Selector 0 returns *)
(* kIOReturnNotFound; any other selector without an entry, or wrong       *)
(* counts, fail in super::ExternalMethod.  A dispatched call runs         *)
(* StaticHandleLicensing with target = this (never null), and so          *)
(* HandleLicensing.                                                        *)
ExternalMethod(c, sel, scalar, countsOk) ==
    /\ cphase[c] = "started"
    /\ IF Dispatched(sel, countsOk)
       THEN HandleLicensing(c, scalar)
       ELSE /\ reply' = [reply EXCEPT ![c] = "error"]
            /\ UNCHANGED vars
    /\ UNCHANGED <<cphase, cptr, cprov>>

(* Mutant: Stop_Impl returns without calling super::Stop, so DriverKit     *)
(* never sees the client's stop finish.                                    *)
ClientStop_ImplSkipsSuper(c) ==
    /\ cphase[c] = "started"
    /\ UNCHANGED <<cphase, cptr, cprov, reply>>
    /\ UNCHANGED vars

(* The client's Stop_Impl, when the app closes the connection or the      *)
(* provider terminates: super::Stop, whose result is only logged.          *)
ClientStop_Impl(c) ==
    /\ cphase[c] = "started"
    /\ cphase' = [cphase EXCEPT ![c] = "stopped"]
    /\ UNCHANGED <<cptr, cprov, reply>>
    /\ UNCHANGED vars

(* The client's free(): deletes ivars (and with it the pointer).           *)
ClientFree(c) ==
    /\ cphase[c] = "stopped"
    /\ cphase' = [cphase EXCEPT ![c] = "freed"]
    /\ cptr' = [cptr EXCEPT ![c] = FALSE]
    /\ UNCHANGED <<cprov, reply>>
    /\ UNCHANGED vars

ClientsInit ==
    /\ cphase = [c \in Clients |-> "none"]
    /\ cptr = [c \in Clients |-> FALSE]
    /\ cprov = [c \in Clients |-> "none"]
    /\ reply = [c \in Clients |-> "none"]

-----------------------------------------------------------------------------
(* Every client variable keeps its type.                                   *)
ClientTypeOK ==
    /\ cphase \in [Clients -> ClientPhases]
    /\ cptr \in [Clients -> BOOLEAN]
    /\ cprov \in [Clients -> Providers]
    /\ reply \in [Clients -> Replies]

=============================================================================
