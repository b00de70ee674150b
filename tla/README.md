# Formal models of the Xbox One DriverKit driver

This directory holds TLA+ models of the driver in `src/XboxControllerDriver`,
TLC configurations that model-check them, and TLAPS proofs. `PROJECT.json`
lists the components, the runs, the mutants that show each property can
fail, the map from definitions to source lines, the findings and the hazards.

## The system

The driver is made of several parts:

* **XboxOneDevice** (`XboxOneDevice.cpp`) matches the USB device. It opens
  the device, selects configuration 1 and registers itself. Once that is
  done, DriverKit matches the interfaces.
* **XboxOneInputInterface** (`XboxOneInputInterface.cpp`) is the core. It is
  an `IOUserHIDDevice` bound to the controller's interface.
  * `Start_Impl` opens the interface and calls `super::Start`, which in turn
    calls `handleStart`.
  * `handleStart` reads the descriptors, finds the two interrupt pipes and
    sets them up. Setup fails on a zero interval or a zero max packet size.
  * It then creates the `gotDataAction` callback, sends the INIT and
    SWAP_TO_WIRED handshake packets, and arms the first `AsyncIO` read.
  * Each completion runs `GotData_Impl`. It skips on an error status or when
    `enabled` is false. Otherwise it tries the button report, then the guide
    report; a guide report of version 0x30 is answered with the guide
    response.
  * `GotData_Impl` always re-arms at its `Exit` label.
  * `SendInterruptData` refuses a packet longer than the OUT buffer.
    Otherwise it stamps and post-increments the `uint8_t outCounter` and
    calls `IO`.
  * `Stop_Impl` takes one of two paths:
    * If no action exists, it stops at once.
    * Otherwise it calls `Cancel(finalize)`, and the `finalize` block calls
      `super::Stop` later.
  * `free` releases the pipes, the buffers and the action.
* **XboxOneUserClient** (`XboxOneUserClient.cpp`) exposes one scalar method,
  selector 1. That method calls `SetEnable` on the input interface.
* **XboxOneInterface** is an unfinished generic interface class.
  **UserClientTester** is a command-line tool that calls the user client.

The input interface's `Start_Impl`, `Stop_Impl`, `GotData_Impl` and the
cancel handler all run on the object's serial dispatch queue, so they never
interleave. `SetEnable` comes from the user client's queue. It can therefore
run in the middle of `GotData_Impl`.

## Modules

| Module | Models |
| --- | --- |
| `XboxOneInputInterface` | The input interface: state, actions, properties |
| `MCXboxOneInputInterface` | Model values for TLC: a small set of inbound packet headers, and the max packet sizes 0, 8 and 64 |
| `XboxOneInputInterfaceProofs` | TLAPS proofs of the type invariant, the single-read bound, quiescence at release, the counter law, the late-report bound and the armed receive loop |
| `XboxOneReceiveLoop` | The abstract receive loop: what the interface promises, without its machinery |
| `XboxOneInputInterfaceRefinement` | The refinement mapping from the interface to the abstract loop |
| `XboxOneRefinementProofs` | TLAPS proof that the interface implements the abstract loop |
| `XboxOneUserClient` | The user client, and the interface's `NewUserClient_Impl` that creates it |
| `XboxOneDevice` | The USB device driver's lifecycle |
| `XboxOneDriver` | The three components composed under DriverKit's matching and termination order |
| `XboxOneLicensing` | The licensing contract apps see: sessions, the licensing call, the report gate, the interface's stop |
| `XboxOneDriverRefinement` | The refinement mapping from the composed driver to the licensing contract |
| `MCXboxOneDriver` | Two connections, two packets, OUT packet sizes 0 and 64 |
| `XboxOneDriverRefinementProofs` | TLAPS proofs that the driver implements the receive loop and the licensing contract |
| `XboxOneDriverProofs` | TLAPS proofs about the composition: pointers never dangle, clients stop first, registration follows setup, and the interface's guarantees hold inside the driver |
| `XboxOneDeviceDescription` | `CopyStringAtIndex` and `newDeviceDescription` as operators, with a one-call harness for `CopyStringAtIndex` |
| `MCXboxOneDeviceDescription` | Bounded sets of string descriptors |

### XboxOneInputInterface

State:

| Variable | Code |
| --- | --- |
| `phase` | the DriverKit lifecycle |
| `enabled` | `ivars->enabled` |
| `action` | `ivars->gotDataAction`: none, live or cancelled |
| `outLen` | `outPipe.memory.length` |
| `armed` | outstanding `AsyncIO` requests |
| `queue` | completions queued for `GotData` |
| `buffer` | the header in the IN buffer |
| `got` | a `GotData` in progress, and the status and `enabled` it read |
| `out` | `outCounter`, plus a count and the last packet handed to `IO` |

Two history variables record what was forwarded to `handleReport`:
`forwarded` and `late`.

Actions:

* `Start_Impl` covers the failure paths (`StartFailed`) and `handleStart`.
  * Every failure before `CreateActionGotData` is one abstract failure.
  * The zero-max-packet-size failure is the guard `len # 0`.
  * The two handshake sends and the first arm are part of the same step,
    as in the code.
  * Each `AsyncIO` may succeed or fail (`AsyncIOResults`).
* `PipeCompletes` is the environment. The IN pipe completes the read and
  DriverKit queues the completion if the action is live. The count of
  transmissions is bounded by `MaxTx`.
* `GotData_Impl` is two steps. `GotDataCheck` takes the completion and reads
  `enabled`. `GotDataDispatch` does the matching, `handleReport` (which may
  fail), the guide response and the re-arm. The split is needed because
  `SetEnable` can run between the two.
* `SetEnable(b)` is guarded by the `ivars != nullptr` check, which the model
  takes as "not yet freed".
* `Stop_Impl`, `Finalize` (the `finalize` block) and `free`.

`super::Stop` (`SuperStop`) closes the interface. That aborts the outstanding
read, and the aborted completion is queued only while the action is still
live.

### XboxOneReceiveLoop and the refinement

`XboxOneReceiveLoop` states what the interface promises with three
variables:

* `lphase`, the lifecycle;
* `outstanding`, 1 while a read is outstanding;
* `sends`, the number of packets handed to the OUT pipe.

Its actions are:

* `Begin`: Start sends at most two packets and arms a read, or fails.
* `Handle`: a read is handled whole, sending at most one packet.
* `Halt`: Stop, at once or by a cancel.
* `Drop`: while stopping, a completion is dropped.
* `Finish`: the cancel handler completes the stop.
* `Release`: the object is freed, only with nothing outstanding.

`XboxOneInputInterfaceRefinement` maps the interface onto it:

* `lphase` is `phase`;
* `outstanding` is `ReadOutstanding`, which is 1 while a read is armed,
  queued or handled;
* `sends` is `out.tx`.

`ImplementsReceiveLoop == Loop!LoopSpec` is checked as a property of
`Spec`. `PipeCompletes` and `GotDataCheck` are stutters of the abstract
loop, since the read only moves from the pipe to the queue to `GotData`.

### XboxOneUserClient

* `NewUserClient_Impl(c)` runs on the interface's queue, so its guard
  includes `~got.busy`.
  * `Create(this, ...)` runs the client's `init` and `Start_Impl`, each of
    which may fail.
  * On success, the client is a child of the interface (`cprov`), and
    `SetInputInterface` stores the unretained pointer (`cptr`).
* `ExternalMethod` dispatches only `0 < selector < kNumberOfExternalMethods`
  with the right counts. `HandleLicensing` calls `SetEnable` through the
  pointer, or answers false without one.
* `ClientStop_Impl` and `ClientFree`: `free` deletes the ivars and, with
  them, the pointer.

### XboxOneDevice

`Start_Impl` is one action. Its argument is the outcome of each of its
eight checks and calls, in code order (`StartSteps`).

* `Reached` and `FailedAt` give the first failing step.
* `StartReturn` gives the value returned. The three failures that jump to
  `Exit` without setting `ret` (`SilentFailures`) return success.
* `DeviceStop_Impl` and `DeviceFree` complete the lifecycle.

### XboxOneDriver

The composition follows DriverKit's rules:

* The interface starts only once the device has set its configuration.
* Nothing starts or opens after the unplug (`terminating`).
* The interface's `Stop_Impl` runs only once the clients created under it
  have stopped (`ChildrenStopped`), because termination goes leaf-first.
* The steps of the three components interleave freely.
* Apps open and close connections, and call any selector with any scalar.
  The tester's single open and selector-1 call are among these steps.

### XboxOneLicensing and the driver's refinement

`XboxOneLicensing` states what an app can rely on, without user clients,
pointers or queues:

* `Serve`: the interface's Start makes it serve, or fails for good.
* `Open(c)`: a connection opens only while the interface serves, and the
  open may fail with an error answer.
* `Call(c, s)`: on an open connection, a call fails and leaves the gate
  alone, or it sets the gate to `s # 0` and answers "on" or "off" to match.
* `Close(c)`: the connection closes.
* `Retire`: the interface stops serving only once no connection is open.

`XboxOneDriverRefinement` maps the driver onto the contract:

* `stage` is read off the interface's phase. `inited` is "before",
  `running` is "serving", and everything else is "over".
* `session[c]` is read off the client's phase. A stopped or freed client is
  a closed connection.
* `gate` is `enabled`, and `answer` is `reply`.

Every interface step other than Start and Stop, every device step, the
unplug and a client's `free` are stutters of the contract.

### XboxOneDeviceDescription

* `CopyStringAtIndex` is an operator over a descriptor record that carries
  `bLength` and the units that follow the header in memory, past `bLength`
  included.
  * Its `for` loop is the recursive function `CopyLoop`.
  * The length keeps its `uint8_t` width.
  * Each unit is narrowed with `% 256`.
* `SpecString` is the reference from spec §4.4, used only by the property.
* `newDeviceDescription` covers every early exit that returns `nullptr`,
  the fixed keys, and the optional location ID, string fields and BuiltIn
  key.
* The harness makes one call of `CopyStringAtIndex` on an input drawn from
  a bounded set, and keeps the result.
* `newDeviceDescription` is modelled, but no property checks it. It runs
  sequentially, and it sets a key only when its own null check allows. So
  a property of it would only restate those checks, and its string values
  are what copy_string checks.

## Runs

| Run | cfg | Expect | What it shows |
| --- | --- | --- | --- |
| input_interface | `MCXboxOneInputInterface.cfg` | pass | See the list below |
| receive_loop | `MCReceiveLoop.cfg` | pass | With `AsyncIO` never failing, exactly one read is in flight whenever the interface runs (`ReceiveAlwaysArmed`) |
| receive_loop_arm_fails | `MCReceiveLoopArmFails.cfg` | violation | A failed `AsyncIO` leaves the running interface with nothing outstanding, for good. TLC's trace fails the first arm in `handleStart` (line 401). The re-arm at line 854 ignores the same result |
| guide_forwarded | `MCGuideForwarded.cfg` | violation | A guide report reaches `handleReport`, though spec §6 says only button reports are forwarded |
| guide_response_length | `MCGuideResponseLength.cfg` | violation | The guide response goes out with 9 bytes, not the 13 of spec §8 |
| receive_loop_refinement | `MCReceiveLoopRefinement.cfg` | pass | The interface implements the abstract receive loop (`ImplementsReceiveLoop`) |
| driver | `MCXboxOneDriver.cfg` | pass | In the composed driver, a started client's pointer never refers to a freed interface (`ClientPointerValid`). The service is registered only after setup succeeds (`RegisteredAfterSetup`). After an unplug, every component ends (`TerminationCompletes`). The driver implements the licensing contract (`ImplementsLicensing`) |
| device_start_silent_failure | `MCDeviceStartSilentFailure.cfg` | violation | `Start_Impl` returns success without registering the service |
| copy_string | `MCCopyString.cfg` | pass | `CopyStringAtIndex` decodes every bounded descriptor as spec §4.4 says (`CopyStringMatchesSpec`) |

The input_interface run checks these properties:

* `TypeOK`.
* `SingleOutstandingReceive`: there are never two reads in flight, so the
  single IN buffer is never overwritten while `GotData` reads it.
* `QuiescentAtRelease`: when `free` runs, no read is armed, queued or
  running.
* `CounterTracksTransmissions`: the counter equals the number of packets
  handed to `IO`, modulo 256. Each stamp is the previous count, and refused
  packets do not count.
* `LateReportBound`: after `SetEnable(false)`, at most one report is still
  forwarded. This is the spec's "one-packet-delayed effect".
* `StopCompletes` (liveness): a cancel that has started always reaches
  `free`.

Each property has a mutant in `PROJECT.json`: the plausible code bug that
breaks it, such as a counter stamped before the size check, a missing
enable check, a double re-arm, a stop without cancel, or a finalize that
waits for the read.

### Bounds

* `MaxTx = 260` in the passing runs. That is more than 256 sends, so the
  8-bit counter wraps.
* Max packet sizes are 0, 8 and 64:
  * 0 fails setup.
  * 8 refuses the 9-byte guide response but sends the 5-byte handshake.
  * 64 sends everything.
* The packets are:
  * a matching button report (type 0x20, size 14);
  * a button report of the wrong size, 16 (the size the spec's scenario
    names);
  * guide reports of version 0x30 and of version 0x31;
  * an unknown packet type.

The runs cover several hundred thousand states, up to depth 783.

The other runs use these bounds:

* **receive_loop_refinement** uses `MaxTx = 20`. That is enough for many
  rounds of the loop, and for every stop path from every loop state.
* **driver** uses these bounds:
  * two connections, so one client can close while the other is still
    started;
  * selectors 0, 1 and 2: unknown, licensing, and past the table;
  * scalars 0, 1 and 2, where 2 is true as a `bool`;
  * a button report and an answered guide report;
  * OUT packet sizes 0 and 64;
  * `MaxTx = 3`.

  Every interleaving of opens, calls, closes, the unplug and the three
  stops is reached. The run explores about 200,000 states.
* **copy_string** covers these descriptors:
  * every `bLength` from 0 to 8, odd ones included;
  * four units of memory, so the last unit always lies past `bLength`;
  * NUL, 'A', U+0100 (a non-NUL unit whose low byte is 0) and U+0141 as
    the units;
  * a null copy.

  It uses the indexes 0 and 1. That gives every loop exit: the first NUL,
  the declared length, and a length under the header.

### Fairness

The dispatch queue runs what is queued on it, so `GotDataCheck` and
`GotDataDispatch` are weakly fair. DriverKit runs the cancel handler once
the cancel completes (`Finalize`) and frees a stopped object (`free`), so
those are weakly fair too. The controller (`PipeCompletes`), the user client
and the termination request are not fair: none of them is obliged to act.

In the composed driver (`DriverFairness`), the three queue actions and
`free` stay weakly fair. Once the controller is unplugged, DriverKit stops
and frees the clients, the interface and the device, so those steps are
fair.

The interface's `Stop_Impl` (`InterfaceStops`) is **strongly** fair. The
termination request is queued on the interface's serial queue and runs as
soon as the `GotData` in progress returns. Weak fairness would not be
enough: a controller that keeps completing reads keeps `GotData` busy, and
that disables the stop again and again. Under weak fairness TLC finds that
counterexample. A FIFO queue never postpones the stop forever.

Apps, the controller and the unplug are not fair.

## Proofs

`XboxOneInputInterfaceProofs` proves three theorems for all constants that
satisfy `ConstantsAssumption`:

* `TypeCorrect`: `Spec => []TypeOK`.
* `SingleOutstanding`: `Spec => []SingleOutstandingReceive`.
* `Released`: `Spec => []QuiescentAtRelease`.

All three rest on the inductive invariant `IInv`, made of three parts:

* `TypeOK`.
* `OneOrNone`: the sum of reads in flight, spelt out as its three
  possible shapes.
* `Consistent`:
  * nothing is in flight before Start, after a failed Start, once stopped,
    and once freed;
  * while stopping, the action is cancelled, the queue is empty and no
    `GotData` runs, though one read may still be armed;
  * nothing is in flight while there is no action.

`Consistent` is needed for two reasons. First, Start arms a read.
Second, `super::Stop` appends the aborted read to the queue of a
live action; the invariant shows that this never adds a second read.

`XboxOneRefinementProofs` proves `RefinesReceiveLoop`:
`Spec => ImplementsReceiveLoop`, that is, `Spec => Loop!LoopSpec`.

* Initial states map to `LoopInit`.
* Under `RInv` in both states, every step maps to an abstract step or a
  stutter (`NextRefines`, one case per action). For example:
  * `GotDataDispatch` is `Handle`, because `IInv` shows that `GotData` runs
    only while the interface is running.
  * A completion of a cancelled action is `Drop`.
  * `free` is `Release`, because nothing is outstanding in `stopped` or
    `failed`.
* `RInv` is `IInv` plus `CancelledAfterStop`: a cancelled action belongs
  to an interface that is stopping or past it. That conjunct is inductive
  by itself. It is needed to show that a completion arriving after the
  cancel comes while stopping.
* The lemmas `SendTxGrowth` and `HandshakeTxGrowth` bound the sends: one
  by `SendInterruptData`, and two by the handshake.

`XboxOneDriverProofs` proves `PointerNeverDangles`:
`DriverSpec => []ClientPointerValid`, for any set of connections. Its
inductive invariant `DriverInv` says two things:

* every started client was created under the interface;
* while one is started, the interface is running.

The property alone is not inductive. It says nothing of a client that is
started without the pointer yet, or of an interface that is stopping with
a client still started. `DriverInv` holds for two reasons:

* `NewUserClient_Impl` runs only while the interface runs.
* `InterfaceStops` waits for `ChildrenStopped`, so no client is started
  when the interface leaves `running`.

`NextDriverInv` has one step per action of the composition.

The lemma `InFlightShapes` relates the arithmetic bound to the three shapes,
and `SendInterruptDataType` types a send. `NextIInv` has one step per action.

### Proofs added for the remaining invariants

`XboxOneInputInterfaceProofs` also proves three more theorems. Each rests on
its own inductive invariant, checked by TLC as an invariant of a run before
it was proved.

* `CounterCorrect`: `Spec => []CounterTracksTransmissions`.
  * The invariant is `CounterLaw(out)`. It keeps the property's two
    conjuncts, the count modulo 256 and the stamp of the last packet.
  * The lemma `SendKeepsCounterLaw` is the whole argument. A refused send
    changes nothing. An accepted one stamps `tx % 256` and sets the counter
    to `(tx + 1) % 256`.
* `LateBounded`: `Spec => []LateReportBound`.
  * The property alone is not inductive: it does not say when a second late
    report could come.
  * `LateInv` adds two facts. While enabled, nothing is late. Once one report
    is late, no `GotData` that passed the enabled check is still running.
  * So a report is late only if its handler passed the check before
    `SetEnable(false)`, and only one handler runs at a time.
* `AlwaysArmed`: `ASSUME AsyncIOResults = {TRUE} PROVE Spec => []ReceiveAlwaysArmed`.
  * `ArmedInv` adds that the running interface's action is live and
    something is in flight.
  * `ExactlyOneInFlight` turns this, with `OneOrNone`, into exactly one
    read. It splits on whether `GotData` runs, and uses the arithmetic lemma
    `OneOfTwo`.
  * The hypothesis is the point. The AsyncIO finding (lines 401 and 854)
    shows that without it the loop can stop.

`XboxOneDriverProofs` also proves two more theorems.

* `RegistrationFollowsSetup`: `DriverSpec => []RegisteredAfterSetup`. The
  lemma `RegisterServiceLast` places `RegisterService` at step 8 of
  `StartSteps`. `RegisteredMeansAllPassed` and `NextRegistered` then show that
  a registration is reached only through every step before it.
* `InterfaceGuaranteesInDriver`: `DriverSpec` implies `[]SingleOutstandingReceive`,
  `[]QuiescentAtRelease`, `[]CounterTracksTransmissions` and `[]LateReportBound`.
  * The lemma `DriverStepIsInterfaceStep` shows `[DriverNext]_allvars => [Next]_vars`.
    Every driver step is an interface step or leaves the interface's variables
    alone.
  * `HandleLicensing` is the one step outside the interface that touches
    them. It is exactly `SetEnable(scalar # 0)` or a no-op.
  * The interface's invariants `IInv`, `CounterLaw` and `LateInv` then carry
    over unchanged.
  * This is why the driver run does not check `LateReportBound` again. The
    input_interface run checks it on the interface, and this theorem carries
    it into the driver.

`XboxOneDriverRefinementProofs` proves that the composed driver implements
both abstract specifications, for any set of connections:

* `DriverRefinesReceiveLoop`: `DriverSpec => ImplementsReceiveLoop`.
  * `DriverIsInterface` gives `DriverSpec => Init /\ [][Next]_vars`, from
    `DriverStepIsInterfaceStep`.
  * The interface's `RInv`, `InitRefines` and `NextRefines` then carry the
    refinement over. The receive-loop promise survives `SetEnable` calls from
    the clients' queues.
* `DriverImplementsLicensing`: `DriverSpec => ImplementsLicensing`.
  * Its invariant `LicInv` is `DriverInv` plus one fact: every started
    client holds the interface pointer.
  * The pointer fact is needed for the answer. Without it, `HandleLicensing`
    could answer "off" without calling `SetEnable`, a step the contract does
    not allow.
  * `DriverInv`'s "a started client was created under the interface" is
    needed for `Retire`. With `ChildrenStopped`, it shows that no
    connection is open when the interface stops.
  * `NextLic` has one case per driver action. `SessionUpdate` shows that
    changing one client's phase changes only its session.

## Findings

* The result of `AsyncIO` in `RequestAsyncInterruptData` is ignored by both
  of its callers. These are the first arm in `handleStart` (line 401) and
  the re-arm at `GotData`'s `Exit` (line 854). After a failure, the loop
  never runs again. This contradicts spec §3/§7.
  * TLC's shortest trace fails the first arm. Start succeeds, and the
    running interface has nothing armed, queued or in `GotData`.
  * A failed re-arm ends a loop that was running in the same way.
* Guide reports are forwarded to the HID stack (line 743, reached from 784).
  This contradicts spec §6.
* The guide response is 9 bytes long instead of 13 (line 804). This
  contradicts spec §8.
* `XboxOneDevice::Start_Impl` returns `kIOReturnSuccess` without calling
  `RegisterService` when it fails in any of three places: copying the
  device descriptor, the configuration-count check, or copying the
  configuration descriptor. These are `XboxOneDevice.cpp:108`, `:114`
  and `:129`, which `goto Exit` with `ret` still a success. The comment at
  line 150 says the service must register or the OS treats Start as
  failed. Run device_start_silent_failure shows it in one step.

## What is only model-checked, and what is not modelled

* Only TLC checks these:
  * `StopCompletes` and `TerminationCompletes`. They are liveness under
    fairness, and TLAPS does not check liveness or ENABLED here.
  * `CopyStringMatchesSpec`. What a recursive definition computes for every
    input needs induction over data, which the provers cannot do, and
    `CopyLoop` is such a definition.
* `AlwaysArmed` holds under a hypothesis: that `AsyncIO` succeeds. Run
  receive_loop_arm_fails shows what happens when it does not.
* These parts are not modelled:
  * the unfinished `XboxOneInterface`: its `handleStart` only checks the
    interface number and defers to the superclass;
  * `newReportDescriptor` and the numeric values of the description: they
    are constant data and layout;
  * the tester's service iteration and printing;
  * the shared header definitions.
* The pipe-setup failures of `handleStart` (from line 151 on) are folded
  into one `StartFailed`. The hazard there has no property yet: see
  `PROJECT.json`.
* The duplicated `inPipe.reportSize` assignment (line 336) has no effect on
  any modelled behaviour.
