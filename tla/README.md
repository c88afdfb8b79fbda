# Verification of the PX4 autopilot core

The repository holds the board files of an RGB LED cube and, beside them, the
PX4 autopilot firmware of 2012 it was built around. This project specifies the
firmware's concurrent core in TLA+: the high-resolution timer, the uORB message
bus with its poll mechanism, the commander, the PX4IO failsafe processor with
its driver and its link, the PPM decoder, the parameter store with its file, and
the MAVLink mission protocol. The code under `src/apps` and `src/nuttx` is the
reference; `src/firmware` is an older, reduced copy.

## Inventory

| Part | State | Operations | What is hard | What makes it correct |
|---|---|---|---|---|
| High-resolution timer (`up_hrt.c`) | 16-bit counter, compare register, `base_time`/`last_count`, sorted callout list | read time, call after/every, cancel, interrupt handler | counter wrap, late handler, callouts that use the timer, preemption before queueing | time is the real time, list consistent, calls in time |
| uORB topic (`uORB.cpp`) | buffer, generation, publisher, per-subscriber generation, interval timer | advertise, publish, subscribe, unsubscribe, copy, check, set interval | unlocked counter, memory freed while linked, advertisers at the same time | no lost or spurious update |
| Character device and poll (`cdev.cpp`, `fs_poll.c`) | table of 8 waiters, semaphores | poll set-up, notify, wait, tear-down | lost wakeup, full table | a sleeper with an update is woken |
| Commander (`commander.c`, `state_machine_helper.c`) | one unlocked `vehicle_status_s`, hysteresis counters | 20 Hz main loop; mode, reboot and calibration commands in a second thread | check-then-act across threads, stale or lost publications | one control source, lockdown in HIL, emergencies final, published state catches up |
| PX4IO firmware and driver (`px4io/*.c`, `px4io.cpp`) | `system_state` shared with two timer callouts, drop counters, button counter; the driver's command | commands, reports, 50 Hz mixer tick, 10 Hz button, arming ioctls, restarts | interrupt against main loop, lost frames, counters left by an outage | armed only with permission, no stale control, failover deserved and undone |
| PPM decoder (`drv_ppm_input.c`; the FMU's `hrt_ppm_decode` is a near copy) | phase, channels of this frame, expected channels, lock | edge, read, status request | abandoned frames, noise, limits | a frame is exported whole or not at all, the lock holds, a steady signal is decoded |
| Parameter store (`param.c`, its savers and loaders, NXFFS) | sorted array of changed values with marks, file, its writer and readers | set, reset, export, import, load, save | lock that does nothing, array shifted or moved under an exporter, failing I/O, power loss | a good save is durable, a load restores it, subscribers are current |
| Mission protocol (`waypoints.c`) | transfer state machine, two lists, active waypoint | MAVLink messages, timeout, navigation | lost and repeated messages, numbers beyond the list, two threads that block while sending | a list is taken over whole, the active waypoint is in it and published, transfers end |
| Serial framing (`hx_stream.c`) | receive buffer, escape state | byte in, frame out | resynchronisation | a frame arrives whole or not at all (assumed by `PX4IO`) |
| Drivers, estimators, controllers, mixers, GPS, logger | | | numerical or register-level code | not modelled |

How the parts interact: interrupts call the timer's handler, which calls
callouts (uORB's interval timers, sensor polling, the PX4IO mixer tick).
Applications exchange data only by uORB topics. MAVLink puts commands on
`vehicle_command`; the commander changes `vehicle_status` and publishes
`actuator_armed`, which the output drivers obey. The PX4IO driver sends commands
over a serial line to the IO board, whose timer interrupt runs the mixer, the
safety button and the PPM decoder. The commander's calibrations, MAVLink and the
shell set parameters and save them to one file.

`PROJECT.json` lists every component and every hazard with its source line.

## Modules

| Module | Models | Run by |
|---|---|---|
| `HRT` | timer and callout list | `MCHRT` |
| `HRTProofs` | its theorems | |
| `uORB` | one topic, its poll waiters, its interval timers | `MCuORB` (three configurations) |
| `uORBProofs` | its theorems | |
| `Topic` | the abstract topic that `uORB.h` promises | instantiated by `uORB` |
| `uORBRefinement` | that `uORB` implements `Topic` | |
| `Commander` | main loop, state machine, command thread | `MCCommander` (two configurations) |
| `CommanderProofs` | its theorems | |
| `PX4IO` | the IO board, the driver and the link between them | `MCPX4IO` |
| `PX4IOProofs` | its theorems | |
| `PPM` | the IO board's PPM decoder, its device and the signal | `MCPPM` |
| `PPMProofs` | its theorems | |
| `Params` | parameter store, its file and the tasks that use them | `MCParams` (two configurations) |
| `ParamsProofs` | its theorems | |
| `Mission` | mission protocol and navigation in two threads | `MCMission` (two configurations) |
| `MissionProofs` | its theorems | |

### HRT

Real time is `epoch + rCNT`; the code sees only `rCNT`. `Tick` is the hardware:
it advances the counter and raises the compare interrupt when the counter
becomes equal to `rCCR_HRT`. Routines that run with interrupts disabled
(`hrt_absolute_time`, `hrt_call_internal`, `hrt_cancel`) are one step. The
interrupt handler is three kinds of step: `Invoke` pops a due call, the callout
then may use the interface, `CalloutReturns` re-enters a periodic call and
`IsrReturns` reschedules. `EntryDelay` is what a caller may lose between reading
the time and queueing: `hrt_call_after` reads it before it disables interrupts.
`IsrReturns` reads the time once where the code reads it twice, in the test that
ends `hrt_call_invoke` and in `hrt_call_reschedule`; a tick between the two has
the same effect as one after `IsrReturns`.
`MaxLatency` is the assumption on the rest of the system: from a compare match
to the end of its handler no more than that many ticks pass. `HRTAssumption`
says what the numbers must satisfy; 50000 + 15535 < 65536 leaves the code
15.5 ms of latency. Left out: the PPM capture that shares the interrupt, the
latency histogram, `hrt_call_at` (no caller), and a periodic call that arms
itself as periodic from its own callout (no caller does so; it would be queued
twice).

### uORB

One topic. The data is the number of the publication it came from, so a stale
copy is visible. `ORBDevNode::write` is five steps: allocate, copy (atomic, as
in the code), load and store of `_generation++`, notify. `appears_updated`,
`poll_notify` and `update_deferred` run with interrupts disabled and are atomic.
`CDev::poll` holds the device lock (a semaphore, so publishers and the timer
still run) and is three steps: register, `poll_state`, post. C++ leaves open
whether `revents` is read before or after `poll_state` in `revents |= ...`;
`PollPost` allows both. A `SubscriberData` lives in a memory block because
`close` frees it as it is. A full waiter table lets the caller sleep
unregistered, as the positive `ENOMEM` of `store_poll_waiter` does. An
advertiser that is refused (`failed`) does nothing more. `known` is a history
variable: the newest publication a subscriber has copied.

`Topic` is what a user of `uORB.h` may rely on: a register, a flag per
subscriber, and the moment of announcement. `uORB` maps to it by `T`: the data
is the newest publication, a subscriber is flagged when its generation differs,
and a publication is announced when its generation has been stored.
`ImplementsTopic` says that a node with one writer is such a topic; buffers,
blocks, timers, the lock and the semaphores are steps that stutter.

### Commander

The main loop runs at priority 205 and the command thread at the pthread default
of 100 (NuttX creates threads with explicit scheduling), so one iteration is one
step, block by block as in `commander_thread_main`, and it may come between any
two steps of the command thread. The steps of that thread's `do_state_update`
are: the read of the old state, the test of the transition, the assignment of
the flag, the assignment of the state, the filling of `actuator_armed_s` with
the opening of its topic, the initial and the second publication. A test of
several fields, such as those of the mode request, is one step, and so is the
filling of the record. That an iteration is one step assumes that the console
takes what the main loop prints without blocking (`state_machine_helper.c:217`
and 238, `commander.c:1467`); if it does block, the command thread may run in
the middle of an iteration. While the command thread has the node open, the main
loop's `orb_advertise` fails and its publication is lost. Of the status record
the model keeps what guards a transition or is published; battery, stick, switch
and signal ages are small sets chosen afresh in each iteration. `MISSION_ABORT`
passes through `EMCY_LANDING` inside one call and ends in `MISSION_ABORT`; only
the main loop makes that call, so the model shows the end.

### PX4IO

The IO board's main loop shares `system_state` with `mixer_tick` and
`safety_check_button`, which the timer interrupt runs. A callout is one step;
`comms_handle_frame` is one step per assignment, so that a callout comes between
any two. A frame on the link carries the permission to arm, or the report that
the board is armed; it arrives whole or is lost (`Sent`: damaged bytes fail the
CRC, a full buffer drops a byte). Each side may restart. A restarted driver has
an arbitrary permission in its command, because the constructor does not
initialise it. One timing fact is assumed: a command is handled in far less than
20 ms, so at most one tick falls into its handling (`TickMayCome`); without it a
command could be ignored for ever. `since_command`, `since_rc` and `unused` are
history.

### PPM

An edge is classified by what the decoder asks of it: start gap, pulse or
neither, interval of a channel or not, edge missed before it. Noise is any
sequence of edges (times are 16-bit differences, so a pause may look like
anything); a steady signal is frames of a fixed number of channels. Of the
buffers the model keeps which slots were written in this frame. Age is counted
in frames. `streak` is history: the unexpected frames of one size, counted as the
code counts them, so that an expected frame in between does not start them anew;
the comment at line 225, "this frame matched the last one", says otherwise. The
message queue that gets a copy of each exported frame (line 242) is not modelled.

### Params

Tasks of equal priority are not time-sliced, so what `param.c` does in memory is
one step, and a task gives way where it does I/O: between two entries of an
export or an import, at open, close and unlink. `param_lock` is empty and is not
modelled. A value that is set and its notification (`param.c:416` and 429) are
one step for the same reason; a subscriber of a higher priority, which would run
between them, is not modelled. An exporter holds a pointer into the array, here
the number of a slot (`ptr`): a value that is set meanwhile may shift the array
under it, and if the array has no room left (`room`, at first eight values in
the code) `realloc` may move it anywhere. `utarray_next` then makes an index of
the old pointer and the new base: a pointer below it leads to the front, another
one to any slot or beyond the last (`Reserve`). `realloc` is assumed to succeed;
it ends the program if it does not. NXFFS is modelled by what the file sees: one
writer, exclusive creation, unlink refused while open, and a file that appears
at close. Every write and close may fail. `Crash` is power loss at any point. A
document is a sequence of entries and an end mark. `savedOK`, `disturbed`,
`cutShort` and `skipped`, which is set when a move takes an export forward, are
history. The subscriber of `parameter_update` uses the parameters `Watched`.

### Mission

Both threads work on `wpm` without a lock and give way only where they may block,
that is where they send or print; an action is what a thread does from one such
point to the next. All messages may come at any time, from any ground station,
which covers loss, repetition, delay and reordering. A message may announce any
number up to `MaxCount`, 65535 in the code, and carry any index: the handler does
not compare them with the capacity of the lists. Where the code writes outside an
array, at an item beyond `rcv_waypoints` (`ItemOutside`) or at
`waypoints[65535]` after the list was cleared (`ArriveOutside`), what follows is
undefined and the model stops (`Stopped`); all properties but that of the run
`mission_count` speak of the time before. Of an item the model
keeps whether its frame has a setpoint topic: `"nav"` stands for the four frames
for which `mavlink.c` publishes and `check_waypoints_reached` measures a
distance, `"other"` for the rest. Whether a waypoint is near
and how long the vehicle has stayed is arbitrary. The timeout is in two steps,
because its text is sent before the state is reset: `cut` marks a switch of lists
into which it fell. `None` stands for 65535.

## Runs

| Run | Shows |
|---|---|
| `hrt` | type, time, list and timeliness properties of the timer |
| `uorb` | a single advertiser is let in, safety of updates and wakeups, that waiters are woken, and that the node implements `Topic` |
| `uorb_two_writers` | *violation*: two publishers lose an increment of the generation, and a subscriber a publication |
| `uorb_unsubscribe` | *violation*: a freed `SubscriberData` stays in the callout list |
| `commander` | control source, HIL lockdown, emergencies, publication |
| `commander_standby` | *violation*: armed in STANDBY after a calibration |
| `px4io` | arming needs permission, stale control disarms, failover is deserved, at most one command after an outage is ignored; a withdrawn permission reaches the servos and reports catch up |
| `ppm` | exported frames are whole, the lock holds, a steady signal is decoded again |
| `params` | exports are alone, a good save is durable unless a move of the array took its export forward, a load restores the file, subscribers are current, saves end |
| `params_export` | *violation*: an export skips values because the array was moved, and the save ends well |
| `mission` | the list is one whole transfer, an acknowledged one unless a timeout fell into it; the active waypoint is in the list and published if its frame has a topic; abandoned transfers end |
| `mission_count` | *violation*: an item is stored behind the receive buffer |

Bounds, and why they are enough. `hrt`: a period of 8 with intervals from 1 to 5
and a latency of 2 is the tightest instance of `HRTAssumption` (one more tick of
latency and time slips); delays 0 and 6 lie below and above both limits; 18
ticks are more than two wraps. `uorb`: two publications and two subscribers give
every order of publish, check, copy, poll and timer; `GenMod` above `MaxWrites`
keeps the generation from wrapping, which in the code takes 2^32 publications.
`commander`: hysteresis limits of 0 keep all branches and make them near; one
command at a time is all the thread can handle; `PublishEvery` is 2 so that the
periodic publication is not in every iteration. `px4io`: a drop limit of 2
distinguishes a counter that was reset from one that was not; one frame each way
and one restart leave room for every loss and order. `ppm`: up to three
channels, a lock of the code's length and signals one channel too long.
`params`: two parameters give shifts and duplicates, two tasks every pair of
operations, and a first room of 1 makes the second value move the array under an
export of the first; more parameters and moves are left to the proofs. Crashes
are not bounded. `params_export` has three parameters, so that the third value
moves the array and two are there to be skipped. `mission`: a list of two
waypoints has a first and a last one, and an announced number of 3 is beyond it;
two ground stations can interfere. Longer lists, where the last waypoint is
followed by number 1 and that is not the last, are left to the proofs.

Fairness. uORB: a thread inside a library call is eventually scheduled, and a
queued timer call expires (`CalledInTime` is the timer's promise). Nobody has to
publish or poll, and no timeout is needed. Commander: the main loop sleeps 50 ms
and never blocks, so its counter keeps going round; the command thread finishes
what it began. PX4IO: the timer ticks, both loops go round, and a link that keeps
carrying frames delivers one now and then (strong fairness of the sends that
succeed: a line that loses everything satisfies nothing). PPM: the edges of a
steady signal come. Params: a task whose I/O is done goes on, and `sem_post`
hands the writer's semaphore to the task that waits, hence strong fairness of
`SaveOpen`. Mission: a blocked thread goes on once the line has taken its
message, and time passes; ground stations need not send anything. Runs that
check only safety assume no fairness.

Deadlock is checked except in `uorb_two_writers`, where both publishers may
have reached the bound on publications inside `write`.

Each property has a mutant, kept next to the definition it replaces, that shows
the run notices the corresponding mistake in the code.

## Proofs

`HRTProofs` proves, for every counter period, interval, latency, entry delay and
set of calls allowed by `HRTAssumption`: `TypeOK`, `TimeIsReal`,
`QueueConsistent` and `CalledInTime`. None is inductive alone. `IInv` adds: the
statics of `hrt_absolute_time` are at most one wrap behind (`ClockInv`); the
next interrupt comes within `HRT_INTERVAL_MAX` of the last read of the time, so
a second wrap cannot go unseen (`GapInv`); the next interrupt comes soon enough
for every queued call and for the one whose callout is running (`DueInv`); and a
running periodic call is not queued (`RunningInv`). The arithmetic core is that
the compare register, cut to the counter's width, matches next exactly when the
chosen deadline comes.

`uORBProofs` proves, for any numbers of writers, subscribers and blocks:
`TypeOK` and `NoLostWakeup`; when there is one writer, `NoLostUpdate`,
`NoSpuriousUpdate` and `AdvertiseSucceeds` (with two the first and the last are
false; `uorb_two_writers` shows the first); and, when
no subscriber that limits its rate unsubscribes, `CalledMeansRemoved` (otherwise
it is false: `uorb_unsubscribe`). The
invariant `WakeInv` says that open handles have distinct blocks, that a running
interval is in the callout list, and extends `NoLostWakeup` back to the moment
`poll_state` has been asked; `UpdateInv` adds that the generation is the number
of the publication in the buffer, or one behind while one is under way, and that no
subscriber is ahead of what it has collected. `LinkedInv` says that every linked
call is running and belongs to an open handle with a limited rate, so a block
that `open` gets is never a linked one; `AdvertiseInv` that a second attempt to
open finds the node and, with one advertiser, finds it free.

`uORBRefinement` proves that `uORB` with one writer implements `Topic`, for any
numbers of subscribers and blocks. With `UpdateInv` every action maps to one
step of the topic or leaves it alone: the copy into the buffer publishes, the
store of the generation announces, and it flags exactly the open subscribers
because none of them can already have the new generation.

`PPMProofs` proves, for every number of channels, lock and timeout and every
signal: `TypeOK`, `ExportIsWhole` and `LockHolds`. `FrameInv` is why whole frames
come out although an error keeps `next_channel`: while the decoder is out of
step it expects no channels, so nothing it counted can match. `StreakInv` says
that the hold-off has been counted down by frames of the count being locked.

`PX4IOProofs` proves, for every drop limit, button threshold and link capacity
and any number of restarts: `TypeOK`, `ArmedIsPermitted`, `FailsafeDisarms`,
`SecondCommandIsUsed` and `FailoverIsDeserved`. The code never resets
`fmu_input_drops` on failover; `DropInv` says that too many drops coexist with FMU
control only between the two assignments of a command's handling or while its
data waits, and so bounds the counter. `CommandInv` ties the drops to the age of
the last complete command from both sides: from below for failover, from above
for stale control. `RcInv` does the same for the RC input, and `UnusedInv` says
that a command that was not used is still waiting when the next one comes.

`MissionProofs` proves, for any ground stations, every size of list and every
range of announced numbers: `TypeOK`, `ListIsWhole`, `ActiveInList`,
`SetpointIsActive` and `AckedIsListed`, up to a write outside an array; and,
when no number beyond the size can be announced, `ItemsFit` (`FittingCountsFit`;
otherwise it is false: `mission_count`). None of them is inductive, because the
receiver blocks while it sends and the main loop may time the transfer out
meanwhile. `TransferInv` says that while a list is received its count is the
announced one and every item before the awaited one has come; `SwitchInv` that
at the switch of the lists all items are there or a timeout has set the count to
zero, so that the list becomes empty rather than partial.

`CommanderProofs` proves, for all hysteresis limits, publication periods and
numbers of commands: `TypeOK`, `ControlSourceExclusive`, `HilLocksDown` and
`EmergencyIsFinal`. An iteration of the main loop is a composition of blocks;
each block is shown to be safe (`Safe`: it keeps the types and bounds, one
control source, the lockdown under HIL, and an emergency), and safe blocks
compose. `CountInv` is why the counters are bounded although a warning stops
counting only once it is given: one that has not been given is at most one above
its limit. `HilLocksDown` is not inductive, because the command thread publishes
a record it filled before; `StaleInv` says that this record is locked too once
HIL is on. `TodoInv` keeps the list of calibrations non-empty where its head is
used.

`ParamsProofs` proves, for any finite number of parameters, any values and tasks
and any first room of the array, with moves of the array, failing I/O and
crashes anywhere: `TypeOK`, `ExportAlone`, `SavedIsStored`, `LoadRestores` and
`SubscriberIsCurrent`. `OpenInv` ties a task's place to what it has open in the
file system, which is all that keeps an export alone. `ExportInv` is why an
export that is overtaken by a set is still good: up to the exporter's slot,
everything called saved is in the document with its current value, because an
insertion before it is itself unsaved and moves the others towards the end,
where they are written once more. A move of the array that takes the exporter
back or leaves it where it was keeps this; one that takes it forward does not,
and `SavedIsStored` says nothing of such an export (`skipped`). It rests on
lemmas about the sorted array: ranks are injective and fill the slots without a
hole (the pigeonhole principle of `FiniteSetTheorems`). `RestoreInv` says that
an undisturbed load has set exactly what it has read, and `StoredInv` that what
is called saved is stored or a load has still to come to it.

Every invariant that a run checks is also a theorem, and so are `EmergencyIsFinal`
and `ImplementsTopic`. Only model-checked are the liveness properties, which are
outside the prover's reach: `WaiterIsWoken`, `PublicationCatchesUp`,
`DisarmReachesServos`, `ReportCatchesUp`, `TransferEnds`, `SaveEnds` and
`SteadyIsDecoded`. The properties of the runs that expect a violation are false
as they stand; the theorems about `NoLostUpdate`, `AdvertiseSucceeds`,
`CalledMeansRemoved` and `ItemsFit` name the hypothesis under which they hold.

`TransferEnds` has the premise that the receiver stays idle: any message, a
heartbeat too, sets the timestamp that the timeout is measured from, so that a
transfer is not given up while messages keep coming.

## Plan

1. `hrt_ppm_decode`, the FMU's decoder without a lock, as a variant of `PPM`.
2. The output driver of the FMU, following `actuator_armed`.
3. Safety lemmas on which the liveness properties rest, such as what an expired
   interval or a lost publication leaves to be done.

## Hazards that no property covers

`PROJECT.json` lists the hazards that the properties are about. These are
further ones met while modelling, or cases that a property excludes; they can be
reached in the models unless said otherwise.

- uORB: while one advertiser has the node open, a second one gets `EBUSY` twice
  and `orb_advertise` fails, although `uORB.h:125` allows any number of them
  (`uORB.cpp:197`); a subscriber may copy the buffer between its allocation and
  the first write (`uORB.cpp:313`); after exactly 2^32 publications without a
  copy the generations are equal again (line 437; the models stay below).
- Commander: a transition that `do_state_update` refuses is made all the same if
  it changes the state, because the guard is `invalid_state == false ||
  old_state != new_state` (`state_machine_helper.c:199`; line 206 calls it
  "REJECTING"); a calibration tests for PREFLIGHT and sets its flag afterwards,
  so that the main loop may arm in between (`commander.c:733`); an aborted
  calibration leaves its flag set (`commander.c:503`); an accepted reboot sleeps
  while the main loop may arm (`state_machine_helper.c:140`);
  `COMPONENT_ARM_DISARM` with 0 arms (`commander.c:653`); a critical battery in
  STABILIZED is marked as handled and not tried again in AUTO (line 1209); the
  kill timeout of a lost signal is restarted in every iteration (line 1436).
- PX4IO: a button held while permission is withdrawn and granted arms again
  (`safety.c:93`); a silent FMU leaves `arm_ok` and `armed` as they were
  (`mixer.c:152`); the driver may send a permission nobody has given
  (`px4io.cpp:240`); `PX4IO_RC::init` is never called (line 124, not modelled).
- Mission: `check_waypoints_reached` sets the flag of the active waypoint after
  a send that may block, when the list may have been cleared and the index be
  65535 (`waypoints.c:430`, the action `ArriveOutside`); a waypoint of another
  frame than the four of `mavlink.c:302` becomes active without a setpoint,
  although line 290 says that one is published each time (`SetpointIsActive`
  excludes it); a late item is acknowledged in IDLE (`waypoints.c:1068`); items
  of another ground station are taken (line 991); two threads may leave the same
  waypoint and skip one (line 422); a count of 0 keeps the list (line 910); both
  threads pack into one static buffer (`mavlink.c:239`, not modelled).
- Params: a failed save leaves everything marked as saved (`param.c:510`); the
  result of close is ignored (`mavlink_parameters.c:190`); the index of the
  parameter stream is shared by two threads (`mavlink_parameters.c:100`, not
  modelled).
- PPM: frames that settle the lock need not follow one another, although the
  comment says so (`drv_ppm_input.c:225`; `LockHolds` counts as the code does);
  a status request clears a lock that is complete but has exported nothing yet
  (`drv_ppm_input.c:356`; `SteadyIsDecoded` excludes it, and no task of the IO
  board makes the request); a read takes the channel count before it disables
  interrupts (line 315, read by nobody); the FMU's decoder exports a frame that
  was abandoned after five good channels (`up_hrt.c:502`, not modelled);
  `Sensors::ppm_poll` reads the FMU's buffer while the interrupt writes it
  (`sensors.cpp:865`, not modelled).

## Not modelled

Register-level drivers, numerical code (estimators, controllers, mixers, the
arithmetic of the calibrations), file and serial I/O, logging, the shell, NuttX
itself and the generated MAVLink headers. Where modelled code relies on NuttX
(semaphores, interrupt masking, priorities) its behaviour is part of the module
that uses it.

The share of the repository that the modules cover is small because most of it
is not this program: about a million lines are NuttX with the drivers of boards
that are not built, MAVLink headers generated for several dialects and
languages, and a second copy of both in `src/firmware`. Of the code the project
wrote, the rest is register-level and numerical.
