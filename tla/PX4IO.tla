------------------------------- MODULE PX4IO -------------------------------
(***************************************************************************)
(* The PX4IO failsafe processor (src/apps/px4io), its driver on the FMU    *)
(* (src/apps/px4/px4io/driver/px4io.cpp) and the serial link between them. *)
(*                                                                         *)
(* The firmware's main loop shares system_state, without any lock, with    *)
(* two callouts that the timer interrupt runs: mixer_tick at 50 Hz and     *)
(* safety_check_button at 10 Hz.  A callout is one step; the main loop is  *)
(* interrupted between any two of its statements.  One timing fact is used: *)
(* a command is handled in far less than a tick's period of 20 ms, so that  *)
(* at most one tick falls between two steps of its handling.                *)
(*                                                                         *)
(* A frame carries what decides about arming, not the servo positions.     *)
(* hx_stream discards a frame in which a byte is damaged or missing, and a *)
(* full transmit buffer makes a byte missing: both lose the whole frame.   *)
(***************************************************************************)
EXTENDS Integers, Sequences

CONSTANTS
  FMU_INPUT_DROP_LIMIT,     \* 10 in the code
  MIXER_INPUT_DROP_LIMIT,   \* 10 in the code
  ARM_COUNTER_THRESHOLD,    \* 10 in the code
  LinkCapacity,             \* frames a direction of the link can hold
  MaxResets                 \* bound on the restarts explored

ASSUME PX4IOAssumption ==
  /\ FMU_INPUT_DROP_LIMIT \in Nat \ {0}
  /\ MIXER_INPUT_DROP_LIMIT \in Nat \ {0}
  /\ ARM_COUNTER_THRESHOLD \in Nat
  /\ LinkCapacity \in Nat \ {0}
  /\ MaxResets \in Nat

VARIABLES
  armed, arm_ok,            \* system_state: armed, and the FMU allows it
  rc_channels,              \* system_state.rc_channels > 0
  mixer_use_fmu,            \* system_state: the FMU controls the servos
  fmu_data_received,        \* system_state: a command since the last tick
  fmu_report_due,           \* system_state: something to tell the FMU
  fmu_input_drops, mixer_input_drops, mixer_servos_armed,     \* mixer.c
  arm_counter,              \* safety.c
  iopc,                     \* where the firmware's main loop is
  ticked,                   \* the mixer has ticked during this command's handling
  toIO, toFMU,              \* commands (arm_ok) and reports (armed) in flight
  next_arm_ok,              \* driver: _next_command.arm_ok
  _armed,                   \* driver
  since_command, since_rc,  \* history: ticks since a command was last complete, and
                            \* since the last RC message
  unused,                   \* history: commands in a row that ended up unused
  resets                    \* restarts so far

stateVars == <<armed, arm_ok, rc_channels, mixer_use_fmu, fmu_data_received, fmu_report_due>>
mixerVars == <<fmu_input_drops, mixer_input_drops, mixer_servos_armed>>
linkVars  == <<toIO, toFMU>>
driverVars == <<next_arm_ok, _armed>>
history   == <<since_command, since_rc, unused>>
vars == <<armed, arm_ok, rc_channels, mixer_use_fmu, fmu_data_received, fmu_report_due,
          fmu_input_drops, mixer_input_drops, mixer_servos_armed, arm_counter, iopc, ticked,
          toIO, toFMU, next_arm_ok, _armed,
          since_command, since_rc, unused, resets>>

\* The history counters stop here.
CommandCap == FMU_INPUT_DROP_LIMIT + 2
RcCap      == MIXER_INPUT_DROP_LIMIT
Later(n, cap) == IF n < cap THEN n + 1 ELSE n

Init ==
  /\ armed = FALSE /\ arm_ok = FALSE /\ rc_channels = FALSE
  /\ mixer_use_fmu = FALSE /\ fmu_data_received = FALSE /\ fmu_report_due = FALSE
  /\ fmu_input_drops = 0 /\ mixer_input_drops = 0 /\ mixer_servos_armed = FALSE
  /\ arm_counter = 0 /\ iopc = "idle" /\ ticked = FALSE
  /\ toIO = << >> /\ toFMU = << >>
  /\ next_arm_ok \in BOOLEAN          \* the constructor leaves it uninitialised
  /\ _armed = FALSE
  /\ since_command = CommandCap /\ since_rc = RcCap
  /\ unused = 0 /\ resets = 0

-----------------------------------------------------------------------------
(* The interrupt's callouts.                                               *)

(***************************************************************************)
(* mixer_tick, with an RC message in the queue or not: mixer_get_rc_input, *)
(* the choice of the control input, the count of missing FMU commands, and *)
(* arming or disarming of the servos.                                      *)
(***************************************************************************)
Handling == iopc \in {"use", "received", "disarm"}

TickMayCome ==
  /\ Handling => ~ticked
  /\ ticked' = (ticked \/ Handling)

RcLost(got) == ~got /\ mixer_input_drops = MIXER_INPUT_DROP_LIMIT - 1

mixer_get_rc_input(got) ==
  /\ rc_channels' = (got \/ (rc_channels /\ ~RcLost(got)))
  /\ mixer_input_drops' = IF got THEN 0 ELSE Later(mixer_input_drops, MIXER_INPUT_DROP_LIMIT)
  /\ fmu_report_due' = (fmu_report_due \/ got \/ RcLost(got))

\* Mutant: the count of missing commands goes on from where the last outage left it.
CheckFmu_NoReset ==
  /\ fmu_input_drops' = IF fmu_data_received THEN fmu_input_drops ELSE fmu_input_drops + 1
  /\ mixer_use_fmu' = (fmu_data_received \/ fmu_input_drops' < FMU_INPUT_DROP_LIMIT)
  /\ fmu_data_received' = FALSE

\* With mixer_use_fmu set: fresh data, or one more drop and perhaps the failsafe.
CheckFmu ==
  /\ fmu_input_drops' = IF fmu_data_received THEN 0 ELSE fmu_input_drops + 1
  /\ mixer_use_fmu' = (fmu_data_received \/ fmu_input_drops' < FMU_INPUT_DROP_LIMIT)
  /\ fmu_data_received' = FALSE

\* Mutant: the servos stay armed when the last control input is lost.
mixer_tick_KeepsServos(got) ==
  /\ TickMayCome
  /\ mixer_get_rc_input(got)
  /\ IF mixer_use_fmu
     THEN CheckFmu
     ELSE UNCHANGED <<mixer_use_fmu, fmu_data_received, fmu_input_drops>>
  /\ mixer_servos_armed' = (armed /\ (mixer_servos_armed \/ mixer_use_fmu \/ rc_channels'))
  /\ since_command' = Later(since_command, CommandCap)
  /\ since_rc' = IF got THEN 0 ELSE Later(since_rc, RcCap)
  /\ UNCHANGED <<armed, arm_ok, arm_counter, iopc, linkVars, driverVars, unused, resets>>

\* Mutant: what has been received is forgotten even when it was not looked at.
mixer_tick_Forgets(got) ==
  /\ TickMayCome
  /\ mixer_get_rc_input(got)
  /\ IF mixer_use_fmu
     THEN CheckFmu
     ELSE fmu_data_received' = FALSE /\ UNCHANGED <<mixer_use_fmu, fmu_input_drops>>
  /\ mixer_servos_armed' = (armed /\ (mixer_use_fmu \/ rc_channels'))
  /\ since_command' = Later(since_command, CommandCap)
  /\ since_rc' = IF got THEN 0 ELSE Later(since_rc, RcCap)
  /\ UNCHANGED <<armed, arm_ok, arm_counter, iopc, linkVars, driverVars, unused, resets>>

mixer_tick(got) ==
  /\ TickMayCome
  /\ mixer_get_rc_input(got)
  /\ IF mixer_use_fmu
     THEN CheckFmu
     ELSE UNCHANGED <<mixer_use_fmu, fmu_data_received, fmu_input_drops>>
  /\ mixer_servos_armed' = (armed /\ (mixer_use_fmu \/ rc_channels'))
  /\ since_command' = Later(since_command, CommandCap)
  /\ since_rc' = IF got THEN 0 ELSE Later(since_rc, RcCap)
  /\ UNCHANGED <<armed, arm_ok, arm_counter, iopc, linkVars, driverVars, unused, resets>>

\* Mutant: the button is heeded whether or not the FMU allows arming.
safety_check_button_Unasked(pressed) ==
  /\ \/ /\ pressed /\ arm_counter < ARM_COUNTER_THRESHOLD
        /\ arm_counter' = arm_counter + 1
        /\ UNCHANGED <<armed, fmu_report_due>>
     \/ /\ pressed /\ arm_counter = ARM_COUNTER_THRESHOLD
        /\ arm_counter' = arm_counter + 1
        /\ armed' = ~armed /\ fmu_report_due' = TRUE
     \/ /\ pressed /\ arm_counter > ARM_COUNTER_THRESHOLD
        /\ UNCHANGED <<armed, fmu_report_due, arm_counter>>
     \/ /\ ~pressed
        /\ arm_counter' = 0 /\ UNCHANGED <<armed, fmu_report_due>>
  /\ UNCHANGED <<ticked, arm_ok, rc_channels, mixer_use_fmu, fmu_data_received, mixerVars, iopc,
                 linkVars, driverVars, history, resets>>

\* The safety button, held long enough while the FMU allows it, toggles armed.
safety_check_button(pressed) ==
  /\ \/ /\ pressed /\ arm_ok /\ arm_counter < ARM_COUNTER_THRESHOLD
        /\ arm_counter' = arm_counter + 1
        /\ UNCHANGED <<armed, fmu_report_due>>
     \/ /\ pressed /\ arm_ok /\ arm_counter = ARM_COUNTER_THRESHOLD
        /\ arm_counter' = arm_counter + 1
        /\ armed' = ~armed /\ fmu_report_due' = TRUE
     \/ /\ pressed /\ arm_ok /\ arm_counter > ARM_COUNTER_THRESHOLD
        /\ UNCHANGED <<armed, fmu_report_due, arm_counter>>
     \/ /\ ~(pressed /\ arm_ok)
        /\ arm_counter' = 0 /\ UNCHANGED <<armed, fmu_report_due>>
  /\ UNCHANGED <<ticked, arm_ok, rc_channels, mixer_use_fmu, fmu_data_received, mixerVars, iopc,
                 linkVars, driverVars, history, resets>>

-----------------------------------------------------------------------------
(***************************************************************************)
(* comms_check: a report when one is due (or none has been sent for the    *)
(* maximum interval), then the commands that have arrived.                 *)
(***************************************************************************)
\* A frame put on the link, whole or (damaged, or no room left for a byte) not at all.
Sent(link, x) == {link} \cup {l \in {Append(link, x)} : Len(l) <= LinkCapacity}

\* Mutant: nothing is reported unless it is due.
ReportSend_OnlyDue ==
  /\ iopc = "idle" /\ fmu_report_due
  /\ fmu_report_due' = FALSE
  /\ toFMU' \in Sent(toFMU, armed)
  /\ UNCHANGED <<ticked, armed, arm_ok, rc_channels, mixer_use_fmu, fmu_data_received, mixerVars,
                 arm_counter, iopc, toIO, driverVars, history, resets>>

\* Time is not measured: a report is sent because one is due and the minimum interval is
\* over, or because the maximum interval is.  One step: an interrupt after the flag is
\* cleared and before armed is read only makes one more report due.
ReportSend ==
  /\ iopc = "idle"
  /\ fmu_report_due' = FALSE
  /\ toFMU' \in Sent(toFMU, armed)
  /\ UNCHANGED <<ticked, armed, arm_ok, rc_channels, mixer_use_fmu, fmu_data_received, mixerVars,
                 arm_counter, iopc, toIO, driverVars, history, resets>>

\* comms_handle_frame, statement by statement: the permission first.
FrameArm ==
  /\ iopc = "idle" /\ toIO # << >>
  /\ arm_ok' = Head(toIO) /\ toIO' = Tail(toIO)
  /\ iopc' = "use"
  /\ UNCHANGED <<ticked, armed, rc_channels, mixer_use_fmu, fmu_data_received, fmu_report_due,
                 mixerVars, arm_counter, toFMU, driverVars, history, resets>>

FrameUse ==
  /\ iopc = "use"
  /\ mixer_use_fmu' = TRUE
  /\ iopc' = "received"
  /\ UNCHANGED <<ticked, armed, arm_ok, rc_channels, fmu_data_received, fmu_report_due, mixerVars,
                 arm_counter, linkVars, driverVars, history, resets>>

FrameReceived ==
  /\ iopc = "received"
  /\ fmu_data_received' = TRUE
  /\ iopc' = "disarm"
  /\ since_command' = 0
  /\ unused' = IF mixer_use_fmu THEN 0 ELSE Later(unused, 2)
  /\ UNCHANGED <<ticked, armed, arm_ok, rc_channels, mixer_use_fmu, fmu_report_due, mixerVars,
                 arm_counter, linkVars, driverVars, since_rc, resets>>

\* Mutant: a permission that is withdrawn does not disarm.
FrameDisarm_Never ==
  /\ iopc = "disarm"
  /\ iopc' = "idle" /\ ticked' = FALSE
  /\ UNCHANGED <<stateVars, mixerVars, arm_counter, linkVars, driverVars, history, resets>>

FrameDisarm ==
  /\ iopc = "disarm"
  /\ armed' = (armed /\ arm_ok)
  /\ iopc' = "idle" /\ ticked' = FALSE
  /\ UNCHANGED <<arm_ok, rc_channels, mixer_use_fmu, fmu_data_received, fmu_report_due,
                 mixerVars, arm_counter, linkVars, driverVars, history, resets>>

-----------------------------------------------------------------------------
(* The driver: other tasks' ioctls and its own task.                       *)

\* PWM_SERVO_ARM and PWM_SERVO_DISARM.
ioctl(ok) ==
  /\ next_arm_ok' = ok
  /\ UNCHANGED <<ticked, stateVars, mixerVars, arm_counter, iopc, linkVars, _armed,
                 history, resets>>

\* The command of the moment, put on the link: io_send.
io_send == toIO' \in Sent(toIO, next_arm_ok)

\* A round of task_main after poll has found bytes: io_recv reads all that have arrived,
\* rx_callback takes each report and sets _send_needed, and a command is sent.
ReportsArrive ==
  \E n \in 1..Len(toFMU) :
    /\ _armed' = toFMU[n] /\ toFMU' = SubSeq(toFMU, n + 1, Len(toFMU))
    /\ io_send
    /\ UNCHANGED <<ticked, stateVars, mixerVars, arm_counter, iopc, next_arm_ok, history, resets>>

\* A round after 100 ms without a byte (a report may be on its way).
PollTimeout ==
  /\ io_send
  /\ UNCHANGED <<ticked, stateVars, mixerVars, arm_counter, iopc, toFMU, driverVars, history, resets>>

-----------------------------------------------------------------------------
(* Restarts.                                                               *)

\* The FMU restarts: a new PX4IO object, whose command is uninitialised.
FmuRestart ==
  /\ resets < MaxResets /\ resets' = resets + 1
  /\ next_arm_ok' \in BOOLEAN
  /\ _armed' = FALSE
  /\ UNCHANGED <<ticked, stateVars, mixerVars, arm_counter, iopc, linkVars, history>>

\* The IO board restarts: its memory is cleared and the servos are off.
IoRestart ==
  /\ resets < MaxResets /\ resets' = resets + 1
  /\ armed' = FALSE /\ arm_ok' = FALSE /\ rc_channels' = FALSE
  /\ mixer_use_fmu' = FALSE /\ fmu_data_received' = FALSE /\ fmu_report_due' = FALSE
  /\ fmu_input_drops' = 0 /\ mixer_input_drops' = 0 /\ mixer_servos_armed' = FALSE
  /\ arm_counter' = 0 /\ iopc' = "idle" /\ ticked' = FALSE
  /\ since_command' = CommandCap /\ since_rc' = RcCap
  /\ unused' = 0
  /\ UNCHANGED <<linkVars, driverVars>>

-----------------------------------------------------------------------------
MainLoop == ReportSend \/ FrameUse \/ FrameReceived \/ FrameDisarm

Driver == ReportsArrive \/ PollTimeout

Next ==
  \/ \E got \in BOOLEAN : mixer_tick(got)
  \/ \E pressed \in BOOLEAN : safety_check_button(pressed)
  \/ FrameArm \/ MainLoop \/ Driver
  \/ \E ok \in BOOLEAN : ioctl(ok)
  \/ FmuRestart \/ IoRestart

Spec == Init /\ [][Next]_vars

(***************************************************************************)
(* Fairness: the timer ticks; both loops go round, so that the main loop   *)
(* comes to its report again after 100 ms (commands arrive more slowly than *)
(* it handles them); a link that keeps carrying frames delivers one now and *)
(* then.                                                                   *)
(***************************************************************************)
Fairness ==
  /\ WF_vars(\E got \in BOOLEAN : mixer_tick(got))
  /\ WF_vars(MainLoop) /\ SF_vars(FrameArm)
  /\ WF_vars(ReportsArrive)
  /\ SF_vars(Driver /\ toIO' # toIO) /\ SF_vars(ReportSend /\ toFMU' # toFMU)

FairSpec == Spec /\ Fairness

-----------------------------------------------------------------------------
(***************************************************************************)
(* Type correctness; in particular fmu_input_drops, which nothing stops    *)
(* from counting, goes past its limit by one at most.                      *)
(***************************************************************************)
TypeOK ==
  /\ armed \in BOOLEAN /\ arm_ok \in BOOLEAN /\ rc_channels \in BOOLEAN
  /\ mixer_use_fmu \in BOOLEAN /\ fmu_data_received \in BOOLEAN /\ fmu_report_due \in BOOLEAN
  /\ fmu_input_drops \in 0..(FMU_INPUT_DROP_LIMIT + 1)
  /\ mixer_input_drops \in 0..MIXER_INPUT_DROP_LIMIT /\ mixer_servos_armed \in BOOLEAN
  /\ arm_counter \in 0..(ARM_COUNTER_THRESHOLD + 1)
  /\ iopc \in {"idle", "use", "received", "disarm"} /\ ticked \in BOOLEAN
  /\ toIO \in Seq(BOOLEAN) /\ Len(toIO) <= LinkCapacity
  /\ toFMU \in Seq(BOOLEAN) /\ Len(toFMU) <= LinkCapacity
  /\ next_arm_ok \in BOOLEAN /\ _armed \in BOOLEAN
  /\ since_command \in 0..CommandCap /\ since_rc \in 0..RcCap
  /\ unused \in 0..2 /\ resets \in 0..MaxResets

(***************************************************************************)
(* The vehicle is armed only while the FMU allows it; a permission that is *)
(* withdrawn is noticed before the handling of its command is over,        *)
(* whatever the button does meanwhile (safety.c: "Ignore the button if FMU *)
(* has not said it's OK to arm yet").                                      *)
(***************************************************************************)
ArmedIsPermitted == armed => arm_ok \/ Handling

(***************************************************************************)
(* No stale control: the mixer never drives armed servos when neither the  *)
(* FMU nor the RC receiver has been heard for longer than the drop limits  *)
(* allow, however frames and ticks interleave (mixer.c: "too many frames   *)
(* without FMU input, time to go to failsafe").                            *)
(***************************************************************************)
FailsafeDisarms ==
  mixer_servos_armed =>
    \/ since_command <= FMU_INPUT_DROP_LIMIT + 1 \/ Handling
    \/ since_rc < MIXER_INPUT_DROP_LIMIT

(***************************************************************************)
(* FMU control is given up only after more than the limit of ticks without *)
(* a complete command, wherever in a command's handling the ticks fall and *)
(* whatever an earlier outage left in the counter.                         *)
(***************************************************************************)
FailoverIsDeserved ==
  [][mixer_use_fmu /\ ~mixer_use_fmu' =>
       since_command' > FMU_INPUT_DROP_LIMIT \/ resets' # resets]_vars

(***************************************************************************)
(* A tick between the two assignments of the first command after an outage *)
(* may make the mixer ignore that command, but never the next one too.     *)
(***************************************************************************)
SecondCommandIsUsed == unused <= 1

(***************************************************************************)
(* If the FMU withdraws its permission for good, the servos are disarmed   *)
(* for good, over a link that loses frames.                                *)
(***************************************************************************)
DisarmReachesServos == <>[](~next_arm_ok) => <>[](~mixer_servos_armed)

(***************************************************************************)
(* The FMU learns whether the IO board is armed once that stops changing,  *)
(* although no report is repeated for being lost (comms.c sends one at     *)
(* least every 100 ms).                                                    *)
(***************************************************************************)
ReportCatchesUp ==
  \A v \in BOOLEAN : <>[](armed = v) => <>[](_armed = v)

-----------------------------------------------------------------------------
(***************************************************************************)
(* The parts of the inductive invariant of PX4IOProofs.                    *)
(***************************************************************************)

\* The FMU is in control with too many drops only inside a command's handling or with
\* its data waiting; one drop more has been counted only in that window.
DropInv ==
  /\ mixer_use_fmu /\ fmu_input_drops >= FMU_INPUT_DROP_LIMIT =>
       iopc = "received" \/ fmu_data_received
  /\ fmu_input_drops > FMU_INPUT_DROP_LIMIT =>
       fmu_data_received \/ (iopc = "received" /\ ticked)

\* The drops counted, against the ticks since the last complete command.
CommandInv ==
  /\ ~fmu_data_received => since_command > fmu_input_drops
  /\ mixer_use_fmu /\ iopc # "received" =>
       since_command <= (IF fmu_data_received THEN 0 ELSE fmu_input_drops + 1)
  /\ iopc = "disarm" => since_command <= (IF ticked THEN 1 ELSE 0)

\* The RC channels in use are as old as the drops counted.
RcInv ==
  rc_channels => since_rc = mixer_input_drops /\ since_rc < MIXER_INPUT_DROP_LIMIT

\* A command that was not used is still waiting when the next one comes.
UnusedInv ==
  unused = 0 \/ /\ unused = 1
                /\ \/ ~mixer_use_fmu /\ fmu_data_received /\ iopc # "received"
                   \/ iopc = "received" /\ mixer_use_fmu /\ (fmu_data_received \/ ticked)

IInv ==
  TypeOK /\ ArmedIsPermitted /\ DropInv /\ CommandInv /\ RcInv /\ UnusedInv /\ FailsafeDisarms
=============================================================================
