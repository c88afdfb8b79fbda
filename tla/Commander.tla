----------------------------- MODULE Commander -----------------------------
(***************************************************************************)
(* The commander application (src/apps/commander): the vehicle state       *)
(* machine and the two threads that drive it through one unlocked          *)
(* vehicle_status_s.                                                       *)
(*                                                                         *)
(* The main loop has priority 205 and the command thread the pthread       *)
(* default, 100: an iteration of the main loop is one step, and it may     *)
(* come between any two steps of the command thread, each of which is one  *)
(* test or one assignment of the shared record.                            *)
(*                                                                         *)
(* Of the status record the model keeps the state, the flags that guard a  *)
(* transition or decide what is published on actuator_armed, and the       *)
(* calibration flags.  What the main loop finds in sp_man and sp_offboard  *)
(* is "fresh", "old" (the code's lost), or "none": never received, or an   *)
(* RC glitch of less than a second, which only warns.                      *)
(***************************************************************************)
EXTENDS Integers, Sequences

CONSTANTS
  StickLimit,       \* STICK_ON_OFF_COUNTER_LIMIT, 20 in the code
  LowLimit,         \* LOW_VOLTAGE_BATTERY_COUNTER_LIMIT, 20 in the code
  CriticalLimit,    \* CRITICAL_VOLTAGE_BATTERY_COUNTER_LIMIT, 2 in the code
  Batteries,        \* what the battery may look like: "ok", "low", "critical"
  Modes,            \* the modes the pilot's switch may select
  PublishEvery,     \* iterations between publications, 20 in the code
  Calibrations,     \* the calibrations one command may ask for, in order
  MaxCommands       \* bound on the commands explored

Sensors == {"gyro", "mag", "accel"}

ASSUME CommanderAssumption ==
  /\ StickLimit \in Nat /\ LowLimit \in Nat /\ CriticalLimit \in Nat
  /\ PublishEvery \in Nat \ {0, 1} /\ MaxCommands \in Nat
  /\ Batteries \subseteq {"ok", "low", "critical"}
  /\ Modes \subseteq {"MANUAL", "STABILIZED", "AUTO"}
  /\ Calibrations \subseteq Seq(Sensors)

VARIABLES
  current_status,   \* the shared vehicle_status_s
  actuator_armed,   \* what is published on that topic
  locals,           \* the main loop's counters
  cmd,              \* the command thread: where it is and its locals
  commands          \* commands received so far

vars == <<current_status, actuator_armed, locals, cmd, commands>>

States ==
  {"PREFLIGHT", "STANDBY", "GROUND_READY", "MANUAL", "STABILIZED", "AUTO",
   "MISSION_ABORT", "EMCY_LANDING", "EMCY_CUTOFF", "GROUND_ERROR", "REBOOT"}

\* What an iteration may find in sp_man and in sp_offboard.
Manual ==
  [age : {"fresh"}, stick : {"left", "right", "centre"},
   mode : Modes] \cup [age : {"old", "none"}]

Offboard ==
  [age : {"fresh"}, armed : BOOLEAN, changed : BOOLEAN] \cup [age : {"old", "none"}]

ModeFlags == {"SAFETY_ARMED", "HIL_ENABLED"}

\* What commander_thread_main sets up before the threads run.
InitialStatus ==
  [state_machine |-> "PREFLIGHT", flag_system_armed |-> FALSE,
   flag_hil_enabled |-> FALSE,
   rc_signal_found_once |-> FALSE, rc_signal_lost |-> TRUE,
   offboard_control_signal_found_once |-> FALSE,
   offboard_control_signal_lost |-> TRUE, calibrating |-> {}]

InitialLocals ==
  [low_voltage_counter |-> 0, critical_voltage_counter |-> 0, low_done |-> FALSE,
   critical_done |-> FALSE, stick_off_counter |-> 0, stick_on_counter |-> 0,
   counter |-> 0, state_changed |-> TRUE]

Unpublished == [armed |-> FALSE, lockdown |-> FALSE]

InitialCmd ==
  [pc |-> "idle", mode |-> {}, todo |-> << >>, new_state |-> "PREFLIGHT",
   old_state |-> "PREFLIGHT", invalid |-> FALSE, next |-> "idle", armed |-> Unpublished]

Init ==
  /\ current_status = InitialStatus
  /\ actuator_armed = Unpublished
  /\ locals = InitialLocals
  /\ cmd = InitialCmd
  /\ commands = 0

-----------------------------------------------------------------------------
(***************************************************************************)
(* state_machine_helper.c, as functions of the status record.              *)
(***************************************************************************)

\* PREFLIGHT and REBOOT are accepted on the ground only.
InvalidTransition(s, new) ==
  new \in {"PREFLIGHT", "REBOOT"} /\ s.state_machine \notin {"STANDBY", "PREFLIGHT"}

\* The states in which the actuators are armed.
Arms(new) ==
  new \in {"GROUND_READY", "MANUAL", "STABILIZED", "AUTO", "EMCY_LANDING", "MISSION_ABORT"}

\* The switch of do_state_update: what it does to flag_system_armed.
ArmedFlag(s, new) ==
  IF InvalidTransition(s, new) THEN s.flag_system_armed ELSE Arms(new)

\* The state is assigned unless the transition is refused and changes nothing.
Commits(invalid, old, new) == ~invalid \/ old # new

\* Mutant: HIL does not lock the actuators.
ArmedStatus_NoHil(s) ==
  [armed    |-> s.flag_system_armed,
   lockdown |-> s.rc_signal_lost /\ s.offboard_control_signal_lost]

\* publish_armed_status: the contents of actuator_armed_s.
ArmedStatus(s) ==
  [armed    |-> s.flag_system_armed,
   lockdown |-> (s.rc_signal_lost /\ s.offboard_control_signal_lost) \/ s.flag_hil_enabled]

(***************************************************************************)
(* publish_armed_status advertises anew each time: when it finds the       *)
(* command thread between open and close of the same topic, orb_advertise  *)
(* fails and nothing is published.                                         *)
(***************************************************************************)
Advertising == cmd.pc = "advertise"

publish_armed_status(m) ==
  IF Advertising THEN m ELSE [m EXCEPT !.pub = ArmedStatus(m.s)]

\* do_state_update in the main loop, where nobody interferes.
do_state_update(m, new) ==
  LET t == [m.s EXCEPT !.flag_system_armed = ArmedFlag(m.s, new)]
  IN  IF Commits(InvalidTransition(m.s, new), m.s.state_machine, new)
      THEN publish_armed_status([m EXCEPT !.s = [t EXCEPT !.state_machine = new]])
      ELSE [m EXCEPT !.s = t]

state_machine_emergency(m) ==
  IF m.s.state_machine \in {"PREFLIGHT", "STANDBY", "GROUND_READY"}
  THEN do_state_update(m, "GROUND_ERROR")
  ELSE IF m.s.state_machine = "AUTO" THEN do_state_update(m, "MISSION_ABORT")
  ELSE m

update_state_machine_arm(m) ==
  IF m.s.state_machine = "STANDBY" THEN do_state_update(m, "GROUND_READY") ELSE m

\* Mutant: every state but STANDBY can be left by disarming.
update_state_machine_disarm_Any(m) ==
  IF m.s.state_machine # "STANDBY" THEN do_state_update(m, "STANDBY") ELSE m

update_state_machine_disarm(m) ==
  IF m.s.state_machine \in {"GROUND_READY", "MANUAL", "PREFLIGHT", "STABILIZED", "AUTO"}
  THEN do_state_update(m, "STANDBY") ELSE m

\* update_state_machine_mode_manual, _stabilized and _auto: the same but for the mode.
update_state_machine_mode(m, mode) ==
  IF m.s.state_machine \in {"GROUND_READY", "MANUAL", "STABILIZED", "AUTO"} \ {mode}
  THEN do_state_update(m, mode) ELSE m

-----------------------------------------------------------------------------
(***************************************************************************)
(* One iteration of the main loop, block by block.  Each block maps        *)
(* m = [s |-> the status, l |-> the loop's locals, pub |-> what is         *)
(* published on actuator_armed].                                           *)
(***************************************************************************)
BatteryCheck(m, battery) ==
  LET l == m.l IN
  IF battery # "ok" /\ ~l.low_done
  THEN [m EXCEPT !.l = [l EXCEPT !.low_done = l.low_voltage_counter > LowLimit,
                                 !.low_voltage_counter = @ + 1]]
  ELSE IF battery = "critical" /\ ~l.critical_done
  THEN LET act == l.critical_voltage_counter > CriticalLimit
           n   == [m EXCEPT !.l = [l EXCEPT !.critical_done = act,
                                            !.critical_voltage_counter = @ + 1]]
       IN  IF act THEN state_machine_emergency(n) ELSE n
  ELSE [m EXCEPT !.l = [l EXCEPT !.low_voltage_counter = 0,
                                 !.critical_voltage_counter = 0]]

\* Mutant: the counter goes on while the stick stays in the corner.
StickOff_Counts(m) ==
  LET n == [m EXCEPT !.l = [m.l EXCEPT !.stick_on_counter = 0, !.stick_off_counter = @ + 1]]
  IN  IF m.l.stick_off_counter > StickLimit THEN update_state_machine_disarm(n) ELSE n

\* The stick held in its lower left corner disarms ...
StickOff(m) ==
  LET n == [m EXCEPT !.l = [m.l EXCEPT !.stick_on_counter = 0]]
  IN  IF m.l.stick_off_counter > StickLimit
      THEN update_state_machine_disarm(n)
      ELSE [n EXCEPT !.l = [n.l EXCEPT !.stick_off_counter = @ + 1]]

\* ... and in its lower right corner arms.
StickOn(m) ==
  IF m.l.stick_on_counter > StickLimit
  THEN update_state_machine_arm([m EXCEPT !.l = [m.l EXCEPT !.stick_on_counter = 0]])
  ELSE [m EXCEPT !.l = [m.l EXCEPT !.stick_on_counter = @ + 1, !.stick_off_counter = 0]]

StickCheck(m, stick) ==
  CASE stick = "left"   -> StickOff(m)
    [] stick = "right"  -> StickOn(m)
    [] stick = "centre" -> m

\* A fresh RC setpoint moves the state machine, an old one is a lost signal.
RcFresh(m, man) ==
  LET n == update_state_machine_mode(StickCheck(m, man.stick), man.mode)
  IN  [n EXCEPT !.s = [n.s EXCEPT !.rc_signal_found_once = TRUE,
                                  !.rc_signal_lost = FALSE]]

RcLost(m) ==
  [m EXCEPT !.s = [m.s EXCEPT !.rc_signal_lost = TRUE],
            !.l = [m.l EXCEPT !.state_changed = TRUE]]

\* Mutant: RC signals are not ignored in offboard control mode.
RcCheck_Always(m, man) ==
  CASE man.age = "none"  -> m
    [] man.age = "fresh" -> RcFresh(m, man)
    [] man.age = "old"   -> RcLost(m)

RcCheck(m, man) ==
  IF m.s.offboard_control_signal_found_once \/ man.age = "none" THEN m
  ELSE IF man.age = "fresh" THEN RcFresh(m, man)
  ELSE RcLost(m)

\* Arm and take off, or disarm, as the offboard setpoint says.
OffboardArm(m, armed) ==
  IF armed /\ ~m.s.flag_system_armed
  THEN update_state_machine_mode(update_state_machine_arm(m), "STABILIZED")
  ELSE IF ~armed /\ m.s.flag_system_armed
  THEN update_state_machine_disarm(m)
  ELSE m

(***************************************************************************)
(* off.changed stands for the control flags, which are not kept: the block *)
(* sets state_changed when one of them changes.  When the signal           *)
(* is lost nothing is published at once: failsave_lowlevel_start_time is   *)
(* set anew in every iteration, so that its timeout never expires.         *)
(***************************************************************************)
OffboardCheck(m, off) ==
  IF m.s.rc_signal_found_once \/ off.age = "none" THEN m
  ELSE IF off.age = "fresh"
  THEN LET first == ~m.s.offboard_control_signal_found_once
           s == [m.s EXCEPT
                   !.offboard_control_signal_found_once = TRUE,
                   !.offboard_control_signal_lost = FALSE]
           l == [m.l EXCEPT !.state_changed =
                   @ \/ off.changed \/ first \/ m.s.offboard_control_signal_lost]
       IN  OffboardArm([m EXCEPT !.s = s, !.l = l], off.armed)
  ELSE [m EXCEPT !.s = [m.s EXCEPT !.offboard_control_signal_lost = TRUE]]

\* "If full run came back clean, transition to standby."
StandbyCheck(m) ==
  IF m.s.state_machine = "PREFLIGHT" /\ m.s.calibrating = {}
  THEN do_state_update(m, "STANDBY") ELSE m

\* Mutant: published only when something changed.
PublishCheck_OnChange(m) ==
  LET n == IF m.l.state_changed THEN publish_armed_status(m) ELSE m
  IN  [n EXCEPT !.l = [n.l EXCEPT !.counter = (@ + 1) % PublishEvery,
                                  !.state_changed = FALSE]]

\* "Publish at least with 1 Hz", and at once when something changed.
PublishCheck(m) ==
  LET n == IF m.l.counter = 0 \/ m.l.state_changed THEN publish_armed_status(m) ELSE m
  IN  [n EXCEPT !.l = [n.l EXCEPT !.counter = (@ + 1) % PublishEvery,
                                  !.state_changed = FALSE]]

Iteration(battery, man, off) ==
  LET m0 == [s |-> current_status, l |-> locals, pub |-> actuator_armed]
      m1 == BatteryCheck(m0, battery)
      m2 == RcCheck(m1, man)
      m3 == OffboardCheck(m2, off)
  IN  PublishCheck(StandbyCheck(m3))

MainLoop ==
  /\ \E m \in {Iteration(battery, man, off) :
                battery \in Batteries, man \in Manual, off \in Offboard} :
       current_status' = m.s /\ locals' = m.l /\ actuator_armed' = m.pub
  /\ UNCHANGED <<cmd, commands>>

-----------------------------------------------------------------------------
(***************************************************************************)
(* The command thread.  A command is received when the thread is idle; it  *)
(* is carried out in steps between which the main loop may run.  Locals    *)
(* that are dead have their initial values.                                *)
(***************************************************************************)
Receive ==
  /\ cmd.pc = "idle" /\ commands < MaxCommands
  /\ commands' = commands + 1

\* MAV_CMD_DO_SET_MODE; MAV_CMD_COMPONENT_ARM_DISARM asks for {"SAFETY_ARMED"}, always.
ReceiveMode(mode) ==
  /\ Receive
  /\ cmd' = [cmd EXCEPT !.pc = "arm", !.mode = mode]
  /\ UNCHANGED <<current_status, actuator_armed, locals>>

\* MAV_CMD_PREFLIGHT_CALIBRATION; PX4_CMD_CONTROLLER_SELECTION falls through to it.
ReceiveCalibration(sensors) ==
  /\ Receive
  /\ cmd' = [cmd EXCEPT !.pc = "calibration", !.todo = sensors]
  /\ UNCHANGED <<current_status, actuator_armed, locals>>

\* MAV_CMD_PREFLIGHT_REBOOT_SHUTDOWN.
ReceiveReboot ==
  /\ Receive
  /\ cmd' = [cmd EXCEPT !.pc = "begin", !.new_state = "REBOOT", !.next = "idle"]
  /\ UNCHANGED <<current_status, actuator_armed, locals>>

\* The command thread calls do_state_update and goes on at `next'.
CallUpdate(new, next) == [cmd EXCEPT !.pc = "begin", !.new_state = new, !.next = next]

\* It goes on at pc, with what do_state_update used forgotten.
GoOn(pc) ==
  IF pc = "idle" THEN InitialCmd
  ELSE [InitialCmd EXCEPT !.pc = pc, !.mode = cmd.mode, !.todo = cmd.todo]

(***************************************************************************)
(* do_state_update in the command thread: the old state is read, the       *)
(* transition tested, the flag and then the state assigned; and            *)
(* publish_armed_status, which opens actuator_armed, closes                *)
(* it and publishes (all in orb_advertise) and publishes the same again.   *)
(* An accepted REBOOT goes no further than the flag.                       *)
(***************************************************************************)
UpdateBegin ==
  /\ cmd.pc = "begin"
  /\ cmd' = [cmd EXCEPT !.pc = "switch", !.old_state = current_status.state_machine]
  /\ UNCHANGED <<current_status, actuator_armed, locals, commands>>

UpdateSwitch ==
  /\ cmd.pc = "switch"
  /\ LET invalid == InvalidTransition(current_status, cmd.new_state)
     IN  cmd' = IF Commits(invalid, cmd.old_state, cmd.new_state)
                THEN [cmd EXCEPT !.pc = IF invalid THEN "commit" ELSE "assign",
                                 !.invalid = invalid, !.old_state = "PREFLIGHT"]
                ELSE GoOn(cmd.next)
  /\ UNCHANGED <<current_status, actuator_armed, locals, commands>>

UpdateAssign ==
  /\ cmd.pc = "assign"
  /\ current_status' = [current_status EXCEPT !.flag_system_armed = Arms(cmd.new_state)]
  /\ cmd' = IF cmd.new_state = "REBOOT" THEN [InitialCmd EXCEPT !.pc = "reboot"]
            ELSE [cmd EXCEPT !.pc = "commit"]
  /\ UNCHANGED <<actuator_armed, locals, commands>>

UpdateCommit ==
  /\ cmd.pc = "commit"
  /\ current_status' = [current_status EXCEPT !.state_machine = cmd.new_state]
  /\ cmd' = [cmd EXCEPT !.pc = "open", !.new_state = "PREFLIGHT", !.invalid = FALSE]
  /\ UNCHANGED <<actuator_armed, locals, commands>>

UpdateOpen ==
  /\ cmd.pc = "open"
  /\ cmd' = [cmd EXCEPT !.pc = "advertise", !.armed = ArmedStatus(current_status)]
  /\ UNCHANGED <<current_status, actuator_armed, locals, commands>>

UpdateAdvertise ==
  /\ cmd.pc = "advertise"
  /\ actuator_armed' = cmd.armed
  /\ cmd' = [cmd EXCEPT !.pc = "publish"]
  /\ UNCHANGED <<current_status, locals, commands>>

UpdatePublish ==
  /\ cmd.pc = "publish"
  /\ actuator_armed' = cmd.armed
  /\ cmd' = GoOn(cmd.next)
  /\ UNCHANGED <<current_status, locals, commands>>

\* Half a second later, whatever the main loop did meanwhile, everything starts again.
Reboot ==
  /\ cmd.pc = "reboot"
  /\ current_status' = InitialStatus
  /\ actuator_armed' = Unpublished
  /\ locals' = InitialLocals
  /\ cmd' = InitialCmd
  /\ UNCHANGED commands

(***************************************************************************)
(* update_state_machine_mode_request: arm, disarm and enter HIL, one test  *)
(* after the other.                                                        *)
(***************************************************************************)
RequestArm ==
  /\ cmd.pc = "arm"
  /\ cmd' = IF /\ ~current_status.flag_system_armed /\ "SAFETY_ARMED" \in cmd.mode
               /\ current_status.state_machine \in {"STANDBY", "PREFLIGHT"}
            THEN CallUpdate("GROUND_READY", "disarm")
            ELSE [cmd EXCEPT !.pc = "disarm"]
  /\ UNCHANGED <<current_status, actuator_armed, locals, commands>>

RequestDisarm ==
  /\ cmd.pc = "disarm"
  /\ cmd' = IF /\ current_status.flag_system_armed /\ "SAFETY_ARMED" \notin cmd.mode
               /\ current_status.state_machine = "GROUND_READY"
            THEN CallUpdate("STANDBY", "hil")
            ELSE [cmd EXCEPT !.pc = "hil"]
  /\ UNCHANGED <<current_status, actuator_armed, locals, commands>>

RequestHil ==
  /\ cmd.pc = "hil"
  /\ IF /\ current_status.state_machine = "STANDBY" /\ "HIL_ENABLED" \in cmd.mode
        /\ ~current_status.flag_hil_enabled
     THEN /\ current_status' = [current_status EXCEPT !.flag_hil_enabled = TRUE]
          /\ cmd' = [cmd EXCEPT !.pc = "open", !.next = "idle"]
     ELSE /\ cmd' = InitialCmd
          /\ UNCHANGED current_status
  /\ UNCHANGED <<actuator_armed, locals, commands>>

(***************************************************************************)
(* The calibrations of one command, one after the other: go to PREFLIGHT,  *)
(* look whether that worked, calibrate, go to STANDBY.  A gyro or accel    *)
(* calibration that is aborted leaves its flag set.                        *)
(***************************************************************************)
CalibrationStart ==
  /\ cmd.pc = "calibration"
  /\ cmd' = IF cmd.todo = << >> THEN InitialCmd
            ELSE CallUpdate("PREFLIGHT", "check")
  /\ UNCHANGED <<current_status, actuator_armed, locals, commands>>

CalibrationCheck ==
  /\ cmd.pc = "check"
  /\ cmd' = IF current_status.state_machine = "PREFLIGHT"
            THEN [cmd EXCEPT !.pc = "flag"]
            ELSE [cmd EXCEPT !.pc = "calibration", !.todo = Tail(cmd.todo)]
  /\ UNCHANGED <<current_status, actuator_armed, locals, commands>>

CalibrationFlag ==
  /\ cmd.pc = "flag"
  /\ current_status' = [current_status EXCEPT !.calibrating = @ \cup {Head(cmd.todo)}]
  /\ cmd' = [cmd EXCEPT !.pc = "calibrate"]
  /\ UNCHANGED <<actuator_armed, locals, commands>>

CalibrationEnds ==
  /\ cmd.pc = "calibrate"
  /\ \/ current_status' = [current_status EXCEPT !.calibrating = @ \ {Head(cmd.todo)}]
     \/ Head(cmd.todo) # "mag" /\ UNCHANGED current_status
  /\ cmd' = [CallUpdate("STANDBY", "calibration") EXCEPT !.todo = Tail(@)]
  /\ UNCHANGED <<actuator_armed, locals, commands>>

CommandSteps ==
  \/ UpdateBegin \/ UpdateSwitch \/ UpdateAssign \/ UpdateCommit
  \/ UpdateOpen \/ UpdateAdvertise \/ UpdatePublish \/ Reboot
  \/ RequestArm \/ RequestDisarm \/ RequestHil
  \/ CalibrationStart \/ CalibrationCheck \/ CalibrationFlag \/ CalibrationEnds

Next ==
  \/ MainLoop
  \/ \E mode \in SUBSET ModeFlags : ReceiveMode(mode)
  \/ \E sensors \in Calibrations : ReceiveCalibration(sensors)
  \/ ReceiveReboot
  \/ CommandSteps

Spec == Init /\ [][Next]_vars

(***************************************************************************)
(* Fairness: the main loop, which is never blocked, never stops, so that   *)
(* its counter keeps going round; and the command thread finishes what it  *)
(* has begun.  Nobody is obliged to send a command.                        *)
(***************************************************************************)
Fairness ==
  /\ []<>(locals.counter = 0) /\ []<>(locals.counter # 0)
  /\ WF_vars(CommandSteps)

FairSpec == Spec /\ Fairness

-----------------------------------------------------------------------------
Counters(limit) == 0..(limit + 2)

\* What the model keeps of vehicle_status_s, actuator_armed_s, the variables of the
\* main loop, and the command thread.
Status ==
  [state_machine : States, flag_system_armed : BOOLEAN, flag_hil_enabled : BOOLEAN,
   rc_signal_found_once : BOOLEAN, rc_signal_lost : BOOLEAN,
   offboard_control_signal_found_once : BOOLEAN,
   offboard_control_signal_lost : BOOLEAN, calibrating : SUBSET Sensors]

Armed == [armed : BOOLEAN, lockdown : BOOLEAN]

Locals ==
  [low_voltage_counter : Counters(LowLimit), low_done : BOOLEAN,
   critical_voltage_counter : Counters(CriticalLimit), critical_done : BOOLEAN,
   stick_off_counter : Counters(StickLimit), stick_on_counter : Counters(StickLimit),
   counter : 0..(PublishEvery - 1), state_changed : BOOLEAN]

Labels ==
  {"idle", "arm", "disarm", "hil", "calibration", "check", "flag", "calibrate",
   "begin", "switch", "assign", "commit", "open", "advertise", "publish", "reboot"}

Cmd ==
  [pc : Labels, mode : SUBSET ModeFlags, todo : Seq(Sensors), new_state : States,
   old_state : States, invalid : BOOLEAN,
   next : {"idle", "disarm", "hil", "check", "calibration"}, armed : Armed]

\* Type correctness; in particular, the loop's hysteresis counters stop just
\* above their limits.
TypeOK ==
  /\ current_status \in Status /\ actuator_armed \in Armed
  /\ locals \in Locals /\ cmd \in Cmd
  /\ commands \in 0..MaxCommands

(***************************************************************************)
(* There is one source of control: an RC signal and an offboard signal are *)
(* never both in command ("ignore RC signals if in offboard control        *)
(* mode"), whichever appears first and in whatever order they come and go. *)
(***************************************************************************)
ControlSourceExclusive ==
  ~(current_status.rc_signal_found_once /\ current_status.offboard_control_signal_found_once)

(***************************************************************************)
(* HIL locks the actuators until the next reboot ("Arming the system will  *)
(* not activate them while in HIL mode"): once the request has been        *)
(* carried out, no publication of either thread, however stale, unlocks.   *)
(***************************************************************************)
HilLocksDown ==
  current_status.flag_hil_enabled =>
    \/ actuator_armed.lockdown
    \/ "HIL_ENABLED" \in cmd.mode /\ cmd.next = "idle" /\ cmd.pc \in {"open", "advertise"}

(***************************************************************************)
(* The pilot cannot talk the vehicle out of an emergency: no step of the   *)
(* main loop (stick, mode switch, offboard setpoint, standby check) leaves *)
(* MISSION_ABORT or GROUND_ERROR.                                          *)
(***************************************************************************)
EmergencyIsFinal ==
  [][cmd' = cmd /\ current_status.state_machine \in {"MISSION_ABORT", "GROUND_ERROR"}
     => current_status'.state_machine = current_status.state_machine]_vars

(***************************************************************************)
(* What the actuators are told catches up with the status: a publication   *)
(* that was lost, overtaken or never made is made good by a later one.     *)
(***************************************************************************)
PublicationCatchesUp ==
  actuator_armed # ArmedStatus(current_status) ~> actuator_armed = ArmedStatus(current_status)

(***************************************************************************)
(* "Standby enforces disarmed": when no command is being carried out, the  *)
(* vehicle is not armed in STANDBY.                                        *)
(***************************************************************************)
StandbyDisarmed ==
  cmd.pc = "idle" /\ current_status.state_machine = "STANDBY"
    => ~current_status.flag_system_armed

-----------------------------------------------------------------------------
(***************************************************************************)
(* The parts of the inductive invariant of CommanderProofs.                *)
(***************************************************************************)

\* A warning that has not been given is at most one above its limit.
CountInv ==
  /\ ~locals.low_done => locals.low_voltage_counter <= LowLimit + 1
  /\ ~locals.critical_done => locals.critical_voltage_counter <= CriticalLimit + 1
  /\ locals.stick_off_counter <= StickLimit + 1
  /\ locals.stick_on_counter <= StickLimit + 1

\* The command thread is inside do_state_update.
Updating ==
  cmd.pc \in {"begin", "switch", "assign", "commit", "open", "advertise", "publish"}

\* A calibration that is under way, or waits for its transition, is still to be done.
TodoInv ==
  \/ cmd.pc \in {"check", "flag", "calibrate"}
  \/ Updating /\ cmd.next = "check"
  => cmd.todo # << >>

\* What the command thread is about to publish locks the actuators when HIL is on.
StaleInv ==
  current_status.flag_hil_enabled /\ cmd.pc \in {"advertise", "publish"} => cmd.armed.lockdown

IInv == TypeOK /\ CountInv /\ TodoInv /\ ControlSourceExclusive /\ HilLocksDown /\ StaleInv
=============================================================================
