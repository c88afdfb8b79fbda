-------------------------- MODULE CommanderProofs --------------------------
(***************************************************************************)
(* Proofs that the safety properties of the commander hold for every       *)
(* hysteresis limit, publication interval, list of calibrations and number *)
(* of commands.  An iteration of the main loop is a composition of blocks; *)
(* each block is shown to keep what the invariant says of the loop.        *)
(***************************************************************************)
EXTENDS Commander, TLAPS

\* What a block of the main loop works on, with the bounds of CountInv.
Loops ==
  {m \in [s : Status, l : Locals, pub : Armed] :
     /\ ~m.l.low_done => m.l.low_voltage_counter <= LowLimit + 1
     /\ ~m.l.critical_done => m.l.critical_voltage_counter <= CriticalLimit + 1
     /\ m.l.stick_off_counter <= StickLimit + 1
     /\ m.l.stick_on_counter <= StickLimit + 1}

Emergencies == {"MISSION_ABORT", "GROUND_ERROR"}

Exclusive(s) == ~(s.rc_signal_found_once /\ s.offboard_control_signal_found_once)

\* What every block of the main loop keeps, from m to n.
Safe(m, n) ==
  /\ n \in Loops
  /\ n.s.flag_hil_enabled = m.s.flag_hil_enabled
  /\ m.s.flag_hil_enabled /\ m.pub.lockdown => n.pub.lockdown
  /\ m.s.state_machine \in Emergencies => n.s.state_machine = m.s.state_machine
  /\ Exclusive(m.s) => Exclusive(n.s)

\* What a transition keeps besides: which signals have been found.
Keeps(m, n) ==
  /\ Safe(m, n)
  /\ n.s.rc_signal_found_once = m.s.rc_signal_found_once
  /\ n.s.offboard_control_signal_found_once = m.s.offboard_control_signal_found_once

-----------------------------------------------------------------------------
\* Blocks compose.
LEMMA SafeTrans ==
  ASSUME NEW m, NEW n, NEW o, Safe(m, n), Safe(n, o)
  PROVE  Safe(m, o)
BY DEF Safe

\* Transitions compose.
LEMMA KeepsTrans ==
  ASSUME NEW m, NEW n, NEW o, Keeps(m, n), Keeps(n, o)
  PROVE  Keeps(m, o)
BY SafeTrans DEF Keeps

\* A block that does nothing.
LEMMA KeepsRefl ==
  ASSUME NEW m \in Loops
  PROVE  Keeps(m, m)
BY DEF Keeps, Safe

\* The record of a loop, field by field.
LEMMA LoopsFields ==
  ASSUME NEW m \in Loops
  PROVE  /\ m.s \in Status /\ m.l \in Locals /\ m.pub \in Armed
         /\ m = [s |-> m.s, l |-> m.l, pub |-> m.pub]
BY DEF Loops

\* Replacing the status, or the locals, of a loop.
LEMMA LoopsStatus ==
  ASSUME NEW m \in Loops, NEW t \in Status
  PROVE  /\ [m EXCEPT !.s = t] \in Loops
         /\ [m EXCEPT !.s = t].s = t
         /\ [m EXCEPT !.s = t].l = m.l
         /\ [m EXCEPT !.s = t].pub = m.pub
BY DEF Loops

\* Replacing what a loop has published.
LEMMA LoopsPub ==
  ASSUME NEW m \in Loops, NEW p \in Armed
  PROVE  /\ [m EXCEPT !.pub = p] \in Loops
         /\ [m EXCEPT !.pub = p].s = m.s
         /\ [m EXCEPT !.pub = p].l = m.l
         /\ [m EXCEPT !.pub = p].pub = p
BY DEF Loops

\* What is published is well formed, and locked under HIL.
LEMMA ArmedStatusLocks ==
  ASSUME NEW t \in Status
  PROVE  /\ ArmedStatus(t) \in Armed
         /\ t.flag_hil_enabled => ArmedStatus(t).lockdown
BY DEF ArmedStatus, Armed, Status

\* publish_armed_status in the main loop: it publishes, or finds the topic taken.
LEMMA PublishKeeps ==
  ASSUME NEW m \in Loops
  PROVE  /\ Keeps(m, publish_armed_status(m))
         /\ publish_armed_status(m).s = m.s
         /\ publish_armed_status(m).l = m.l
<1>1. ArmedStatus(m.s) \in Armed /\ (m.s.flag_hil_enabled => ArmedStatus(m.s).lockdown)
  BY LoopsFields, ArmedStatusLocks
<1>2. CASE Advertising
  BY <1>2, KeepsRefl DEF publish_armed_status
<1>3. CASE ~Advertising
  <2>1. publish_armed_status(m) = [m EXCEPT !.pub = ArmedStatus(m.s)]
    BY <1>3 DEF publish_armed_status
  <2> QED
    BY <1>1, <2>1, LoopsPub DEF Keeps, Safe
<1> QED
  BY <1>2, <1>3

\* A transition leaves a proper armed flag.
LEMMA ArmedFlagType ==
  ASSUME NEW t \in Status, NEW new \in States
  PROVE  ArmedFlag(t, new) \in BOOLEAN
<1>1. t.flag_system_armed \in BOOLEAN
  BY DEF Status
<1>2. CASE InvalidTransition(t, new)
  BY <1>1, <1>2 DEF ArmedFlag
<1>3. CASE ~InvalidTransition(t, new)
  BY <1>3 DEF ArmedFlag, Arms
<1> QED
  BY <1>2, <1>3

\* do_state_update, called in a state that may be left.
LEMMA UpdateKeeps ==
  ASSUME NEW m \in Loops, NEW new \in States, m.s.state_machine \notin Emergencies
  PROVE  /\ Keeps(m, do_state_update(m, new))
         /\ do_state_update(m, new).l = m.l
<1> DEFINE t == [m.s EXCEPT !.flag_system_armed = ArmedFlag(m.s, new)]
           u == [t EXCEPT !.state_machine = new]
<1>1. m.s \in Status
  BY LoopsFields
<1>2. ArmedFlag(m.s, new) \in BOOLEAN
  BY <1>1, ArmedFlagType
<1>3. /\ t \in Status /\ t.flag_hil_enabled = m.s.flag_hil_enabled
      /\ t.rc_signal_found_once = m.s.rc_signal_found_once
      /\ t.offboard_control_signal_found_once = m.s.offboard_control_signal_found_once
      /\ Exclusive(m.s) => Exclusive(t)
  BY <1>1, <1>2 DEF Status, Exclusive
<1>4. /\ u \in Status /\ u.flag_hil_enabled = m.s.flag_hil_enabled
      /\ u.rc_signal_found_once = m.s.rc_signal_found_once
      /\ u.offboard_control_signal_found_once = m.s.offboard_control_signal_found_once
      /\ Exclusive(m.s) => Exclusive(u)
  BY <1>3 DEF Status, Exclusive
<1> HIDE DEF t, u
<1>5. CASE Commits(InvalidTransition(m.s, new), m.s.state_machine, new)
  <2> DEFINE n == [m EXCEPT !.s = u]
  <2>1. n \in Loops /\ n.s = u /\ n.l = m.l /\ n.pub = m.pub
    BY <1>4, LoopsStatus
  <2>2. do_state_update(m, new) = publish_armed_status(n)
    BY <1>5 DEF do_state_update, t, u
  <2>3. Keeps(m, n)
    BY <2>1, <1>4 DEF Keeps, Safe
  <2> HIDE DEF n
  <2> QED
    BY <2>1, <2>2, <2>3, PublishKeeps, KeepsTrans
<1>6. CASE ~Commits(InvalidTransition(m.s, new), m.s.state_machine, new)
  <2>1. do_state_update(m, new) = [m EXCEPT !.s = t]
    BY <1>6 DEF do_state_update, t
  <2> QED
    BY <2>1, <1>3, LoopsStatus DEF Keeps, Safe
<1> QED
  BY <1>5, <1>6

-----------------------------------------------------------------------------
\* The callers of do_state_update; none of them calls it in an emergency.
LEMMA TransitionsKeep ==
  ASSUME NEW m \in Loops
  PROVE  /\ Keeps(m, state_machine_emergency(m))
         /\ Keeps(m, update_state_machine_arm(m))
         /\ Keeps(m, update_state_machine_disarm(m))
         /\ \A mode \in Modes \cup {"STABILIZED"} :
              Keeps(m, update_state_machine_mode(m, mode))
<1>1. \A new \in States : m.s.state_machine \notin Emergencies => Keeps(m, do_state_update(m, new))
  BY UpdateKeeps
<1>2. Keeps(m, m)
  BY KeepsRefl
<1>3. Keeps(m, state_machine_emergency(m))
  BY <1>1, <1>2 DEF state_machine_emergency, Emergencies, States
<1>4. Keeps(m, update_state_machine_arm(m))
  BY <1>1, <1>2 DEF update_state_machine_arm, Emergencies, States
<1>5. Keeps(m, update_state_machine_disarm(m))
  BY <1>1, <1>2 DEF update_state_machine_disarm, Emergencies, States
<1>6. ASSUME NEW mode \in Modes \cup {"STABILIZED"}
      PROVE  Keeps(m, update_state_machine_mode(m, mode))
  <2>1. mode \in States
    BY CommanderAssumption DEF States
  <2> QED
    BY <1>1, <1>2, <2>1 DEF update_state_machine_mode, Emergencies
<1> QED
  BY <1>3, <1>4, <1>5, <1>6

\* A block that changes only counters and the mark of a change.
LEMMA LocalsKeep ==
  ASSUME NEW m \in Loops, NEW l \in Locals,
         ~l.low_done => l.low_voltage_counter <= LowLimit + 1,
         ~l.critical_done => l.critical_voltage_counter <= CriticalLimit + 1,
         l.stick_off_counter <= StickLimit + 1,
         l.stick_on_counter <= StickLimit + 1
  PROVE  /\ Keeps(m, [m EXCEPT !.l = l])
         /\ [m EXCEPT !.l = l] \in Loops
         /\ [m EXCEPT !.l = l].s = m.s
         /\ [m EXCEPT !.l = l].l = l
         /\ [m EXCEPT !.l = l].pub = m.pub
<1> DEFINE n == [m EXCEPT !.l = l]
<1>1. n \in Loops /\ n.s = m.s /\ n.l = l /\ n.pub = m.pub
  BY DEF Loops
<1> HIDE DEF n
<1>2. Keeps(m, n)
  BY <1>1 DEF Keeps, Safe
<1> QED
  BY <1>1, <1>2 DEF n

\* The bounds of a loop's counters.
LEMMA LoopsCounters ==
  ASSUME NEW m \in Loops
  PROVE  /\ m.l.low_voltage_counter \in Nat /\ m.l.critical_voltage_counter \in Nat
         /\ m.l.stick_off_counter \in 0..(StickLimit + 1)
         /\ m.l.stick_on_counter \in 0..(StickLimit + 1)
         /\ m.l.low_voltage_counter <= LowLimit + 2
         /\ m.l.critical_voltage_counter <= CriticalLimit + 2
         /\ ~m.l.low_done => m.l.low_voltage_counter <= LowLimit + 1
         /\ ~m.l.critical_done => m.l.critical_voltage_counter <= CriticalLimit + 1
BY CommanderAssumption DEF Loops, Locals, Counters

\* The battery block; a warning that has been given stops its counter.
LEMMA BatteryKeeps ==
  ASSUME NEW m \in Loops, NEW battery \in Batteries
  PROVE  Keeps(m, BatteryCheck(m, battery))
<1>1. m.l \in Locals
  BY LoopsFields
<1>2. CASE battery # "ok" /\ ~m.l.low_done
  <2> DEFINE l == [m.l EXCEPT !.low_done = m.l.low_voltage_counter > LowLimit,
                              !.low_voltage_counter = @ + 1]
  <2>1. /\ l \in Locals /\ (~l.low_done => l.low_voltage_counter <= LowLimit + 1)
        /\ l.critical_done = m.l.critical_done
        /\ l.critical_voltage_counter = m.l.critical_voltage_counter
        /\ l.stick_off_counter = m.l.stick_off_counter
        /\ l.stick_on_counter = m.l.stick_on_counter
    <3>1. /\ m.l.low_voltage_counter + 1 \in Counters(LowLimit)
          /\ (m.l.low_voltage_counter > LowLimit) \in BOOLEAN
          /\ ~(m.l.low_voltage_counter > LowLimit) => m.l.low_voltage_counter + 1 <= LowLimit + 1
      BY <1>2, LoopsCounters, CommanderAssumption DEF Counters
    <3> QED
      BY <1>1, <3>1 DEF Locals
  <2>2. BatteryCheck(m, battery) = [m EXCEPT !.l = l]
    BY <1>2 DEF BatteryCheck
  <2> HIDE DEF l
  <2> QED
    BY <2>1, <2>2, LoopsCounters, LocalsKeep
<1>3. CASE ~(battery # "ok" /\ ~m.l.low_done) /\ battery = "critical" /\ ~m.l.critical_done
  <2> DEFINE act == m.l.critical_voltage_counter > CriticalLimit
             l == [m.l EXCEPT !.critical_done = act, !.critical_voltage_counter = @ + 1]
             n == [m EXCEPT !.l = l]
  <2>1. /\ l \in Locals /\ (~l.critical_done => l.critical_voltage_counter <= CriticalLimit + 1)
        /\ l.low_done = m.l.low_done
        /\ l.low_voltage_counter = m.l.low_voltage_counter
        /\ l.stick_off_counter = m.l.stick_off_counter
        /\ l.stick_on_counter = m.l.stick_on_counter
    <3>1. /\ m.l.critical_voltage_counter + 1 \in Counters(CriticalLimit) /\ act \in BOOLEAN
          /\ ~act => m.l.critical_voltage_counter + 1 <= CriticalLimit + 1
      BY <1>3, LoopsCounters, CommanderAssumption DEF Counters
    <3> QED
      BY <1>1, <3>1 DEF Locals
  <2>2. BatteryCheck(m, battery) = IF act THEN state_machine_emergency(n) ELSE n
    BY <1>3 DEF BatteryCheck
  <2> HIDE DEF l, act
  <2>3. n \in Loops /\ Keeps(m, n)
    BY <2>1, LoopsCounters, LocalsKeep
  <2> HIDE DEF n
  <2> QED
    BY <2>2, <2>3, TransitionsKeep, KeepsTrans
<1>4. CASE /\ ~(battery # "ok" /\ ~m.l.low_done)
           /\ ~(battery = "critical" /\ ~m.l.critical_done)
  <2> DEFINE l == [m.l EXCEPT !.low_voltage_counter = 0, !.critical_voltage_counter = 0]
  <2>1. /\ l \in Locals /\ l.low_voltage_counter = 0 /\ l.critical_voltage_counter = 0
        /\ l.stick_off_counter = m.l.stick_off_counter
        /\ l.stick_on_counter = m.l.stick_on_counter
    <3>1. 0 \in Counters(LowLimit) /\ 0 \in Counters(CriticalLimit)
      BY CommanderAssumption DEF Counters
    <3> QED
      BY <1>1, <3>1 DEF Locals
  <2>2. BatteryCheck(m, battery) = [m EXCEPT !.l = l]
    BY <1>4 DEF BatteryCheck
  <2> HIDE DEF l
  <2> QED
    BY <2>1, <2>2, LoopsCounters, LocalsKeep, CommanderAssumption
<1> QED
  BY <1>2, <1>3, <1>4

\* The stick's counters stop one above their limit.
LEMMA StickKeeps ==
  ASSUME NEW m \in Loops, NEW stick \in {"left", "right", "centre"}
  PROVE  Keeps(m, StickCheck(m, stick))
<1>1. m.l \in Locals /\ 0 \in Counters(StickLimit)
  BY LoopsFields, CommanderAssumption DEF Counters
<1>2. CASE stick = "left"
  <2> DEFINE l == [m.l EXCEPT !.stick_on_counter = 0]
             n == [m EXCEPT !.l = l]
  <2>1. /\ l \in Locals /\ l.stick_on_counter = 0
        /\ l.low_done = m.l.low_done /\ l.low_voltage_counter = m.l.low_voltage_counter
        /\ l.critical_done = m.l.critical_done
        /\ l.critical_voltage_counter = m.l.critical_voltage_counter
        /\ l.stick_off_counter = m.l.stick_off_counter
    BY <1>1 DEF Locals
  <2> HIDE DEF l
  <2>2. n \in Loops /\ Keeps(m, n) /\ n.l = l
    BY <2>1, LoopsCounters, LocalsKeep, CommanderAssumption
  <2>3. StickCheck(m, stick) = IF m.l.stick_off_counter > StickLimit
                               THEN update_state_machine_disarm(n)
                               ELSE [n EXCEPT !.l = [n.l EXCEPT !.stick_off_counter = @ + 1]]
    BY <1>2 DEF StickCheck, StickOff, l
  <2> HIDE DEF n
  <2>4. CASE m.l.stick_off_counter > StickLimit
    BY <2>2, <2>3, <2>4, TransitionsKeep, KeepsTrans
  <2>5. CASE ~(m.l.stick_off_counter > StickLimit)
    <3> DEFINE k == [n.l EXCEPT !.stick_off_counter = @ + 1]
    <3>1. /\ m.l.stick_off_counter + 1 \in Counters(StickLimit)
          /\ m.l.stick_off_counter + 1 <= StickLimit + 1
      BY <2>5, LoopsCounters, CommanderAssumption DEF Counters
    <3>2. /\ k \in Locals /\ k.stick_off_counter = m.l.stick_off_counter + 1
          /\ k.low_done = n.l.low_done /\ k.low_voltage_counter = n.l.low_voltage_counter
          /\ k.critical_done = n.l.critical_done
          /\ k.critical_voltage_counter = n.l.critical_voltage_counter
          /\ k.stick_on_counter = n.l.stick_on_counter
      BY <2>1, <2>2, <3>1 DEF Locals
    <3> HIDE DEF k
    <3>3. Keeps(n, [n EXCEPT !.l = k])
      BY <2>2, <3>1, <3>2, LoopsCounters, LocalsKeep
    <3> QED
      BY <2>2, <2>3, <2>5, <3>3, KeepsTrans DEF k
  <2> QED
    BY <2>4, <2>5
<1>3. CASE stick = "right" /\ m.l.stick_on_counter > StickLimit
  <2> DEFINE l == [m.l EXCEPT !.stick_on_counter = 0]
             n == [m EXCEPT !.l = l]
  <2>1. /\ l \in Locals /\ l.stick_on_counter = 0
        /\ l.low_done = m.l.low_done /\ l.low_voltage_counter = m.l.low_voltage_counter
        /\ l.critical_done = m.l.critical_done
        /\ l.critical_voltage_counter = m.l.critical_voltage_counter
        /\ l.stick_off_counter = m.l.stick_off_counter
    BY <1>1 DEF Locals
  <2>2. StickCheck(m, stick) = update_state_machine_arm(n)
    BY <1>3 DEF StickCheck, StickOn
  <2> HIDE DEF l
  <2>3. n \in Loops /\ Keeps(m, n)
    BY <2>1, LoopsCounters, LocalsKeep, CommanderAssumption
  <2> HIDE DEF n
  <2> QED
    BY <2>2, <2>3, TransitionsKeep, KeepsTrans
<1>4. CASE stick = "right" /\ ~(m.l.stick_on_counter > StickLimit)
  <2> DEFINE l == [m.l EXCEPT !.stick_on_counter = @ + 1, !.stick_off_counter = 0]
  <2>1. /\ m.l.stick_on_counter + 1 \in Counters(StickLimit)
        /\ m.l.stick_on_counter + 1 <= StickLimit + 1
    BY <1>4, LoopsCounters, CommanderAssumption DEF Counters
  <2>2. /\ l \in Locals
        /\ l.stick_on_counter = m.l.stick_on_counter + 1 /\ l.stick_off_counter = 0
        /\ l.low_done = m.l.low_done /\ l.low_voltage_counter = m.l.low_voltage_counter
        /\ l.critical_done = m.l.critical_done
        /\ l.critical_voltage_counter = m.l.critical_voltage_counter
    BY <1>1, <2>1 DEF Locals
  <2>3. StickCheck(m, stick) = [m EXCEPT !.l = l]
    BY <1>4 DEF StickCheck, StickOn
  <2> HIDE DEF l
  <2>4. /\ ~l.low_done => l.low_voltage_counter <= LowLimit + 1
        /\ ~l.critical_done => l.critical_voltage_counter <= CriticalLimit + 1
        /\ l.stick_off_counter <= StickLimit + 1 /\ l.stick_on_counter <= StickLimit + 1
    BY <2>1, <2>2, LoopsCounters, CommanderAssumption
  <2> QED
    BY <2>2, <2>3, <2>4, LocalsKeep
<1>5. CASE stick = "centre"
  BY <1>5, KeepsRefl DEF StickCheck
<1> QED
  BY <1>2, <1>3, <1>4, <1>5

\* A block that changes only what the status says of the two signals.
LEMMA SignalsSafe ==
  ASSUME NEW m \in Loops, NEW t \in Status,
         t.flag_hil_enabled = m.s.flag_hil_enabled,
         t.state_machine = m.s.state_machine,
         Exclusive(m.s) => Exclusive(t)
  PROVE  [m EXCEPT !.s = t] \in Loops /\ Safe(m, [m EXCEPT !.s = t])
BY LoopsStatus DEF Safe

\* Setting the mark of a change, and moving the publication counter on.
LEMMA MarkKeeps ==
  ASSUME NEW m \in Loops, NEW l \in Locals,
         l.low_done = m.l.low_done, l.low_voltage_counter = m.l.low_voltage_counter,
         l.critical_done = m.l.critical_done,
         l.critical_voltage_counter = m.l.critical_voltage_counter,
         l.stick_off_counter = m.l.stick_off_counter,
         l.stick_on_counter = m.l.stick_on_counter
  PROVE  [m EXCEPT !.l = l] \in Loops /\ Keeps(m, [m EXCEPT !.l = l])
BY LoopsCounters, LocalsKeep

\* The RC block; a signal is found only when there is no offboard control.
LEMMA RcSafe ==
  ASSUME NEW m \in Loops, NEW man \in Manual
  PROVE  Safe(m, RcCheck(m, man))
<1>1. CASE m.s.offboard_control_signal_found_once \/ man.age = "none"
  BY <1>1, KeepsRefl DEF RcCheck, Keeps
<1>2. CASE ~m.s.offboard_control_signal_found_once /\ man.age = "fresh"
  <2>1. man.stick \in {"left", "right", "centre"} /\ man.mode \in Modes
    BY <1>2 DEF Manual
  <2> DEFINE k == StickCheck(m, man.stick)
             n == update_state_machine_mode(k, man.mode)
             t == [n.s EXCEPT !.rc_signal_found_once = TRUE, !.rc_signal_lost = FALSE]
  <2>2. Keeps(m, k) /\ k \in Loops
    BY <2>1, StickKeeps DEF Keeps, Safe
  <2>3. RcCheck(m, man) = [n EXCEPT !.s = t]
    BY <1>2 DEF RcCheck, RcFresh
  <2> HIDE DEF k
  <2>4. Keeps(k, n) /\ n \in Loops
    BY <2>1, <2>2, TransitionsKeep DEF Keeps, Safe
  <2> HIDE DEF n
  <2>5. Keeps(m, n)
    BY <2>2, <2>4, KeepsTrans
  <2>6. n.s \in Status
    BY <2>4, LoopsFields
  <2>7. /\ t \in Status /\ t.flag_hil_enabled = n.s.flag_hil_enabled
        /\ t.state_machine = n.s.state_machine
        /\ t.offboard_control_signal_found_once = n.s.offboard_control_signal_found_once
    BY <2>6 DEF Status
  <2> HIDE DEF t
  <2>8. Exclusive(t)
    BY <1>2, <2>5, <2>7 DEF Keeps, Exclusive
  <2>9. Safe(n, [n EXCEPT !.s = t])
    BY <2>4, <2>7, <2>8, SignalsSafe
  <2> QED
    BY <2>3, <2>5, <2>9, SafeTrans DEF Keeps
<1>3. CASE ~m.s.offboard_control_signal_found_once /\ man.age = "old"
  <2> DEFINE t == [m.s EXCEPT !.rc_signal_lost = TRUE]
             l == [m.l EXCEPT !.state_changed = TRUE]
             n == [m EXCEPT !.s = t]
  <2>1. m.s \in Status /\ m.l \in Locals
    BY LoopsFields
  <2>2. /\ t \in Status /\ t.flag_hil_enabled = m.s.flag_hil_enabled
        /\ t.state_machine = m.s.state_machine
        /\ Exclusive(m.s) => Exclusive(t)
    BY <2>1 DEF Status, Exclusive
  <2>3. /\ l \in Locals /\ l.low_done = m.l.low_done
        /\ l.low_voltage_counter = m.l.low_voltage_counter
        /\ l.critical_done = m.l.critical_done
        /\ l.critical_voltage_counter = m.l.critical_voltage_counter
        /\ l.stick_off_counter = m.l.stick_off_counter
        /\ l.stick_on_counter = m.l.stick_on_counter
    BY <2>1 DEF Locals
  <2>4. RcCheck(m, man) = [n EXCEPT !.l = l]
    BY <1>3 DEF RcCheck, RcLost
  <2> HIDE DEF t, l
  <2>5. n \in Loops /\ Safe(m, n) /\ n.l = m.l
    BY <2>2, SignalsSafe, LoopsStatus
  <2> HIDE DEF n
  <2>6. Keeps(n, [n EXCEPT !.l = l])
    BY <2>3, <2>5, MarkKeeps
  <2> QED
    BY <2>4, <2>5, <2>6, SafeTrans DEF Keeps
<1> QED
  BY <1>1, <1>2, <1>3 DEF Manual

\* Arming, taking off and disarming as the offboard setpoint says.
LEMMA OffboardArmKeeps ==
  ASSUME NEW m \in Loops, NEW armed \in BOOLEAN
  PROVE  Keeps(m, OffboardArm(m, armed))
<1>1. Keeps(m, m) /\ Keeps(m, update_state_machine_disarm(m))
  BY KeepsRefl, TransitionsKeep
<1> DEFINE n == update_state_machine_arm(m)
<1>2. Keeps(m, n) /\ n \in Loops
  BY TransitionsKeep DEF Keeps, Safe
<1>3. Keeps(n, update_state_machine_mode(n, "STABILIZED"))
  BY <1>2, TransitionsKeep
<1>4. Keeps(m, update_state_machine_mode(n, "STABILIZED"))
  BY <1>2, <1>3, KeepsTrans
<1> QED
  BY <1>1, <1>4 DEF OffboardArm

\* The offboard block; a signal is found only when there is no RC control.
LEMMA OffboardSafe ==
  ASSUME NEW m \in Loops, NEW off \in Offboard
  PROVE  Safe(m, OffboardCheck(m, off))
<1>1. m.s \in Status /\ m.l \in Locals
  BY LoopsFields
<1>2. CASE m.s.rc_signal_found_once \/ off.age = "none"
  BY <1>2, KeepsRefl DEF OffboardCheck, Keeps
<1>3. CASE ~m.s.rc_signal_found_once /\ off.age = "fresh"
  <2>1. off.armed \in BOOLEAN /\ off.changed \in BOOLEAN
    BY <1>3 DEF Offboard
  <2> DEFINE t == [m.s EXCEPT !.offboard_control_signal_found_once = TRUE,
                              !.offboard_control_signal_lost = FALSE]
             changed == \/ m.l.state_changed \/ off.changed
                        \/ ~m.s.offboard_control_signal_found_once
                        \/ m.s.offboard_control_signal_lost
             l == [m.l EXCEPT !.state_changed = changed]
             n == [m EXCEPT !.s = t]
             o == [n EXCEPT !.l = l]
  <2>2. /\ t \in Status /\ t.flag_hil_enabled = m.s.flag_hil_enabled
        /\ t.state_machine = m.s.state_machine /\ Exclusive(t)
    BY <1>1, <1>3 DEF Status, Exclusive
  <2>3. changed \in BOOLEAN
    OBVIOUS
  <2>4. OffboardCheck(m, off) = OffboardArm(o, off.armed)
    BY <1>3 DEF OffboardCheck
  <2> HIDE DEF changed
  <2>5. /\ l \in Locals /\ l.low_done = m.l.low_done
        /\ l.low_voltage_counter = m.l.low_voltage_counter
        /\ l.critical_done = m.l.critical_done
        /\ l.critical_voltage_counter = m.l.critical_voltage_counter
        /\ l.stick_off_counter = m.l.stick_off_counter
        /\ l.stick_on_counter = m.l.stick_on_counter
    BY <1>1, <2>3 DEF Locals
  <2> HIDE DEF t, l
  <2>6. n \in Loops /\ Safe(m, n) /\ n.l = m.l
    BY <2>2, SignalsSafe, LoopsStatus
  <2> HIDE DEF n
  <2>7. Keeps(n, o) /\ o \in Loops
    BY <2>5, <2>6, MarkKeeps
  <2> HIDE DEF o
  <2>8. Keeps(o, OffboardArm(o, off.armed))
    BY <2>1, <2>7, OffboardArmKeeps
  <2> QED
    BY <2>4, <2>6, <2>7, <2>8, SafeTrans DEF Keeps
<1>4. CASE ~m.s.rc_signal_found_once /\ off.age = "old"
  <2> DEFINE t == [m.s EXCEPT !.offboard_control_signal_lost = TRUE]
  <2>1. /\ t \in Status /\ t.flag_hil_enabled = m.s.flag_hil_enabled
        /\ t.state_machine = m.s.state_machine
        /\ Exclusive(m.s) => Exclusive(t)
    BY <1>1 DEF Status, Exclusive
  <2>2. OffboardCheck(m, off) = [m EXCEPT !.s = t]
    BY <1>4 DEF OffboardCheck
  <2> HIDE DEF t
  <2> QED
    BY <2>1, <2>2, SignalsSafe
<1> QED
  BY <1>2, <1>3, <1>4 DEF Offboard

\* The last two blocks: the transition to standby and the publication.
LEMMA StandbySafe ==
  ASSUME NEW m \in Loops
  PROVE  Safe(m, StandbyCheck(m))
<1>1. CASE m.s.state_machine = "PREFLIGHT" /\ m.s.calibrating = {}
  BY <1>1, UpdateKeeps DEF StandbyCheck, Keeps, Emergencies, States
<1>2. CASE ~(m.s.state_machine = "PREFLIGHT" /\ m.s.calibrating = {})
  BY <1>2, KeepsRefl DEF StandbyCheck, Keeps
<1> QED
  BY <1>1, <1>2

\* The publication of what the loop has decided.
LEMMA PublishCheckSafe ==
  ASSUME NEW m \in Loops
  PROVE  Safe(m, PublishCheck(m))
<1> DEFINE n == IF m.l.counter = 0 \/ m.l.state_changed THEN publish_armed_status(m) ELSE m
           l == [n.l EXCEPT !.counter = (@ + 1) % PublishEvery, !.state_changed = FALSE]
<1>1. PublishCheck(m) = [n EXCEPT !.l = l]
  BY DEF PublishCheck
<1>2. Keeps(m, n)
  BY KeepsRefl, PublishKeeps
<1> HIDE DEF n
<1>3. n \in Loops
  BY <1>2 DEF Keeps, Safe
<1>4. n.l \in Locals
  BY <1>3, LoopsFields
<1>5. (n.l.counter + 1) % PublishEvery \in 0..(PublishEvery - 1)
  <2>1. n.l.counter + 1 \in Nat
    BY <1>4, CommanderAssumption DEF Locals
  <2> QED
    BY <2>1, CommanderAssumption
<1>6. /\ l \in Locals /\ l.low_done = n.l.low_done
      /\ l.low_voltage_counter = n.l.low_voltage_counter
      /\ l.critical_done = n.l.critical_done
      /\ l.critical_voltage_counter = n.l.critical_voltage_counter
      /\ l.stick_off_counter = n.l.stick_off_counter
      /\ l.stick_on_counter = n.l.stick_on_counter
  BY <1>4, <1>5 DEF Locals
<1> HIDE DEF l
<1>7. Keeps(n, [n EXCEPT !.l = l])
  BY <1>3, <1>6, MarkKeeps
<1> QED
  BY <1>1, <1>2, <1>7, SafeTrans DEF Keeps

-----------------------------------------------------------------------------
\* What an iteration starts from.
Start == [s |-> current_status, l |-> locals, pub |-> actuator_armed]

\* The invariant bounds what an iteration starts from.
LEMMA StartInLoops ==
  ASSUME TypeOK, CountInv
  PROVE  Start \in Loops
BY DEF TypeOK, CountInv, Start, Loops

\* A whole iteration is safe, whatever it finds.
LEMMA IterationSafe ==
  ASSUME TypeOK, CountInv,
         NEW battery \in Batteries, NEW man \in Manual, NEW off \in Offboard
  PROVE  Safe(Start, Iteration(battery, man, off))
<1> DEFINE m1 == BatteryCheck(Start, battery)
           m2 == RcCheck(m1, man)
           m3 == OffboardCheck(m2, off)
           m4 == StandbyCheck(m3)
<1>1. Safe(Start, m1) /\ m1 \in Loops
  BY StartInLoops, BatteryKeeps DEF Keeps, Safe
<1> HIDE DEF m1
<1>2. Safe(m1, m2) /\ m2 \in Loops
  BY <1>1, RcSafe DEF Safe
<1> HIDE DEF m2
<1>3. Safe(m2, m3) /\ m3 \in Loops
  BY <1>2, OffboardSafe DEF Safe
<1> HIDE DEF m3
<1>4. Safe(m3, m4) /\ m4 \in Loops
  BY <1>3, StandbySafe DEF Safe
<1> HIDE DEF m4
<1>5. Safe(m4, PublishCheck(m4))
  BY <1>4, PublishCheckSafe
<1>6. Iteration(battery, man, off) = PublishCheck(m4)
  BY DEF Iteration, Start, m1, m2, m3, m4
<1> QED
  BY <1>1, <1>2, <1>3, <1>4, <1>5, <1>6, SafeTrans

\* The step of the main loop, as far as the invariants see it.
LEMMA MainLoopSafe ==
  ASSUME TypeOK, CountInv, MainLoop
  PROVE  \E m : /\ Safe(Start, m)
                /\ current_status' = m.s /\ locals' = m.l /\ actuator_armed' = m.pub
BY IterationSafe DEF MainLoop

\* An iteration keeps the invariant, wherever the command thread was interrupted.
LEMMA MainLoopKeeps ==
  ASSUME IInv, MainLoop
  PROVE  IInv'
<1>1. PICK m : /\ Safe(Start, m)
               /\ current_status' = m.s /\ locals' = m.l /\ actuator_armed' = m.pub
  BY MainLoopSafe DEF IInv
<1>2. m \in Loops
  BY <1>1 DEF Safe
<1>3. UNCHANGED <<cmd, commands>>
  BY DEF MainLoop
<1>4. TypeOK'
  BY <1>1, <1>2, <1>3, LoopsFields DEF IInv, TypeOK
<1>5. CountInv'
  BY <1>1, <1>2 DEF CountInv, Loops
<1>6. TodoInv'
  BY <1>3 DEF IInv, TodoInv, Updating
<1>7. Start.s = current_status /\ Start.pub = actuator_armed
  BY DEF Start
<1>8. ControlSourceExclusive'
  BY <1>1, <1>7 DEF IInv, ControlSourceExclusive, Safe, Exclusive
<1>9. HilLocksDown'
  BY <1>1, <1>3, <1>7 DEF IInv, HilLocksDown, Safe
<1>10. StaleInv'
  BY <1>1, <1>3, <1>7 DEF IInv, StaleInv, Safe
<1> QED
  BY <1>4, <1>5, <1>6, <1>8, <1>9, <1>10 DEF IInv

-----------------------------------------------------------------------------
\* The command thread at rest.
LEMMA InitialCmdType == InitialCmd \in Cmd /\ InitialCmd.pc = "idle"
<1>1. Unpublished \in Armed
  BY DEF Unpublished, Armed
<1>2. << >> \in Seq(Sensors) /\ {} \in SUBSET ModeFlags
  OBVIOUS
<1> QED
  BY <1>1, <1>2 DEF InitialCmd, Cmd, Labels, States

\* A step of the command thread that leaves status and publication alone.
LEMMA OnlyCmdKeeps ==
  ASSUME IInv, UNCHANGED <<current_status, actuator_armed, locals>>,
         cmd' \in Cmd, commands' \in 0..MaxCommands,
         TodoInv', cmd'.pc \notin {"advertise", "publish"},
         current_status.flag_hil_enabled => actuator_armed.lockdown
  PROVE  IInv'
<1>1. TypeOK' /\ CountInv'
  BY DEF IInv, TypeOK, CountInv
<1>2. ControlSourceExclusive' /\ HilLocksDown' /\ StaleInv'
  BY DEF IInv, ControlSourceExclusive, HilLocksDown, StaleInv
<1> QED
  BY <1>1, <1>2 DEF IInv

\* A step that begins elsewhere than at "open" or "advertise" finds the actuators locked.
LEMMA LockedElsewhere ==
  ASSUME IInv, cmd.pc \notin {"open", "advertise"}, current_status.flag_hil_enabled
  PROVE  actuator_armed.lockdown
BY DEF IInv, HilLocksDown

\* A command is taken when the thread is idle.
LEMMA ReceiveKeeps ==
  ASSUME IInv,
         \/ \E mode \in SUBSET ModeFlags : ReceiveMode(mode)
         \/ \E sensors \in Calibrations : ReceiveCalibration(sensors)
         \/ ReceiveReboot
  PROVE  IInv'
<1>1. /\ UNCHANGED <<current_status, actuator_armed, locals>> /\ cmd.pc = "idle"
      /\ commands' = commands + 1 /\ commands < MaxCommands
  BY DEF ReceiveMode, ReceiveCalibration, ReceiveReboot, Receive
<1>2. commands' \in 0..MaxCommands
  BY <1>1, CommanderAssumption DEF IInv, TypeOK
<1>3. cmd \in Cmd
  BY DEF IInv, TypeOK
<1>4. cmd' \in Cmd /\ cmd'.pc \in {"arm", "calibration", "begin"}
      /\ (cmd'.pc = "begin" => cmd'.next = "idle")
  <2>1. CASE \E mode \in SUBSET ModeFlags : ReceiveMode(mode)
    BY <1>3, <2>1 DEF ReceiveMode, Cmd, Labels
  <2>2. CASE \E sensors \in Calibrations : ReceiveCalibration(sensors)
    BY <1>3, <2>2, CommanderAssumption DEF ReceiveCalibration, Cmd, Labels
  <2>3. CASE ReceiveReboot
    <3>1. "REBOOT" \in States /\ "begin" \in Labels
      BY DEF States, Labels
    <3> QED
      BY <1>3, <2>3, <3>1 DEF ReceiveReboot, Cmd
  <2> QED
    BY <2>1, <2>2, <2>3
<1>5. TodoInv'
  BY <1>4 DEF TodoInv, Updating
<1> QED
  BY <1>1, <1>2, <1>4, <1>5, OnlyCmdKeeps, LockedElsewhere

\* Where the command thread goes on after a transition.
LEMMA GoOnType ==
  ASSUME cmd \in Cmd, NEW l \in {"idle", "disarm", "hil", "check", "calibration"},
         l = "check" => cmd.todo # << >>
  PROVE  /\ GoOn(l) \in Cmd /\ GoOn(l).pc = l
         /\ l = "check" => GoOn(l).todo # << >>
<1>1. CASE l = "idle"
  BY <1>1, InitialCmdType DEF GoOn
<1>2. CASE l # "idle"
  <2>1. GoOn(l) = [InitialCmd EXCEPT !.pc = l, !.mode = cmd.mode, !.todo = cmd.todo]
    BY <1>2 DEF GoOn
  <2>2. l \in Labels
    BY DEF Labels
  <2> QED
    BY <2>1, <2>2, InitialCmdType DEF Cmd
<1> QED
  BY <1>1, <1>2

\* The beginning of do_state_update, which reads the old state.
LEMMA UpdateBeginKeeps ==
  ASSUME IInv, UpdateBegin
  PROVE  IInv'
<1>1. /\ cmd \in Cmd /\ cmd.pc = "begin" /\ current_status.state_machine \in States
      /\ cmd.next = "check" => cmd.todo # << >>
  BY DEF IInv, TypeOK, UpdateBegin, Status, TodoInv, Updating
<1>2. cmd' \in Cmd /\ cmd'.pc = "switch" /\ cmd'.next = cmd.next /\ cmd'.todo = cmd.todo
  BY <1>1 DEF UpdateBegin, Cmd, Labels
<1>3. UNCHANGED <<current_status, actuator_armed, locals, commands>>
  BY DEF UpdateBegin
<1> QED
  BY <1>1, <1>2, <1>3, OnlyCmdKeeps, LockedElsewhere DEF IInv, TypeOK, TodoInv, Updating

\* Where the test of the transition leads.
LEMMA SwitchLeads ==
  ASSUME IInv, UpdateSwitch
  PROVE  /\ cmd' \in Cmd /\ TodoInv'
         /\ cmd'.pc \in {"assign", "commit", "idle", "disarm", "hil", "check", "calibration"}
<1>1. /\ cmd \in Cmd /\ cmd.pc = "switch"
      /\ cmd.next = "check" => cmd.todo # << >>
  BY DEF IInv, TypeOK, UpdateSwitch, TodoInv, Updating
<1> DEFINE invalid == InvalidTransition(current_status, cmd.new_state)
<1>2. invalid \in BOOLEAN
  BY DEF InvalidTransition
<1>3. CASE cmd' = [cmd EXCEPT !.pc = IF invalid THEN "commit" ELSE "assign",
                              !.invalid = invalid, !.old_state = "PREFLIGHT"]
  <2> HIDE DEF invalid
  <2>1. PICK l \in {"commit", "assign"} :
          cmd' = [cmd EXCEPT !.pc = l, !.invalid = invalid, !.old_state = "PREFLIGHT"]
    BY <1>3
  <2> QED
    BY <1>1, <1>2, <2>1 DEF Cmd, Labels, States, TodoInv, Updating
<1>4. CASE cmd' = GoOn(cmd.next)
  <2>1. cmd.next \in {"idle", "disarm", "hil", "check", "calibration"}
    BY <1>1 DEF Cmd
  <2>2. /\ cmd' \in Cmd /\ cmd'.pc = cmd.next
        /\ cmd'.pc = "check" => cmd'.todo # << >>
    BY <1>1, <1>4, <2>1, GoOnType
  <2> QED
    BY <2>1, <2>2 DEF TodoInv, Updating
<1> QED
  BY <1>3, <1>4 DEF UpdateSwitch

\* The test of the transition.
LEMMA UpdateSwitchKeeps ==
  ASSUME IInv, UpdateSwitch
  PROVE  IInv'
<1>1. /\ UNCHANGED <<current_status, actuator_armed, locals, commands>> /\ cmd.pc = "switch"
  BY DEF UpdateSwitch
<1> QED
  BY <1>1, SwitchLeads, OnlyCmdKeeps, LockedElsewhere DEF IInv, TypeOK

\* The assignment of the flag.
LEMMA UpdateAssignKeeps ==
  ASSUME IInv, UpdateAssign
  PROVE  IInv'
<1>1. /\ cmd \in Cmd /\ cmd.pc = "assign" /\ current_status \in Status
      /\ cmd.next = "check" => cmd.todo # << >>
  BY DEF IInv, TypeOK, UpdateAssign, TodoInv, Updating
<1>2. Arms(cmd.new_state) \in BOOLEAN
  BY DEF Arms
<1>3. /\ current_status' \in Status
      /\ current_status'.flag_hil_enabled = current_status.flag_hil_enabled
      /\ current_status'.rc_signal_found_once = current_status.rc_signal_found_once
      /\ current_status'.offboard_control_signal_found_once
           = current_status.offboard_control_signal_found_once
  BY <1>1, <1>2 DEF UpdateAssign, Status
<1>4. /\ cmd' \in Cmd /\ cmd'.pc \in {"reboot", "commit"} /\ TodoInv'
  <2>1. CASE cmd' = [InitialCmd EXCEPT !.pc = "reboot"]
    BY <2>1, InitialCmdType DEF Cmd, Labels, TodoInv, Updating
  <2>2. CASE cmd' = [cmd EXCEPT !.pc = "commit"]
    BY <1>1, <2>2 DEF Cmd, Labels, TodoInv, Updating
  <2> QED
    BY <2>1, <2>2 DEF UpdateAssign
<1>5. UNCHANGED <<actuator_armed, locals, commands>>
  BY DEF UpdateAssign
<1>6. TypeOK' /\ CountInv'
  BY <1>3, <1>4, <1>5 DEF IInv, TypeOK, CountInv
<1>7. ControlSourceExclusive' /\ HilLocksDown' /\ StaleInv'
  BY <1>1, <1>3, <1>4, <1>5, LockedElsewhere
     DEF IInv, ControlSourceExclusive, HilLocksDown, StaleInv
<1> QED
  BY <1>4, <1>6, <1>7 DEF IInv

\* The assignment of the state.
LEMMA UpdateCommitKeeps ==
  ASSUME IInv, UpdateCommit
  PROVE  IInv'
<1>1. /\ cmd \in Cmd /\ cmd.pc = "commit" /\ current_status \in Status
      /\ cmd.next = "check" => cmd.todo # << >>
  BY DEF IInv, TypeOK, UpdateCommit, TodoInv, Updating
<1>2. /\ current_status' \in Status
      /\ current_status'.flag_hil_enabled = current_status.flag_hil_enabled
      /\ current_status'.rc_signal_found_once = current_status.rc_signal_found_once
      /\ current_status'.offboard_control_signal_found_once
           = current_status.offboard_control_signal_found_once
  BY <1>1 DEF UpdateCommit, Status, Cmd
<1>3. cmd' \in Cmd /\ cmd'.pc = "open" /\ cmd'.next = cmd.next /\ cmd'.todo = cmd.todo
  BY <1>1 DEF UpdateCommit, Cmd, Labels, States
<1>4. UNCHANGED <<actuator_armed, locals, commands>>
  BY DEF UpdateCommit
<1>5. TypeOK' /\ CountInv' /\ TodoInv'
  BY <1>1, <1>2, <1>3, <1>4 DEF IInv, TypeOK, CountInv, TodoInv, Updating
<1>6. ControlSourceExclusive' /\ HilLocksDown' /\ StaleInv'
  BY <1>1, <1>2, <1>3, <1>4, LockedElsewhere
     DEF IInv, ControlSourceExclusive, HilLocksDown, StaleInv
<1> QED
  BY <1>5, <1>6 DEF IInv

\* publish_armed_status: it reads the status before it opens the topic.
LEMMA UpdateOpenKeeps ==
  ASSUME IInv, UpdateOpen
  PROVE  IInv'
<1>1. /\ cmd \in Cmd /\ cmd.pc = "open" /\ current_status \in Status
      /\ cmd.next = "check" => cmd.todo # << >>
  BY DEF IInv, TypeOK, UpdateOpen, TodoInv, Updating
<1>2. /\ ArmedStatus(current_status) \in Armed
      /\ current_status.flag_hil_enabled => ArmedStatus(current_status).lockdown
  BY <1>1, ArmedStatusLocks
<1>3. /\ cmd' \in Cmd /\ cmd'.pc = "advertise" /\ cmd'.next = cmd.next
      /\ cmd'.todo = cmd.todo /\ cmd'.mode = cmd.mode
      /\ cmd'.armed = ArmedStatus(current_status)
  BY <1>1, <1>2 DEF UpdateOpen, Cmd, Labels
<1>4. UNCHANGED <<current_status, actuator_armed, locals, commands>>
  BY DEF UpdateOpen
<1>5. TypeOK' /\ CountInv' /\ TodoInv' /\ ControlSourceExclusive'
  BY <1>1, <1>3, <1>4
     DEF IInv, TypeOK, CountInv, TodoInv, Updating, ControlSourceExclusive
<1>6. HilLocksDown' /\ StaleInv'
  BY <1>1, <1>2, <1>3, <1>4 DEF IInv, HilLocksDown, StaleInv
<1> QED
  BY <1>5, <1>6 DEF IInv

\* The publication of orb_advertise.
LEMMA UpdateAdvertiseKeeps ==
  ASSUME IInv, UpdateAdvertise
  PROVE  IInv'
<1>1. /\ cmd \in Cmd /\ cmd.pc = "advertise"
      /\ cmd.next = "check" => cmd.todo # << >>
  BY DEF IInv, TypeOK, UpdateAdvertise, TodoInv, Updating
<1>2. /\ cmd' \in Cmd /\ cmd'.pc = "publish" /\ cmd'.next = cmd.next
      /\ cmd'.todo = cmd.todo /\ cmd'.armed = cmd.armed
  BY <1>1 DEF UpdateAdvertise, Cmd, Labels
<1>3. UNCHANGED <<current_status, locals, commands>> /\ actuator_armed' = cmd.armed
  BY DEF UpdateAdvertise
<1>4. TypeOK' /\ CountInv' /\ TodoInv' /\ ControlSourceExclusive'
  BY <1>1, <1>2, <1>3
     DEF IInv, TypeOK, Cmd, CountInv, TodoInv, Updating, ControlSourceExclusive
<1>5. HilLocksDown' /\ StaleInv'
  BY <1>1, <1>2, <1>3 DEF IInv, HilLocksDown, StaleInv
<1> QED
  BY <1>4, <1>5 DEF IInv

\* The second publication of the same.
LEMMA UpdatePublishKeeps ==
  ASSUME IInv, UpdatePublish
  PROVE  IInv'
<1>1. /\ cmd \in Cmd /\ cmd.pc = "publish"
      /\ cmd.next = "check" => cmd.todo # << >>
  BY DEF IInv, TypeOK, UpdatePublish, TodoInv, Updating
<1>2. cmd.next \in {"idle", "disarm", "hil", "check", "calibration"} /\ cmd.armed \in Armed
  BY <1>1 DEF Cmd
<1>3. /\ cmd' \in Cmd /\ cmd'.pc = cmd.next
      /\ cmd'.pc = "check" => cmd'.todo # << >>
  BY <1>1, <1>2, GoOnType DEF UpdatePublish
<1>4. UNCHANGED <<current_status, locals, commands>> /\ actuator_armed' = cmd.armed
  BY DEF UpdatePublish
<1>5. TypeOK' /\ CountInv' /\ TodoInv' /\ ControlSourceExclusive'
  BY <1>2, <1>3, <1>4
     DEF IInv, TypeOK, CountInv, TodoInv, Updating, ControlSourceExclusive
<1>6. HilLocksDown' /\ StaleInv'
  BY <1>1, <1>2, <1>3, <1>4 DEF IInv, HilLocksDown, StaleInv
<1> QED
  BY <1>5, <1>6 DEF IInv

\* The state that a start, or a reboot, leaves.
LEMMA InitialStateKeeps ==
  /\ InitialStatus \in Status /\ ~InitialStatus.flag_hil_enabled
  /\ Exclusive(InitialStatus)
  /\ Unpublished \in Armed
  /\ InitialLocals \in Locals
  /\ InitialLocals.low_voltage_counter = 0 /\ InitialLocals.critical_voltage_counter = 0
  /\ InitialLocals.stick_off_counter = 0 /\ InitialLocals.stick_on_counter = 0
<1>1. InitialStatus \in Status /\ ~InitialStatus.flag_hil_enabled /\ Exclusive(InitialStatus)
  BY DEF InitialStatus, Status, States, Exclusive
<1>2. Unpublished \in Armed
  BY DEF Unpublished, Armed
<1>3. /\ 0 \in Counters(LowLimit) /\ 0 \in Counters(CriticalLimit)
      /\ 0 \in Counters(StickLimit) /\ 0 \in 0..(PublishEvery - 1)
  BY CommanderAssumption DEF Counters
<1> QED
  BY <1>1, <1>2, <1>3 DEF InitialLocals, Locals

\* From the initial values the invariant holds.
LEMMA InitIInv == Init => IInv
<1> SUFFICES ASSUME Init PROVE IInv
  OBVIOUS
<1>2. TypeOK
  BY InitialStateKeeps, InitialCmdType, CommanderAssumption DEF Init, TypeOK
<1>3. CountInv
  BY InitialStateKeeps, CommanderAssumption DEF Init, CountInv
<1>4. TodoInv /\ ControlSourceExclusive /\ HilLocksDown /\ StaleInv
  BY InitialStateKeeps, InitialCmdType
     DEF Init, TodoInv, Updating, ControlSourceExclusive, Exclusive, HilLocksDown, StaleInv
<1> QED
  BY <1>2, <1>3, <1>4 DEF IInv

\* A reboot starts both threads anew.
LEMMA RebootKeeps ==
  ASSUME IInv, Reboot
  PROVE  IInv'
<1>1. /\ current_status' = InitialStatus /\ actuator_armed' = Unpublished
      /\ locals' = InitialLocals /\ cmd' = InitialCmd /\ commands' = commands
  BY DEF Reboot
<1>2. TypeOK'
  BY <1>1, InitialStateKeeps, InitialCmdType DEF IInv, TypeOK
<1>3. CountInv'
  BY <1>1, InitialStateKeeps, CommanderAssumption DEF CountInv
<1>4. TodoInv' /\ ControlSourceExclusive' /\ HilLocksDown' /\ StaleInv'
  BY <1>1, InitialStateKeeps, InitialCmdType
     DEF TodoInv, Updating, ControlSourceExclusive, Exclusive, HilLocksDown, StaleInv
<1> QED
  BY <1>2, <1>3, <1>4 DEF IInv

\* The first two tests of a mode request, each of which may call do_state_update.
LEMMA RequestKeeps ==
  ASSUME IInv, RequestArm \/ RequestDisarm
  PROVE  IInv'
<1>1. /\ cmd \in Cmd /\ cmd.pc \in {"arm", "disarm"}
      /\ UNCHANGED <<current_status, actuator_armed, locals, commands>>
  BY DEF IInv, TypeOK, RequestArm, RequestDisarm
<1>2. \/ cmd' = CallUpdate("GROUND_READY", "disarm") \/ cmd' = [cmd EXCEPT !.pc = "disarm"]
      \/ cmd' = CallUpdate("STANDBY", "hil") \/ cmd' = [cmd EXCEPT !.pc = "hil"]
  BY DEF RequestArm, RequestDisarm
<1>3. /\ cmd' \in Cmd /\ cmd'.pc \in {"begin", "disarm", "hil"}
      /\ cmd'.pc = "begin" => cmd'.next \in {"disarm", "hil"}
  BY <1>1, <1>2 DEF CallUpdate, Cmd, Labels, States
<1>4. TodoInv'
  BY <1>3 DEF TodoInv, Updating
<1>5. commands' \in 0..MaxCommands
  BY <1>1 DEF IInv, TypeOK
<1> QED
  BY <1>1, <1>3, <1>4, <1>5, OnlyCmdKeeps, LockedElsewhere

\* The third test switches HIL on; what is published is due from then.
LEMMA RequestHilKeeps ==
  ASSUME IInv, RequestHil
  PROVE  IInv'
<1>1. /\ cmd \in Cmd /\ cmd.pc = "hil" /\ current_status \in Status
      /\ UNCHANGED <<actuator_armed, locals, commands>>
  BY DEF IInv, TypeOK, RequestHil
<1>2. CASE cmd' = InitialCmd /\ UNCHANGED current_status
  <2>1. TodoInv' /\ commands' \in 0..MaxCommands
    BY <1>1, <1>2, InitialCmdType DEF TodoInv, Updating, IInv, TypeOK
  <2> QED
    BY <1>1, <1>2, <2>1, InitialCmdType, OnlyCmdKeeps, LockedElsewhere
<1>3. CASE /\ "HIL_ENABLED" \in cmd.mode
           /\ current_status' = [current_status EXCEPT !.flag_hil_enabled = TRUE]
           /\ cmd' = [cmd EXCEPT !.pc = "open", !.next = "idle"]
  <2>1. /\ current_status' \in Status
        /\ current_status'.rc_signal_found_once = current_status.rc_signal_found_once
        /\ current_status'.offboard_control_signal_found_once
             = current_status.offboard_control_signal_found_once
    BY <1>1, <1>3 DEF Status
  <2>2. cmd' \in Cmd /\ cmd'.pc = "open" /\ cmd'.next = "idle" /\ cmd'.mode = cmd.mode
    BY <1>1, <1>3 DEF Cmd, Labels
  <2>3. TypeOK' /\ CountInv' /\ TodoInv' /\ ControlSourceExclusive'
    BY <1>1, <2>1, <2>2
       DEF IInv, TypeOK, CountInv, TodoInv, Updating, ControlSourceExclusive
  <2>4. HilLocksDown' /\ StaleInv'
    BY <1>3, <2>2 DEF HilLocksDown, StaleInv
  <2> QED
    BY <2>3, <2>4 DEF IInv
<1> QED
  BY <1>2, <1>3 DEF RequestHil

\* A calibration that is not the last one leaves the others to do.
LEMMA TailType ==
  ASSUME NEW q \in Seq(Sensors), q # << >>
  PROVE  Tail(q) \in Seq(Sensors) /\ Head(q) \in Sensors
OBVIOUS

\* The steps of a calibration that leave the status alone.
LEMMA CalibrationKeeps ==
  ASSUME IInv, CalibrationStart \/ CalibrationCheck
  PROVE  IInv'
<1>1. /\ cmd \in Cmd /\ cmd.pc \in {"calibration", "check"} /\ cmd.todo \in Seq(Sensors)
      /\ UNCHANGED <<current_status, actuator_armed, locals, commands>>
      /\ cmd.pc = "check" => cmd.todo # << >>
  BY DEF IInv, TypeOK, Cmd, CalibrationStart, CalibrationCheck, TodoInv
<1>2. commands' \in 0..MaxCommands
  BY <1>1 DEF IInv, TypeOK
<1>3. cmd' \in Cmd /\ cmd'.pc \notin {"advertise", "publish"} /\ TodoInv'
  <2>1. CASE cmd' = InitialCmd
    BY <2>1, InitialCmdType DEF TodoInv, Updating
  <2>2. CASE cmd.todo # << >> /\ cmd' = CallUpdate("PREFLIGHT", "check")
    BY <1>1, <2>2 DEF CallUpdate, Cmd, Labels, States, TodoInv, Updating
  <2>3. CASE cmd.pc = "check" /\ cmd' = [cmd EXCEPT !.pc = "flag"]
    BY <1>1, <2>3 DEF Cmd, Labels, TodoInv, Updating
  <2>4. CASE cmd.pc = "check" /\ cmd' = [cmd EXCEPT !.pc = "calibration", !.todo = Tail(cmd.todo)]
    BY <1>1, <2>4, TailType DEF Cmd, Labels, TodoInv, Updating
  <2> QED
    BY <2>1, <2>2, <2>3, <2>4 DEF CalibrationStart, CalibrationCheck
<1> QED
  BY <1>1, <1>2, <1>3, OnlyCmdKeeps, LockedElsewhere

\* The calibration flag is set, and reset unless the calibration is aborted.
LEMMA FlagKeeps ==
  ASSUME IInv, CalibrationFlag \/ CalibrationEnds
  PROVE  IInv'
<1>1. /\ cmd \in Cmd /\ cmd.pc \in {"flag", "calibrate"} /\ cmd.todo \in Seq(Sensors)
      /\ cmd.todo # << >> /\ current_status \in Status
      /\ UNCHANGED <<actuator_armed, locals, commands>>
  BY DEF IInv, TypeOK, Cmd, CalibrationFlag, CalibrationEnds, TodoInv
<1>2. Head(cmd.todo) \in Sensors /\ Tail(cmd.todo) \in Seq(Sensors)
  BY <1>1, TailType
<1>3. /\ current_status' \in Status
      /\ current_status'.flag_hil_enabled = current_status.flag_hil_enabled
      /\ current_status'.rc_signal_found_once = current_status.rc_signal_found_once
      /\ current_status'.offboard_control_signal_found_once
           = current_status.offboard_control_signal_found_once
  <2>1. /\ current_status.calibrating \cup {Head(cmd.todo)} \in SUBSET Sensors
        /\ current_status.calibrating \ {Head(cmd.todo)} \in SUBSET Sensors
    BY <1>1, <1>2 DEF Status
  <2>2. \/ current_status' = current_status
        \/ \E c \in SUBSET Sensors : current_status' = [current_status EXCEPT !.calibrating = c]
    BY <2>1 DEF CalibrationFlag, CalibrationEnds
  <2> QED
    BY <1>1, <2>2 DEF Status
<1>4. cmd' \in Cmd /\ cmd'.pc \in {"calibrate", "begin"} /\ TodoInv'
  <2>1. CASE CalibrationFlag
    BY <1>1, <2>1 DEF CalibrationFlag, Cmd, Labels, TodoInv, Updating
  <2>2. CASE CalibrationEnds
    BY <1>1, <1>2, <2>2 DEF CalibrationEnds, CallUpdate, Cmd, Labels, States, TodoInv, Updating
  <2> QED
    BY <2>1, <2>2
<1>5. TypeOK' /\ CountInv'
  BY <1>1, <1>3, <1>4 DEF IInv, TypeOK, CountInv
<1>6. ControlSourceExclusive' /\ HilLocksDown' /\ StaleInv'
  BY <1>1, <1>3, <1>4, LockedElsewhere
     DEF IInv, ControlSourceExclusive, HilLocksDown, StaleInv
<1> QED
  BY <1>4, <1>5, <1>6 DEF IInv

-----------------------------------------------------------------------------
\* Every step of either thread keeps the invariant.
LEMMA NextIInv == IInv /\ [Next]_vars => IInv'
<1> SUFFICES ASSUME IInv, [Next]_vars PROVE IInv'
  OBVIOUS
<1>1. CASE MainLoop
  BY <1>1, MainLoopKeeps
<1>2. CASE \/ \E mode \in SUBSET ModeFlags : ReceiveMode(mode)
           \/ \E sensors \in Calibrations : ReceiveCalibration(sensors)
           \/ ReceiveReboot
  BY <1>2, ReceiveKeeps
<1>3. CASE \/ UpdateBegin \/ UpdateSwitch \/ UpdateAssign \/ UpdateCommit
           \/ UpdateOpen \/ UpdateAdvertise \/ UpdatePublish
  BY <1>3, UpdateBeginKeeps, UpdateSwitchKeeps, UpdateAssignKeeps, UpdateCommitKeeps,
     UpdateOpenKeeps, UpdateAdvertiseKeeps, UpdatePublishKeeps
<1>4. CASE Reboot
  BY <1>4, RebootKeeps
<1>5. CASE RequestArm \/ RequestDisarm \/ RequestHil
  BY <1>5, RequestKeeps, RequestHilKeeps
<1>6. CASE CalibrationStart \/ CalibrationCheck \/ CalibrationFlag \/ CalibrationEnds
  BY <1>6, CalibrationKeeps, FlagKeeps
<1>7. CASE UNCHANGED vars
  BY <1>7 DEF vars, IInv, TypeOK, CountInv, TodoInv, Updating, ControlSourceExclusive,
              HilLocksDown, StaleInv
<1> QED
  BY <1>1, <1>2, <1>3, <1>4, <1>5, <1>6, <1>7 DEF Next, CommandSteps

\* The invariant of the commander holds for every value of its limits.
THEOREM CommanderInvariance == Spec => []IInv
<1> QED
  BY InitIInv, NextIInv, PTL DEF Spec

(***************************************************************************)
(* The status, the loop's counters and the command thread keep their       *)
(* types: no hysteresis counter of commander.c runs away.                  *)
(***************************************************************************)
THEOREM CommanderTypeCorrect == Spec => []TypeOK
<1>1. IInv => TypeOK
  BY DEF IInv
<1> QED
  BY <1>1, CommanderInvariance, PTL

(***************************************************************************)
(* RC and offboard control are never both in command, in whatever order    *)
(* the signals of the main loop's two blocks come and go.                  *)
(***************************************************************************)
THEOREM OneControlSource == Spec => []ControlSourceExclusive
<1>1. IInv => ControlSourceExclusive
  BY DEF IInv
<1> QED
  BY <1>1, CommanderInvariance, PTL

(***************************************************************************)
(* Once HIL has been switched on by a command, no publication by either    *)
(* thread unlocks the actuators before the next reboot.                    *)
(***************************************************************************)
THEOREM HilLocksActuators == Spec => []HilLocksDown
<1>1. IInv => HilLocksDown
  BY DEF IInv
<1> QED
  BY <1>1, CommanderInvariance, PTL

\* A step of the command thread moves it on, so any other step is the main loop's.
LEMMA CommandMoves ==
  ASSUME IInv, Next, cmd' = cmd
  PROVE  MainLoop
<1>1. cmd \in Cmd
  BY DEF IInv, TypeOK
<1>2. CASE \/ \E mode \in SUBSET ModeFlags : ReceiveMode(mode)
           \/ \E sensors \in Calibrations : ReceiveCalibration(sensors)
           \/ ReceiveReboot
  BY <1>1, <1>2 DEF ReceiveMode, ReceiveCalibration, ReceiveReboot, Receive, Cmd
<1>3. CASE UpdateSwitch \/ UpdateAssign
  <2>1. CASE UpdateSwitch
    BY <2>1, SwitchLeads DEF UpdateSwitch
  <2>2. CASE UpdateAssign
    BY <1>1, <2>2, InitialCmdType DEF UpdateAssign, Cmd
  <2> QED
    BY <1>3, <2>1, <2>2
<1>4. CASE UpdateBegin \/ UpdateCommit \/ UpdateOpen \/ UpdateAdvertise
  BY <1>1, <1>4 DEF UpdateBegin, UpdateCommit, UpdateOpen, UpdateAdvertise, Cmd
<1>5. CASE UpdatePublish
  <2>1. cmd.pc = "publish" /\ cmd.next \in {"idle", "disarm", "hil", "check", "calibration"}
    BY <1>1, <1>5 DEF UpdatePublish, Cmd
  <2>2. cmd.next = "check" => cmd.todo # << >>
    BY <2>1 DEF IInv, TodoInv, Updating
  <2> QED
    BY <1>1, <1>5, <2>1, <2>2, GoOnType DEF UpdatePublish
<1>6. CASE Reboot
  BY <1>6, InitialCmdType DEF Reboot
<1>7. CASE RequestArm \/ RequestDisarm \/ RequestHil
  BY <1>1, <1>7, InitialCmdType DEF RequestArm, RequestDisarm, RequestHil, CallUpdate, Cmd
<1>8. CASE CalibrationStart \/ CalibrationCheck \/ CalibrationFlag \/ CalibrationEnds
  BY <1>1, <1>8, InitialCmdType
     DEF CalibrationStart, CalibrationCheck, CalibrationFlag, CalibrationEnds, CallUpdate, Cmd
<1> QED
  BY <1>2, <1>3, <1>4, <1>5, <1>6, <1>7, <1>8 DEF Next, CommandSteps

(***************************************************************************)
(* No step of the main loop leaves an emergency: neither the stick nor the *)
(* mode switch, the offboard setpoint or the standby check.                *)
(***************************************************************************)
THEOREM EmergenciesAreFinal == Spec => EmergencyIsFinal
<1> DEFINE Final ==
      cmd' = cmd /\ current_status.state_machine \in {"MISSION_ABORT", "GROUND_ERROR"}
        => current_status'.state_machine = current_status.state_machine
<1>1. IInv /\ [Next]_vars => [Final]_vars
  <2> SUFFICES ASSUME IInv, Next, cmd' = cmd,
                      current_status.state_machine \in {"MISSION_ABORT", "GROUND_ERROR"}
               PROVE  current_status'.state_machine = current_status.state_machine
    OBVIOUS
  <2>1. PICK m : Safe(Start, m) /\ current_status' = m.s
    BY CommandMoves, MainLoopSafe DEF IInv
  <2>2. Start.s = current_status
    BY DEF Start
  <2> QED
    BY <2>1, <2>2 DEF Safe, Emergencies
<1> QED
  BY <1>1, CommanderInvariance, PTL DEF Spec, EmergencyIsFinal
=============================================================================
