---------------------------- MODULE PX4IOProofs ----------------------------
(***************************************************************************)
(* Proofs that the safety properties of PX4IO hold for every drop limit,   *)
(* every threshold of the button, every capacity of the link and any       *)
(* number of restarts.                                                     *)
(***************************************************************************)
EXTENDS PX4IO, TLAPS

-----------------------------------------------------------------------------
\* A link keeps its type, whether a frame is lost or not.
LEMMA LinkTyped ==
  ASSUME NEW link \in Seq(BOOLEAN), Len(link) <= LinkCapacity, NEW x \in BOOLEAN,
         NEW l \in Sent(link, x)
  PROVE  l \in Seq(BOOLEAN) /\ Len(l) <= LinkCapacity
<1>1. CASE l = link
  BY <1>1
<1>2. CASE l = Append(link, x) /\ Len(l) <= LinkCapacity
  BY <1>2
<1> QED
  BY <1>1, <1>2 DEF Sent

\* The first frame of a link, and what is left after some have been taken.
LEMMA LinkTaken ==
  ASSUME NEW link \in Seq(BOOLEAN), Len(link) <= LinkCapacity, link # << >>
  PROVE  /\ Head(link) \in BOOLEAN
         /\ Tail(link) \in Seq(BOOLEAN) /\ Len(Tail(link)) <= LinkCapacity
         /\ \A n \in 1..Len(link) :
              /\ link[n] \in BOOLEAN
              /\ SubSeq(link, n + 1, Len(link)) \in Seq(BOOLEAN)
              /\ Len(SubSeq(link, n + 1, Len(link))) <= LinkCapacity
<1>1. LinkCapacity \in Nat
  BY PX4IOAssumption
<1>2. Len(link) \in Nat /\ Len(link) > 0
  OBVIOUS
<1>3. Head(link) \in BOOLEAN
  BY <1>2
<1>4. Tail(link) \in Seq(BOOLEAN) /\ Len(Tail(link)) = Len(link) - 1
  BY <1>2
<1>5. ASSUME NEW n \in 1..Len(link)
      PROVE  /\ link[n] \in BOOLEAN
             /\ SubSeq(link, n + 1, Len(link)) \in Seq(BOOLEAN)
             /\ Len(SubSeq(link, n + 1, Len(link))) <= LinkCapacity
  <2>1. link[n] \in BOOLEAN
    OBVIOUS
  <2>2. /\ SubSeq(link, n + 1, Len(link)) \in Seq(BOOLEAN)
        /\ Len(SubSeq(link, n + 1, Len(link))) = Len(link) - n
    BY <1>2
  <2> QED
    BY <1>1, <1>2, <2>1, <2>2
<1> QED
  BY <1>1, <1>2, <1>3, <1>4, <1>5

\* What the invariant needs of the constants.
LEMMA Constants ==
  /\ FMU_INPUT_DROP_LIMIT \in Nat /\ FMU_INPUT_DROP_LIMIT > 0
  /\ MIXER_INPUT_DROP_LIMIT \in Nat /\ MIXER_INPUT_DROP_LIMIT > 0
  /\ ARM_COUNTER_THRESHOLD \in Nat /\ MaxResets \in Nat
  /\ LinkCapacity \in Nat
BY PX4IOAssumption

-----------------------------------------------------------------------------
\* The invariant holds when both sides start.
LEMMA InitIInv == Init => IInv
<1> SUFFICES ASSUME Init PROVE IInv
  OBVIOUS
<1>1. TypeOK
  <2>1. /\ fmu_input_drops \in 0..(FMU_INPUT_DROP_LIMIT + 1)
        /\ mixer_input_drops \in 0..MIXER_INPUT_DROP_LIMIT
        /\ arm_counter \in 0..(ARM_COUNTER_THRESHOLD + 1)
        /\ since_command \in 0..CommandCap /\ since_rc \in 0..RcCap
        /\ unused \in 0..2 /\ resets \in 0..MaxResets
    BY Constants DEF Init, CommandCap, RcCap
  <2>2. /\ toIO \in Seq(BOOLEAN) /\ Len(toIO) <= LinkCapacity
        /\ toFMU \in Seq(BOOLEAN) /\ Len(toFMU) <= LinkCapacity
    BY Constants DEF Init
  <2> QED
    BY <2>1, <2>2 DEF Init, TypeOK
<1>2. ArmedIsPermitted /\ DropInv /\ RcInv /\ UnusedInv /\ FailsafeDisarms
  BY Constants DEF Init, ArmedIsPermitted, DropInv, RcInv, UnusedInv, FailsafeDisarms
<1>3. CommandInv
  BY Constants DEF Init, CommandInv, CommandCap
<1> QED
  BY <1>1, <1>2, <1>3 DEF IInv

\* mixer_tick: the parts of the state it does not touch keep their type.
LEMMA TickTyped ==
  ASSUME IInv, NEW got \in BOOLEAN, mixer_tick(got)
  PROVE  TypeOK'
<1> USE Constants
<1>1. rc_channels' \in BOOLEAN /\ fmu_report_due' \in BOOLEAN /\ mixer_servos_armed' \in BOOLEAN
      /\ ticked' \in BOOLEAN /\ mixer_use_fmu' \in BOOLEAN /\ fmu_data_received' \in BOOLEAN
  BY DEF mixer_tick, mixer_get_rc_input, TickMayCome, CheckFmu, TypeOK, IInv
<1>2. mixer_input_drops' \in 0..MIXER_INPUT_DROP_LIMIT
  BY DEF mixer_tick, mixer_get_rc_input, Later, TypeOK, IInv
<1>3. fmu_input_drops' \in 0..(FMU_INPUT_DROP_LIMIT + 1)
  BY DEF mixer_tick, TickMayCome, Handling, CheckFmu, TypeOK, IInv, DropInv
<1>4. since_command' \in 0..CommandCap /\ since_rc' \in 0..RcCap
  BY DEF mixer_tick, Later, TypeOK, IInv, CommandCap, RcCap
<1> QED
  BY <1>1, <1>2, <1>3, <1>4 DEF mixer_tick, TypeOK, IInv, linkVars, driverVars

\* The tick is the heart of the argument: it counts drops, fails over and arms.
LEMMA TickKeeps ==
  ASSUME IInv, NEW got \in BOOLEAN, mixer_tick(got)
  PROVE  IInv'
<1> USE Constants
<1>1. TypeOK'
  BY TickTyped
<1>2. ArmedIsPermitted'
  BY DEF mixer_tick, ArmedIsPermitted, Handling, IInv
<1>3. DropInv'
  BY DEF mixer_tick, TickMayCome, Handling, CheckFmu, TypeOK, IInv, DropInv
<1>4. CommandInv'
  BY DEF mixer_tick, TickMayCome, Handling, CheckFmu, Later, CommandCap, TypeOK, IInv, DropInv,
         CommandInv
<1>5. RcInv'
  BY DEF mixer_tick, mixer_get_rc_input, RcLost, Later, RcCap, TypeOK, IInv, RcInv
<1>6. UnusedInv'
  BY DEF mixer_tick, TickMayCome, Handling, CheckFmu, TypeOK, IInv, UnusedInv
<1>7. FailsafeDisarms'
  <2> SUFFICES ASSUME mixer_servos_armed', ~Handling'
               PROVE  since_command' <= FMU_INPUT_DROP_LIMIT + 1
                      \/ since_rc' < MIXER_INPUT_DROP_LIMIT
    BY DEF FailsafeDisarms
  <2>1. CASE rc_channels'
    BY <1>5, <2>1 DEF RcInv
  <2>2. CASE mixer_use_fmu
    <3>1. since_command <= FMU_INPUT_DROP_LIMIT
      BY <2>2 DEF mixer_tick, Handling, TypeOK, IInv, DropInv, CommandInv
    <3> QED
      BY <3>1 DEF mixer_tick, Later, CommandCap, TypeOK, IInv
  <2> QED
    BY <2>1, <2>2 DEF mixer_tick
<1> QED
  BY <1>1, <1>2, <1>3, <1>4, <1>5, <1>6, <1>7 DEF IInv

\* The button touches armed, and only with permission.
LEMMA ButtonKeeps ==
  ASSUME IInv, NEW pressed \in BOOLEAN, safety_check_button(pressed)
  PROVE  IInv'
<1> USE Constants
<1>1. TypeOK'
  <2>1. arm_counter' \in 0..(ARM_COUNTER_THRESHOLD + 1)
    BY DEF safety_check_button, TypeOK, IInv
  <2>2. armed' \in BOOLEAN /\ fmu_report_due' \in BOOLEAN
    BY DEF safety_check_button, TypeOK, IInv
  <2> QED
    BY <2>1, <2>2 DEF safety_check_button, TypeOK, IInv, linkVars, driverVars, history, mixerVars
<1>2. ArmedIsPermitted'
  BY DEF safety_check_button, ArmedIsPermitted, Handling, IInv
<1>3. DropInv' /\ CommandInv' /\ RcInv' /\ UnusedInv' /\ FailsafeDisarms'
  BY DEF safety_check_button, IInv, DropInv, CommandInv, RcInv, UnusedInv, FailsafeDisarms,
         Handling, mixerVars, history
<1> QED
  BY <1>1, <1>2, <1>3 DEF IInv

\* A report only puts a frame on the link.
LEMMA ReportKeeps ==
  ASSUME IInv, ReportSend
  PROVE  IInv'
<1>1. toFMU' \in Seq(BOOLEAN) /\ Len(toFMU') <= LinkCapacity
  BY LinkTyped DEF ReportSend, TypeOK, IInv
<1>2. TypeOK'
  BY <1>1 DEF ReportSend, TypeOK, IInv, driverVars, history, mixerVars
<1>3. ArmedIsPermitted' /\ DropInv' /\ CommandInv' /\ RcInv' /\ UnusedInv' /\ FailsafeDisarms'
  BY DEF ReportSend, IInv, ArmedIsPermitted, DropInv, CommandInv, RcInv, UnusedInv,
         FailsafeDisarms, Handling, mixerVars, history
<1> QED
  BY <1>2, <1>3 DEF IInv

\* A permission that is withdrawn leaves armed to the rest of the handling.
LEMMA FrameArmKeeps ==
  ASSUME IInv, FrameArm
  PROVE  IInv'
<1>1. arm_ok' \in BOOLEAN /\ toIO' \in Seq(BOOLEAN) /\ Len(toIO') <= LinkCapacity
  BY LinkTaken DEF FrameArm, TypeOK, IInv
<1>2. TypeOK'
  BY <1>1 DEF FrameArm, TypeOK, IInv, driverVars, history, mixerVars
<1>3. ArmedIsPermitted' /\ DropInv' /\ CommandInv' /\ RcInv' /\ UnusedInv' /\ FailsafeDisarms'
  BY DEF FrameArm, IInv, ArmedIsPermitted, DropInv, CommandInv, RcInv, UnusedInv,
         FailsafeDisarms, Handling, mixerVars, history
<1> QED
  BY <1>2, <1>3 DEF IInv

\* From here to FrameReceived the FMU may be in control with too many drops.
LEMMA FrameUseKeeps ==
  ASSUME IInv, FrameUse
  PROVE  IInv'
<1>1. TypeOK'
  BY DEF FrameUse, TypeOK, IInv, linkVars, driverVars, history, mixerVars
<1>2. ArmedIsPermitted' /\ RcInv' /\ FailsafeDisarms'
  BY DEF FrameUse, IInv, ArmedIsPermitted, RcInv, FailsafeDisarms, Handling, mixerVars, history
<1>3. DropInv' /\ CommandInv' /\ UnusedInv'
  BY DEF FrameUse, IInv, DropInv, CommandInv, UnusedInv, mixerVars, history
<1> QED
  BY <1>1, <1>2, <1>3 DEF IInv

\* A command is complete: its age is 0 and its data waits for a tick.
LEMMA FrameReceivedKeeps ==
  ASSUME IInv, FrameReceived
  PROVE  IInv'
<1> USE Constants
<1>1. unused' \in 0..1 /\ since_command' = 0
  BY DEF FrameReceived, Later, IInv, UnusedInv
<1>2. TypeOK'
  <2>1. unused' \in 0..2 /\ since_command' \in 0..CommandCap
    BY <1>1 DEF CommandCap
  <2> QED
    BY <2>1 DEF FrameReceived, TypeOK, IInv, linkVars, driverVars, mixerVars
<1>3. ArmedIsPermitted' /\ RcInv' /\ FailsafeDisarms'
  BY DEF FrameReceived, IInv, ArmedIsPermitted, RcInv, FailsafeDisarms, Handling, mixerVars
<1>4. DropInv' /\ CommandInv'
  BY <1>1 DEF FrameReceived, IInv, DropInv, CommandInv, mixerVars
<1>5. UnusedInv'
  BY <1>1 DEF FrameReceived, Later, IInv, UnusedInv, TypeOK
<1> QED
  BY <1>2, <1>3, <1>4, <1>5 DEF IInv

\* The handling ends: the command is one tick old at most.
LEMMA FrameDisarmKeeps ==
  ASSUME IInv, FrameDisarm
  PROVE  IInv'
<1> USE Constants
<1>1. TypeOK'
  BY DEF FrameDisarm, TypeOK, IInv, linkVars, driverVars, history, mixerVars
<1>2. ArmedIsPermitted' /\ RcInv'
  BY DEF FrameDisarm, IInv, ArmedIsPermitted, RcInv, Handling, mixerVars, history
<1>3. DropInv' /\ CommandInv' /\ UnusedInv'
  BY DEF FrameDisarm, IInv, DropInv, CommandInv, UnusedInv, mixerVars, history
<1>4. FailsafeDisarms'
  BY DEF FrameDisarm, IInv, CommandInv, FailsafeDisarms, Handling, TypeOK, mixerVars, history
<1> QED
  BY <1>1, <1>2, <1>3, <1>4 DEF IInv

\* What the driver does reaches the IO board only by the link.
LEMMA DriverKeeps ==
  ASSUME IInv, (\E ok \in BOOLEAN : ioctl(ok)) \/ Driver \/ FmuRestart
  PROVE  IInv'
<1>1. UNCHANGED <<stateVars, mixerVars, arm_counter, iopc, ticked, history>>
  BY DEF ioctl, Driver, ReportsArrive, PollTimeout, FmuRestart
<1>2. TypeOK'
  <2>1. CASE \E ok \in BOOLEAN : ioctl(ok)
    BY <1>1, <2>1 DEF ioctl, TypeOK, IInv, stateVars, mixerVars, linkVars, history
  <2>2. CASE PollTimeout
    <3>1. toIO' \in Seq(BOOLEAN) /\ Len(toIO') <= LinkCapacity
      BY <2>2, LinkTyped DEF PollTimeout, io_send, TypeOK, IInv
    <3> QED
      BY <1>1, <2>2, <3>1 DEF PollTimeout, TypeOK, IInv, stateVars, mixerVars, driverVars, history
  <2>3. CASE ReportsArrive
    <3>1. toIO' \in Seq(BOOLEAN) /\ Len(toIO') <= LinkCapacity
      BY <2>3, LinkTyped DEF ReportsArrive, io_send, TypeOK, IInv
    <3>2. PICK n \in 1..Len(toFMU) :
            _armed' = toFMU[n] /\ toFMU' = SubSeq(toFMU, n + 1, Len(toFMU))
      BY <2>3 DEF ReportsArrive
    <3>3. toFMU # << >>
      OBVIOUS
    <3>4. _armed' \in BOOLEAN /\ toFMU' \in Seq(BOOLEAN) /\ Len(toFMU') <= LinkCapacity
      BY <3>2, <3>3, LinkTaken DEF TypeOK, IInv
    <3> QED
      BY <1>1, <2>3, <3>1, <3>4 DEF ReportsArrive, TypeOK, IInv, stateVars, mixerVars, history
  <2>4. CASE FmuRestart
    <3>1. resets' \in 0..MaxResets
      BY <2>4, Constants DEF FmuRestart, TypeOK, IInv
    <3> QED
      BY <1>1, <2>4, <3>1 DEF FmuRestart, TypeOK, IInv, stateVars, mixerVars, linkVars, history
  <2> QED
    BY <2>1, <2>2, <2>3, <2>4 DEF Driver
<1>3. ArmedIsPermitted' /\ DropInv' /\ CommandInv' /\ RcInv' /\ UnusedInv' /\ FailsafeDisarms'
  BY <1>1 DEF IInv, ArmedIsPermitted, DropInv, CommandInv, RcInv, UnusedInv, FailsafeDisarms,
              Handling, stateVars, mixerVars, history
<1> QED
  BY <1>2, <1>3 DEF IInv

\* A restart of the board is another beginning.
LEMMA IoRestartKeeps ==
  ASSUME IInv, IoRestart
  PROVE  IInv'
<1> USE Constants
<1>1. TypeOK'
  <2>1. /\ fmu_input_drops' \in 0..(FMU_INPUT_DROP_LIMIT + 1)
        /\ mixer_input_drops' \in 0..MIXER_INPUT_DROP_LIMIT
        /\ arm_counter' \in 0..(ARM_COUNTER_THRESHOLD + 1)
        /\ since_command' \in 0..CommandCap /\ since_rc' \in 0..RcCap
        /\ unused' \in 0..2 /\ resets' \in 0..MaxResets
    BY DEF IoRestart, TypeOK, IInv, CommandCap, RcCap
  <2> QED
    BY <2>1 DEF IoRestart, TypeOK, IInv, linkVars, driverVars
<1>2. ArmedIsPermitted' /\ DropInv' /\ RcInv' /\ UnusedInv' /\ FailsafeDisarms'
  BY DEF IoRestart, ArmedIsPermitted, DropInv, RcInv, UnusedInv, FailsafeDisarms
<1>3. CommandInv'
  BY DEF IoRestart, CommandInv, CommandCap
<1> QED
  BY <1>1, <1>2, <1>3 DEF IInv

\* Every step keeps the invariant.
LEMMA NextIInv == IInv /\ [Next]_vars => IInv'
<1> SUFFICES ASSUME IInv, [Next]_vars PROVE IInv'
  OBVIOUS
<1>1. CASE \E got \in BOOLEAN : mixer_tick(got)
  BY <1>1, TickKeeps
<1>2. CASE \E pressed \in BOOLEAN : safety_check_button(pressed)
  BY <1>2, ButtonKeeps
<1>3. CASE FrameArm
  BY <1>3, FrameArmKeeps
<1>4. CASE MainLoop
  BY <1>4, ReportKeeps, FrameUseKeeps, FrameReceivedKeeps, FrameDisarmKeeps DEF MainLoop
<1>5. CASE Driver \/ (\E ok \in BOOLEAN : ioctl(ok)) \/ FmuRestart
  BY <1>5, DriverKeeps
<1>6. CASE IoRestart
  BY <1>6, IoRestartKeeps
<1>7. CASE UNCHANGED vars
  BY <1>7 DEF vars, IInv, TypeOK, ArmedIsPermitted, DropInv, CommandInv, RcInv, UnusedInv,
              FailsafeDisarms, Handling
<1> QED
  BY <1>1, <1>2, <1>3, <1>4, <1>5, <1>6, <1>7 DEF Next

-----------------------------------------------------------------------------
(***************************************************************************)
(* The inductive invariant: what the drop counters, the flags and the      *)
(* position in a command's handling say about each other.                  *)
(***************************************************************************)
THEOREM IoInvariance == Spec => []IInv
  BY InitIInv, NextIInv, PTL DEF Spec

(***************************************************************************)
(* The types; in particular fmu_input_drops, which the code never stops    *)
(* from counting, exceeds its limit by one at most.                        *)
(***************************************************************************)
THEOREM IoTypeCorrect == Spec => []TypeOK
<1>1. IInv => TypeOK
  BY DEF IInv
<1> QED
  BY <1>1, IoInvariance, PTL

(***************************************************************************)
(* The board is armed only while the FMU allows it, except during the      *)
(* handling of the command that withdraws the permission.                  *)
(***************************************************************************)
THEOREM ArmingNeedsPermission == Spec => []ArmedIsPermitted
<1>1. IInv => ArmedIsPermitted
  BY DEF IInv
<1> QED
  BY <1>1, IoInvariance, PTL

(***************************************************************************)
(* Armed servos are never driven by input older than the drop limits.      *)
(***************************************************************************)
THEOREM StaleInputDisarms == Spec => []FailsafeDisarms
<1>1. IInv => FailsafeDisarms
  BY DEF IInv
<1> QED
  BY <1>1, IoInvariance, PTL

(***************************************************************************)
(* Of two commands in a row the mixer uses one, also after an outage.      *)
(***************************************************************************)
THEOREM CommandsAreUsed == Spec => []SecondCommandIsUsed
<1>1. IInv => SecondCommandIsUsed
  BY DEF IInv, UnusedInv, SecondCommandIsUsed
<1> QED
  BY <1>1, IoInvariance, PTL

(***************************************************************************)
(* The mixer gives up FMU control only after more than the limit of ticks  *)
(* without a complete command, or because the board restarts.              *)
(***************************************************************************)
THEOREM FailoversAreDeserved == Spec => FailoverIsDeserved
<1>1. ASSUME IInv, [Next]_vars, mixer_use_fmu, ~mixer_use_fmu', resets' = resets
      PROVE  since_command' > FMU_INPUT_DROP_LIMIT
  <2>1. PICK got \in BOOLEAN : mixer_tick(got)
    <3>1. ~(FmuRestart \/ IoRestart)
      BY <1>1 DEF FmuRestart, IoRestart, TypeOK, IInv
    <3>2. ~(FrameArm \/ MainLoop)
      BY <1>1 DEF MainLoop, FrameArm, ReportSend, FrameUse, FrameReceived, FrameDisarm
    <3>3. ~(Driver \/ \E ok \in BOOLEAN : ioctl(ok))
      BY <1>1 DEF Driver, ioctl, ReportsArrive, PollTimeout, stateVars
    <3>4. ~\E pressed \in BOOLEAN : safety_check_button(pressed)
      BY <1>1 DEF safety_check_button
    <3>5. ~UNCHANGED vars
      BY <1>1 DEF vars
    <3> QED
      BY <1>1, <3>1, <3>2, <3>3, <3>4, <3>5 DEF Next
  <2>2. ~fmu_data_received /\ fmu_input_drops + 1 >= FMU_INPUT_DROP_LIMIT
    <3>1. CheckFmu
      BY <1>1, <2>1 DEF mixer_tick
    <3>2. ~fmu_data_received /\ ~(fmu_input_drops' < FMU_INPUT_DROP_LIMIT)
      BY <1>1, <3>1 DEF CheckFmu
    <3>3. fmu_input_drops' = fmu_input_drops + 1
      BY <3>1, <3>2 DEF CheckFmu
    <3> QED
      BY <1>1, <3>2, <3>3, Constants DEF TypeOK, IInv
  <2>3. since_command >= FMU_INPUT_DROP_LIMIT
    BY <1>1, <2>2, Constants DEF IInv, TypeOK, CommandInv
  <2> QED
    BY <1>1, <2>1, <2>3, Constants DEF mixer_tick, Later, CommandCap, IInv, TypeOK
<1>2. IInv /\ [Next]_vars =>
        [mixer_use_fmu /\ ~mixer_use_fmu' =>
           since_command' > FMU_INPUT_DROP_LIMIT \/ resets' # resets]_vars
  BY <1>1
<1> QED
  BY <1>2, IoInvariance, PTL DEF Spec, FailoverIsDeserved
=============================================================================
