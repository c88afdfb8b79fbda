-------------------------------- MODULE HRT --------------------------------
(***************************************************************************)
(* The high-resolution timer of the px4fmu board                           *)
(* (src/nuttx/configs/px4fmu/src/up_hrt.c): a 16-bit counter that runs     *)
(* freely at 1 MHz, one compare register that raises an interrupt, a       *)
(* 64-bit absolute time reconstructed from the counter, and a queue of     *)
(* callouts ordered by deadline.                                           *)
(*                                                                         *)
(* Real time is a pair of variables the code cannot see: `epoch' (the      *)
(* counter periods that have gone by, in ticks) plus the counter itself.   *)
(* Routines that run with interrupts disabled are single steps.  The       *)
(* interrupt handler is a process of its own: time passes while it runs,   *)
(* each callout it invokes may use the timer interface, and no thread runs *)
(* until it returns.                                                       *)
(***************************************************************************)
EXTENDS Integers, Sequences

CONSTANTS
  Calls,               \* the struct hrt_call instances in the system
  HRT_COUNTER_PERIOD,  \* 65536 in the code
  HRT_INTERVAL_MIN,    \* 50 in the code
  HRT_INTERVAL_MAX,    \* 50000 in the code
  FirstCapture,        \* 1000 in the code: the compare value hrt_tim_init writes
  Delays,              \* the delays callers pass
  Periods,             \* the periods callers pass to hrt_call_every
  MaxLatency,          \* ticks from a compare match to the end of its handler
  EntryDelay,          \* ticks a caller may lose between reading the time and queueing
  Horizon              \* bound on the real time explored

NoCall == "NULL"

(***************************************************************************)
(* What up_hrt.c requires of the numbers: a deadline is set at least one   *)
(* tick ahead, and even when the handler is late the counter has not gone  *)
(* once round since the time was last read.                                *)
(***************************************************************************)
ASSUME HRTAssumption ==
  /\ NoCall \notin Calls
  /\ HRT_INTERVAL_MIN \in Nat \ {0}
  /\ HRT_INTERVAL_MAX \in Nat /\ HRT_INTERVAL_MIN <= HRT_INTERVAL_MAX
  /\ FirstCapture \in 1..HRT_INTERVAL_MAX
  /\ MaxLatency \in Nat /\ EntryDelay \in Nat /\ Horizon \in Nat
  /\ HRT_COUNTER_PERIOD \in Nat
  /\ HRT_INTERVAL_MAX + MaxLatency < HRT_COUNTER_PERIOD
  /\ Delays \subseteq Nat
  /\ Periods \subseteq Nat \ {0}

VARIABLES
  rCNT,           \* the free-running counter
  epoch,          \* ticks in the counter periods already completed
  rCCR_HRT,       \* the compare register
  SR_INT_HRT,     \* the compare interrupt is pending
  late,           \* ticks the interrupt has been pending or in service
  base_time, last_count,     \* statics of hrt_absolute_time
  callout_queue,  \* the callouts, in list order
  deadline,       \* per call; zero when it is not queued
  period,         \* per call; zero unless periodic
  isr,            \* where the handler is: "off", "invoke" or "callout"
  cur,            \* the call whose callout is running
  saved           \* the deadline the running call was due at

clockVars == <<rCNT, epoch>>
timeVars  == <<base_time, last_count>>
isrVars   == <<isr, cur, saved>>
vars == <<rCNT, epoch, rCCR_HRT, SR_INT_HRT, late, base_time, last_count,
          callout_queue, deadline, period, isr, cur, saved>>

\* The real time, in ticks since the timer was started.
RealTime == epoch + rCNT

Init ==
  /\ rCNT = 0 /\ epoch = 0
  /\ rCCR_HRT = FirstCapture
  /\ SR_INT_HRT = FALSE /\ late = 0
  /\ base_time = 0 /\ last_count = 0
  /\ callout_queue = << >>
  /\ deadline = [c \in Calls |-> 0]
  /\ period = [c \in Calls |-> 0]
  /\ isr = "off" /\ cur = NoCall /\ saved = 0

-----------------------------------------------------------------------------
(***************************************************************************)
(* hrt_absolute_time: the value it returns and what it leaves in its       *)
(* statics.                                                                *)
(***************************************************************************)
NewBase == IF rCNT < last_count THEN base_time + HRT_COUNTER_PERIOD ELSE base_time

hrt_absolute_time == NewBase + rCNT

ReadTime == base_time' = NewBase /\ last_count' = rCNT

\* Mutant: the deadline is written to the register as it is.
Truncate_Wide(d) == d

\* The low bits that fit the 16-bit compare register.
Truncate(d) == d % HRT_COUNTER_PERIOD

\* Mutant: a distant deadline is not cut down to HRT_INTERVAL_MAX.
NextDeadline_NoMax(q, dl) ==
  LET now == hrt_absolute_time
  IN  IF q = << >> THEN now + HRT_INTERVAL_MAX
      ELSE IF dl[Head(q)] <= now + HRT_INTERVAL_MIN THEN now + HRT_INTERVAL_MIN
      ELSE dl[Head(q)]

\* The deadline hrt_call_reschedule chooses for a queue and its deadlines.
NextDeadline(q, dl) ==
  LET now == hrt_absolute_time
      max == now + HRT_INTERVAL_MAX
  IN  IF q = << >> THEN max
      ELSE IF dl[Head(q)] <= now + HRT_INTERVAL_MIN THEN now + HRT_INTERVAL_MIN
      ELSE IF dl[Head(q)] < max THEN dl[Head(q)]
      ELSE max

hrt_call_reschedule(q, dl) ==
  /\ ReadTime
  /\ rCCR_HRT' = Truncate(NextDeadline(q, dl))

(***************************************************************************)
(* The list after hrt_call_enter's scan: in front of the first call that   *)
(* is due strictly later, behind every call due at the same time.          *)
(***************************************************************************)
LaterAt(q, dl, d) == {i \in 1..Len(q) : d < dl[q[i]]}

InsertCall(q, i, c) ==
  [k \in 1..(Len(q) + 1) |-> IF k < i THEN q[k] ELSE IF k = i THEN c ELSE q[k - 1]]

Enter(q, dl, c) ==
  LET later == LaterAt(q, dl, dl[c])
      at == IF later = {} THEN Len(q) + 1
            ELSE CHOOSE i \in later : \A j \in later : i <= j
  IN  InsertCall(q, at, c)

\* sq_rem: take a call out of the list, wherever it is.
RemoveCall(q, i) ==
  [k \in 1..(Len(q) - 1) |-> IF k < i THEN q[k] ELSE q[k + 1]]

InQueue(q, c) == \E i \in 1..Len(q) : q[i] = c

sq_rem(q, c) ==
  IF InQueue(q, c)
  THEN RemoveCall(q, CHOOSE i \in 1..Len(q) : q[i] = c)
  ELSE q

\* Mutant: the timer is not reprogrammed for a new head.
hrt_call_enter_NoReschedule(q, dl, c) ==
  /\ callout_queue' = Enter(q, dl, c)
  /\ UNCHANGED <<rCCR_HRT, base_time, last_count>>

\* hrt_call_enter on list q: the timer is only reprogrammed for a new head.
hrt_call_enter(q, dl, c) ==
  /\ callout_queue' = Enter(q, dl, c)
  /\ IF Head(Enter(q, dl, c)) = c
     THEN hrt_call_reschedule(Enter(q, dl, c), dl)
     ELSE UNCHANGED <<rCCR_HRT, base_time, last_count>>

\* Mutant: a call that is already queued is not taken out first.
hrt_call_internal_NoRemove(c, d, p) ==
  /\ deadline' = [deadline EXCEPT ![c] = d]
  /\ period' = [period EXCEPT ![c] = p]
  /\ hrt_call_enter(callout_queue, deadline', c)

hrt_call_internal(c, d, p) ==
  LET q == IF deadline[c] # 0 THEN sq_rem(callout_queue, c) ELSE callout_queue
  IN  /\ deadline' = [deadline EXCEPT ![c] = d]
      /\ period' = [period EXCEPT ![c] = p]
      /\ hrt_call_enter(q, deadline', c)

-----------------------------------------------------------------------------
(***************************************************************************)
(* The interface.  A thread may call it while no handler is running; a     *)
(* callout may call it too.  The deadline is computed from a time that may *)
(* be up to EntryDelay old when the call is queued: hrt_call_after reads   *)
(* the time before it disables interrupts.  A periodic call that re-armed  *)
(* itself as periodic from its own callout would be queued twice: no       *)
(* caller in the tree does so, and the model excludes it.                  *)
(***************************************************************************)
MayCall == isr \in {"off", "callout"}

\* Anybody reads the time; the read in hrt_call_after and hrt_call_every is one of these.
CallAbsoluteTime ==
  /\ MayCall
  /\ ReadTime
  /\ UNCHANGED <<clockVars, rCCR_HRT, SR_INT_HRT, late, callout_queue,
                 deadline, period, isrVars>>

\* The deadline for `delay', from a time read at most EntryDelay ticks ago.
EntryDeadlines(delay) ==
  {hrt_absolute_time - age + delay : age \in 0..(IF isr = "off" THEN EntryDelay ELSE 0)}

hrt_call_after(c, delay) ==
  /\ MayCall
  /\ \E d \in EntryDeadlines(delay) : d > 0 /\ hrt_call_internal(c, d, 0)
  /\ UNCHANGED <<clockVars, SR_INT_HRT, late, isrVars>>

hrt_call_every(c, delay, p) ==
  /\ MayCall /\ c # cur
  /\ \E d \in EntryDeadlines(delay) : d > 0 /\ hrt_call_internal(c, d, p)
  /\ UNCHANGED <<clockVars, SR_INT_HRT, late, isrVars>>

hrt_cancel(c) ==
  /\ MayCall
  /\ callout_queue' = sq_rem(callout_queue, c)
  /\ deadline' = [deadline EXCEPT ![c] = 0]
  /\ period' = [period EXCEPT ![c] = 0]
  /\ UNCHANGED <<clockVars, rCCR_HRT, SR_INT_HRT, late, timeVars, isrVars>>

-----------------------------------------------------------------------------
(***************************************************************************)
(* The interrupt handler hrt_tim_isr: acknowledge, then hrt_call_invoke    *)
(* one call at a time, then hrt_call_reschedule.                           *)
(***************************************************************************)
hrt_tim_isr ==
  /\ isr = "off" /\ SR_INT_HRT
  /\ SR_INT_HRT' = FALSE
  /\ isr' = "invoke"
  /\ UNCHANGED <<clockVars, rCCR_HRT, late, timeVars, callout_queue,
                 deadline, period, cur, saved>>

\* hrt_call_invoke pops the head once it is due and calls it.
Invoke ==
  /\ isr = "invoke"
  /\ callout_queue # << >>
  /\ deadline[Head(callout_queue)] <= hrt_absolute_time
  /\ ReadTime
  /\ cur' = Head(callout_queue)
  /\ callout_queue' = Tail(callout_queue)
  /\ saved' = deadline[cur']
  /\ deadline' = [deadline EXCEPT ![cur'] = 0]
  /\ isr' = "callout"
  /\ UNCHANGED <<clockVars, rCCR_HRT, SR_INT_HRT, late, period>>

\* The callout returns; a periodic call is entered again.
CalloutReturns ==
  /\ isr = "callout"
  /\ isr' = "invoke" /\ cur' = NoCall /\ saved' = 0
  /\ IF period[cur] # 0
     THEN /\ deadline' = [deadline EXCEPT ![cur] = saved + period[cur]]
          /\ hrt_call_enter(callout_queue, deadline', cur)
     ELSE UNCHANGED <<deadline, callout_queue, rCCR_HRT, timeVars>>
  /\ UNCHANGED <<clockVars, SR_INT_HRT, late, period>>

\* Nothing (more) is due: schedule the next interrupt and return.
IsrReturns ==
  /\ isr = "invoke"
  /\ callout_queue # << >> => deadline[Head(callout_queue)] > hrt_absolute_time
  /\ hrt_call_reschedule(callout_queue, deadline)
  /\ isr' = "off" /\ late' = 0
  /\ UNCHANGED <<clockVars, SR_INT_HRT, callout_queue, deadline, period, cur, saved>>

(***************************************************************************)
(* One tick of the hardware.  The compare interrupt is raised when the     *)
(* counter becomes equal to the compare register.  MaxLatency is the       *)
(* assumption on the rest of the system: interrupts are not kept disabled, *)
(* and callouts do not run, for longer than that.                          *)
(***************************************************************************)
Serving == SR_INT_HRT \/ isr # "off"

NextCount == IF rCNT + 1 = HRT_COUNTER_PERIOD THEN 0 ELSE rCNT + 1

Tick ==
  /\ RealTime < Horizon
  /\ Serving => late < MaxLatency
  /\ late' = IF Serving THEN late + 1 ELSE late
  /\ rCNT' = NextCount
  /\ epoch' = IF NextCount = 0 THEN epoch + HRT_COUNTER_PERIOD ELSE epoch
  /\ SR_INT_HRT' = (SR_INT_HRT \/ NextCount = rCCR_HRT)
  /\ UNCHANGED <<rCCR_HRT, timeVars, callout_queue, deadline, period, isrVars>>

Next ==
  \/ Tick
  \/ \E c \in Calls :
       \/ \E delay \in Delays : hrt_call_after(c, delay)
       \/ \E delay \in Delays, p \in Periods : hrt_call_every(c, delay, p)
       \/ hrt_cancel(c)
  \/ CallAbsoluteTime
  \/ hrt_tim_isr
  \/ Invoke
  \/ CalloutReturns
  \/ IsrReturns

Spec == Init /\ [][Next]_vars

-----------------------------------------------------------------------------
\* Type correctness; in particular, the compare register keeps to the width of
\* the counter, and the handler is never later than MaxLatency.
TypeOK ==
  /\ rCNT \in 0..(HRT_COUNTER_PERIOD - 1) /\ epoch \in Nat
  /\ rCCR_HRT \in 0..(HRT_COUNTER_PERIOD - 1)
  /\ SR_INT_HRT \in BOOLEAN /\ late \in 0..MaxLatency
  /\ base_time \in Nat /\ last_count \in 0..(HRT_COUNTER_PERIOD - 1)
  /\ callout_queue \in Seq(Calls)
  /\ deadline \in [Calls -> Nat] /\ period \in [Calls -> Nat]
  /\ isr \in {"off", "invoke", "callout"}
  /\ cur \in Calls \cup {NoCall} /\ (cur = NoCall <=> isr # "callout")
  /\ saved \in Nat

(***************************************************************************)
(* Absolute time never loses or gains a counter period: whenever anybody   *)
(* calls hrt_absolute_time, what it returns is the real time ("a           *)
(* never-wrapping absolute time value").  This rests on the claim in its   *)
(* body that it is "always called at least once per counter period", and   *)
(* so on every path that writes the compare register.                      *)
(***************************************************************************)
TimeIsReal == hrt_absolute_time = RealTime

(***************************************************************************)
(* The callout list is consistent with the calls: it holds no call twice,  *)
(* is ordered by deadline, and a call is in it exactly when hrt_called     *)
(* would say false ("invoked and removed from the callout list").          *)
(***************************************************************************)
Ordered(q, dl) ==
  \A i, j \in 1..Len(q) : i < j => q[i] # q[j] /\ dl[q[i]] <= dl[q[j]]

QueueConsistent ==
  /\ Ordered(callout_queue, deadline)
  /\ \A c \in Calls : deadline[c] # 0 <=> InQueue(callout_queue, c)

(***************************************************************************)
(* Every queued call is invoked in time: none is still in the list later   *)
(* than its deadline by more than the entry delay, the minimum interval    *)
(* and the latency.  A compare value that was programmed too late, for the *)
(* wrong call or just behind the counter would leave one waiting.          *)
(***************************************************************************)
CalledInTime ==
  \A i \in 1..Len(callout_queue) :
    RealTime <= deadline[callout_queue[i]] + EntryDelay + HRT_INTERVAL_MIN + MaxLatency

-----------------------------------------------------------------------------
(***************************************************************************)
(* The parts of the inductive invariant from which HRTProofs proves the    *)
(* three properties above.                                                 *)
(***************************************************************************)
LastRead == base_time + last_count

\* Ticks until the counter next becomes equal to the compare register.
Wait == IF rCCR_HRT > rCNT THEN rCCR_HRT - rCNT
        ELSE rCCR_HRT - rCNT + HRT_COUNTER_PERIOD

\* The statics of hrt_absolute_time are at most one wrap behind the counter.
ClockInv ==
  /\ epoch % HRT_COUNTER_PERIOD = 0
  /\ \/ base_time = epoch /\ last_count <= rCNT
     \/ base_time + HRT_COUNTER_PERIOD = epoch /\ rCNT < last_count

\* The next read of the time comes within the longest interval and the latency.
GapInv ==
  IF Serving THEN RealTime <= LastRead + HRT_INTERVAL_MAX + late
  ELSE RealTime + Wait <= LastRead + HRT_INTERVAL_MAX

\* The next interrupt comes soon enough for the call due at d.
InTime(d) ==
  IF Serving THEN RealTime <= d + EntryDelay + HRT_INTERVAL_MIN + late
  ELSE RealTime + Wait <= d + EntryDelay + HRT_INTERVAL_MIN

DueInv ==
  /\ \A i \in 1..Len(callout_queue) : InTime(deadline[callout_queue[i]])
  /\ isr = "callout" => InTime(saved)

\* A periodic call whose callout is running is not in the list.
RunningInv == isr = "callout" /\ period[cur] # 0 => deadline[cur] = 0

IInv == TypeOK /\ ClockInv /\ GapInv /\ QueueConsistent /\ RunningInv /\ DueInv

=============================================================================
