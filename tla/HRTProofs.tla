----------------------------- MODULE HRTProofs -----------------------------
(***************************************************************************)
(* Proofs about the high-resolution timer, for every set of calls, every   *)
(* counter period and every choice of intervals, latency and delays that   *)
(* satisfies HRTAssumption.                                                *)
(***************************************************************************)
EXTENDS HRT, WellFoundedInduction, TLAPS

-----------------------------------------------------------------------------
(* Arithmetic of the counter.                                              *)

\* A whole number of periods stays one when another period goes by.
LEMMA NextMultiple ==
  ASSUME NEW P \in Nat \ {0}, NEW a \in Nat, a % P = 0
  PROVE  (a + P) % P = 0
<1>1. a = P * (a \div P) + (a % P)
  OBVIOUS
<1> DEFINE k == a \div P
<1>2. k \in Nat
  OBVIOUS
<1>3. a = P * k
  BY <1>1
<1> HIDE DEF k
<1>4. a + P = P * (k + 1)
  BY <1>2, <1>3
<1>5. \A n \in Nat : (P * n) % P = 0
  OBVIOUS
<1>6. k + 1 \in Nat
  BY <1>2
<1>7. (P * (k + 1)) % P = 0
  BY <1>5, <1>6
<1>. QED
  BY <1>4, <1>7

\* The low bits of a value that lies x past a whole number of periods.
LEMMA LowBits ==
  ASSUME NEW P \in Nat \ {0}, NEW a \in Nat, a % P = 0, NEW x \in 0..(2 * P - 1)
  PROVE  (a + x) % P = IF x < P THEN x ELSE x - P
<1>1. ASSUME NEW b \in Nat, b % P = 0, NEW y \in 0..(P - 1)
      PROVE  (b + y) % P = y
  BY <1>1
<1>2. CASE x < P
  BY <1>1, <1>2
<1>3. CASE x >= P
  <2>1. (a + P) % P = 0
    BY NextMultiple
  <2> DEFINE b == a + P
             y == x - P
  <2>2. b \in Nat /\ y \in 0..(P - 1) /\ b % P = 0
    BY <1>3, <2>1
  <2>. HIDE DEF b, y
  <2>3. (b + y) % P = y
    BY <1>1, <2>2
  <2>4. ((a + P) + (x - P)) % P = x - P
    BY <2>3 DEF b, y
  <2>5. (a + P) + (x - P) = a + x
    OBVIOUS
  <2>6. (a + x) % P = x - P
    BY <2>4, <2>5
  <2>. QED
    BY <1>3, <2>6
<1>. QED
  BY <1>2, <1>3

\* A set of positive numbers that is not empty has a smallest member.
LEMMA SmallestMember ==
  ASSUME NEW T, T \subseteq Nat, T # {}
  PROVE  \E i \in T : \A j \in T : i <= j
<1> DEFINE less == {ss \in Nat \X Nat : ss[1] < ss[2]}
<1>1. IsWellFoundedOn(less, Nat)
  BY NatLessThanWellFounded, Zenon DEF OpToRel
<1>2. \A x, y \in Nat : <<y, x>> \in less <=> y < x
  OBVIOUS
<1> HIDE DEF less
<1>3. \E x \in T : \A y \in T : ~ (<<y, x>> \in less)
  BY <1>1, WFMin, Zenon
<1>4. \A x, y \in T : ~ (<<y, x>> \in less) => x <= y
  BY <1>2
<1>. QED
  BY <1>3, <1>4

-----------------------------------------------------------------------------
(* The callout list.                                                       *)

\* Where hrt_call_enter puts a call: behind every call due no later than it.
LEMMA EnterPlace ==
  ASSUME NEW q \in Seq(Calls), NEW dl \in [Calls -> Nat], NEW c \in Calls
  PROVE  \E at \in 1..(Len(q) + 1) :
            /\ Enter(q, dl, c) = InsertCall(q, at, c)
            /\ \A i \in 1..(at - 1) : dl[q[i]] <= dl[c]
            /\ at <= Len(q) => dl[c] < dl[q[at]]
<1> DEFINE later == LaterAt(q, dl, dl[c])
           at == IF later = {} THEN Len(q) + 1
                 ELSE CHOOSE i \in later : \A j \in later : i <= j
<1>1. Enter(q, dl, c) = InsertCall(q, at, c)
  BY DEF Enter
<1>2. later = {i \in 1..Len(q) : dl[c] < dl[q[i]]}
  BY DEF LaterAt
<1>3. \A i \in 1..Len(q) : q[i] \in Calls /\ dl[q[i]] \in Nat
  OBVIOUS
<1>4. dl[c] \in Nat /\ Len(q) \in Nat
  OBVIOUS
<1>5. CASE later = {}
  <2>1. at = Len(q) + 1
    BY <1>5
  <2>2. \A i \in 1..Len(q) : dl[q[i]] <= dl[c]
    BY <1>2, <1>3, <1>4, <1>5
  <2>. HIDE DEF at, later
  <2>. QED
    BY <1>1, <1>4, <2>1, <2>2
<1>6. CASE later # {}
  <2>1. later \subseteq Nat
    BY <1>2
  <2>2. \E i \in later : \A j \in later : i <= j
    BY <1>6, <2>1, SmallestMember
  <2>3. at = CHOOSE i \in later : \A j \in later : i <= j
    BY <1>6
  <2>4. at \in later /\ \A j \in later : at <= j
    BY <2>2, <2>3
  <2>. HIDE DEF at, later
  <2>5. at \in 1..Len(q) /\ dl[c] < dl[q[at]]
    BY <1>2, <2>4
  <2>6. ASSUME NEW i \in 1..(at - 1)
        PROVE  dl[q[i]] <= dl[c]
    <3>1. i \in 1..Len(q) /\ i \notin later
      BY <1>4, <2>4, <2>5
    <3>. QED
      BY <1>2, <1>3, <1>4, <3>1
  <2>. QED
    BY <1>1, <1>4, <2>5, <2>6
<1>. QED
  BY <1>5, <1>6

\* The list hrt_call_enter builds: one longer, with c at its place.
LEMMA InsertCallShape ==
  ASSUME NEW q \in Seq(Calls), NEW at \in 1..(Len(q) + 1), NEW c \in Calls
  PROVE  /\ InsertCall(q, at, c) \in Seq(Calls)
         /\ Len(InsertCall(q, at, c)) = Len(q) + 1
         /\ \A k \in 1..(Len(q) + 1) :
              InsertCall(q, at, c)[k] =
                IF k < at THEN q[k] ELSE IF k = at THEN c ELSE q[k - 1]
BY DEF InsertCall

\* The list sq_rem leaves: one shorter, with a gap closed at its place.
LEMMA RemoveCallShape ==
  ASSUME NEW q \in Seq(Calls), NEW at \in 1..Len(q)
  PROVE  /\ RemoveCall(q, at) \in Seq(Calls)
         /\ Len(RemoveCall(q, at)) = Len(q) - 1
         /\ \A k \in 1..(Len(q) - 1) :
              RemoveCall(q, at)[k] = IF k < at THEN q[k] ELSE q[k + 1]
BY DEF RemoveCall
\* hrt_call_enter keeps the list ordered and adds just the one call.
LEMMA EnterKeepsOrder ==
  ASSUME NEW q \in Seq(Calls), NEW dl \in [Calls -> Nat], NEW c \in Calls,
         Ordered(q, dl), ~InQueue(q, c),
         NEW r, r = Enter(q, dl, c)
  PROVE  /\ r \in Seq(Calls) /\ Len(r) = Len(q) + 1
         /\ Ordered(r, dl)
         /\ \A e \in Calls : InQueue(r, e) <=> (e = c \/ InQueue(q, e))
         /\ r # << >> /\ Head(r) = r[1]
         /\ r[1] # c => Len(q) > 0 /\ r[1] = q[1]
<1>1. PICK at \in 1..(Len(q) + 1) :
            /\ r = InsertCall(q, at, c)
            /\ \A i \in 1..(at - 1) : dl[q[i]] <= dl[c]
            /\ at <= Len(q) => dl[c] < dl[q[at]]
  BY EnterPlace
<1>2. /\ r \in Seq(Calls) /\ Len(r) = Len(q) + 1
      /\ \A k \in 1..(Len(q) + 1) :
           r[k] = IF k < at THEN q[k] ELSE IF k = at THEN c ELSE q[k - 1]
  <2>1. /\ InsertCall(q, at, c) \in Seq(Calls)
        /\ Len(InsertCall(q, at, c)) = Len(q) + 1
        /\ \A k \in 1..(Len(q) + 1) :
             InsertCall(q, at, c)[k] =
               IF k < at THEN q[k] ELSE IF k = at THEN c ELSE q[k - 1]
    BY InsertCallShape
  <2>2. r = InsertCall(q, at, c)
    BY <1>1
  <2>. QED
    BY <2>1, <2>2, Zenon
<1>3. \A i \in 1..Len(q) : q[i] \in Calls /\ dl[q[i]] \in Nat /\ q[i] # c
  BY DEF InQueue
<1>4. \A i \in 1..Len(q) : at <= i => dl[c] < dl[q[i]]
  BY <1>1, <1>3 DEF Ordered
<1>5. Ordered(r, dl)
  <2>1. SUFFICES ASSUME NEW i \in 1..Len(r), NEW j \in 1..Len(r), i < j
                 PROVE  r[i] # r[j] /\ dl[r[i]] <= dl[r[j]]
    BY DEF Ordered
  <2>2. CASE i < at /\ j < at
    <3>1. r[i] = q[i] /\ r[j] = q[j] /\ i \in 1..Len(q) /\ j \in 1..Len(q)
      BY <1>2, <2>1, <2>2
    <3>. QED
      BY <2>1, <3>1 DEF Ordered
  <2>3. CASE i < at /\ j = at
    <3>1. r[i] = q[i] /\ r[j] = c /\ i \in 1..Len(q) /\ i \in 1..(at - 1)
      BY <1>2, <2>1, <2>3
    <3>2. q[i] # c /\ dl[q[i]] <= dl[c]
      BY <1>1, <1>3, <3>1
    <3>. QED
      BY <3>1, <3>2, Zenon
  <2>4. CASE i < at /\ at < j
    <3>1. r[i] = q[i] /\ r[j] = q[j - 1] /\ i \in 1..Len(q) /\ j - 1 \in 1..Len(q) /\ i < j - 1
      BY <1>2, <2>1, <2>4
    <3>. QED
      BY <3>1 DEF Ordered
  <2>5. CASE i = at /\ at < j
    <3>1. r[i] = c /\ r[j] = q[j - 1] /\ j - 1 \in 1..Len(q) /\ at <= j - 1
      BY <1>2, <2>1, <2>5
    <3>2. q[j - 1] # c /\ dl[q[j - 1]] \in Nat /\ dl[c] < dl[q[j - 1]]
      BY <1>3, <1>4, <3>1
    <3>3. dl[c] \in Nat
      OBVIOUS
    <3>4. dl[c] <= dl[q[j - 1]]
      BY <3>2, <3>3
    <3>. QED
      BY <3>1, <3>2, <3>4, Zenon
  <2>6. CASE at < i
    <3>1. r[i] = q[i - 1] /\ r[j] = q[j - 1] /\ i - 1 \in 1..Len(q) /\ j - 1 \in 1..Len(q)
          /\ i - 1 < j - 1
      BY <1>2, <2>1, <2>6
    <3>. QED
      BY <3>1 DEF Ordered
  <2>. QED
    BY <1>2, <2>1, <2>2, <2>3, <2>4, <2>5, <2>6
<1>6. \A e \in Calls : InQueue(r, e) <=> (e = c \/ InQueue(q, e))
  <2>1. ASSUME NEW e \in Calls, InQueue(r, e)
        PROVE  e = c \/ InQueue(q, e)
    <3>1. PICK k \in 1..(Len(q) + 1) : r[k] = e
      BY <1>2, <2>1 DEF InQueue
    <3>2. CASE k < at
      <4>1. k \in 1..Len(q) /\ q[k] = e
        BY <1>2, <3>1, <3>2
      <4>. QED
        BY <4>1 DEF InQueue
    <3>3. CASE k = at
      BY <1>2, <3>1, <3>3
    <3>4. CASE k > at
      <4>1. k - 1 \in 1..Len(q) /\ q[k - 1] = e
        BY <1>2, <3>1, <3>4
      <4>. QED
        BY <4>1 DEF InQueue
    <3>. QED
      BY <3>2, <3>3, <3>4
  <2>2. InQueue(r, c)
    BY <1>2 DEF InQueue
  <2>3. ASSUME NEW e \in Calls, InQueue(q, e)
        PROVE  InQueue(r, e)
    <3>1. PICK k \in 1..Len(q) : q[k] = e
      BY <2>3 DEF InQueue
    <3>2. k \in 1..Len(r) /\ k + 1 \in 1..Len(r)
      BY <1>2
    <3>3. r[k] = e \/ r[k + 1] = e
      BY <1>2, <3>1
    <3>. QED
      BY <3>2, <3>3 DEF InQueue
  <2>. QED
    BY <2>1, <2>2, <2>3
<1>7. r # << >> /\ Head(r) = r[1]
  BY <1>2
<1>8. r[1] # c => Len(q) > 0 /\ r[1] = q[1]
  BY <1>2
<1>. QED
  BY <1>2, <1>5, <1>6, <1>7, <1>8

\* sq_rem takes out just the one call and keeps the order of the others.
LEMMA RemoveKeepsOrder ==
  ASSUME NEW q \in Seq(Calls), NEW dl \in [Calls -> Nat], NEW c \in Calls,
         Ordered(q, dl),
         NEW r, r = sq_rem(q, c)
  PROVE  /\ r \in Seq(Calls)
         /\ Ordered(r, dl)
         /\ ~InQueue(r, c)
         /\ \A e \in Calls : e # c => (InQueue(r, e) <=> InQueue(q, e))
<1>1. CASE ~InQueue(q, c)
  BY <1>1 DEF sq_rem
<1>2. CASE InQueue(q, c)
  <2> DEFINE at == CHOOSE i \in 1..Len(q) : q[i] = c
  <2>1. at \in 1..Len(q) /\ q[at] = c
    BY <1>2 DEF InQueue
  <2>2. r = RemoveCall(q, at)
    BY <1>2 DEF sq_rem
  <2>. HIDE DEF at
  <2>3. /\ r \in Seq(Calls) /\ Len(r) = Len(q) - 1
        /\ \A k \in 1..(Len(q) - 1) : r[k] = IF k < at THEN q[k] ELSE q[k + 1]
    BY <2>1, <2>2, RemoveCallShape
  <2> DEFINE from(k) == IF k < at THEN k ELSE k + 1
  <2>4. \A k \in 1..Len(r) : r[k] = q[from(k)] /\ from(k) \in 1..Len(q) /\ from(k) # at
    <3>1. SUFFICES ASSUME NEW k \in 1..Len(r)
                   PROVE  r[k] = q[from(k)] /\ from(k) \in 1..Len(q) /\ from(k) # at
      BY Zenon
    <3>2. Len(q) \in Nat /\ Len(r) = Len(q) - 1 /\ k \in 1..(Len(q) - 1)
      BY <2>3
    <3>3. from(k) \in 1..Len(q) /\ from(k) # at
      BY <2>1, <3>2
    <3>4. r[k] = IF k < at THEN q[k] ELSE q[k + 1]
      BY <2>3, <3>2
    <3>. QED
      BY <3>3, <3>4
  <2>5. \A i, j \in 1..Len(r) : i < j => from(i) < from(j)
    BY <2>1, <2>3
  <2>6. \A i \in 1..Len(q) : i # at => q[i] # c
    BY <2>1 DEF Ordered
  <2>7. \A e \in Calls : e # c /\ InQueue(q, e) => InQueue(r, e)
    <3>1. SUFFICES ASSUME NEW e \in Calls, e # c, NEW k \in 1..Len(q), q[k] = e
                   PROVE  InQueue(r, e)
      BY DEF InQueue
    <3>2. CASE k < at
      <4>1. k \in 1..Len(r) /\ r[k] = e
        BY <2>1, <2>3, <3>1, <3>2
      <4>. QED
        BY <4>1 DEF InQueue
    <3>3. CASE k > at
      <4>1. k - 1 \in 1..Len(r) /\ r[k - 1] = e
        BY <2>1, <2>3, <3>1, <3>3, SMTT(20)
      <4>. QED
        BY <4>1 DEF InQueue
    <3>. QED
      BY <2>1, <3>1, <3>2, <3>3
  <2>. HIDE DEF from
  <2>8. Ordered(r, dl)
    <3>1. SUFFICES ASSUME NEW i \in 1..Len(r), NEW j \in 1..Len(r), i < j
                   PROVE  r[i] # r[j] /\ dl[r[i]] <= dl[r[j]]
      BY DEF Ordered
    <3>2. /\ r[i] = q[from(i)] /\ from(i) \in 1..Len(q)
          /\ r[j] = q[from(j)] /\ from(j) \in 1..Len(q)
          /\ from(i) < from(j)
      BY <2>4, <2>5, <3>1
    <3>. QED
      BY <3>2 DEF Ordered
  <2>9. ~InQueue(r, c) /\ \A e \in Calls : InQueue(r, e) => InQueue(q, e)
    BY <2>4, <2>6 DEF InQueue
  <2>. QED
    BY <2>3, <2>7, <2>8, <2>9
<1>. QED
  BY <1>1, <1>2

-----------------------------------------------------------------------------
(* The time and the compare register.                                      *)

\* What hrt_absolute_time returns is the real time while its statics are at most one wrap behind.
LEMMA ClockGivesRealTime ==
  ASSUME TypeOK, ClockInv
  PROVE  NewBase = epoch /\ hrt_absolute_time = RealTime
BY HRTAssumption DEF TypeOK, ClockInv, NewBase, hrt_absolute_time, RealTime

\* A read of the time brings the statics up to the counter.
LEMMA ReadTimeKeepsClock ==
  ASSUME TypeOK, ClockInv, ReadTime, UNCHANGED clockVars
  PROVE  /\ base_time' = epoch /\ last_count' = rCNT
         /\ base_time' \in Nat /\ last_count' \in 0..(HRT_COUNTER_PERIOD - 1)
         /\ ClockInv' /\ LastRead' = RealTime
BY ClockGivesRealTime
   DEF TypeOK, ClockInv, ReadTime, clockVars, LastRead, RealTime

\* The deadline that is programmed lies between the two intervals, and no
\* later than the head of the list is due unless that is too close.
LEMMA NextDeadlineBounds ==
  ASSUME TypeOK, ClockInv, NEW q \in Seq(Calls), NEW dl \in [Calls -> Nat]
  PROVE  /\ NextDeadline(q, dl) \in
              (RealTime + HRT_INTERVAL_MIN)..(RealTime + HRT_INTERVAL_MAX)
         /\ q # << >> => \/ NextDeadline(q, dl) = RealTime + HRT_INTERVAL_MIN
                         \/ NextDeadline(q, dl) <= dl[Head(q)]
<1>1. hrt_absolute_time = RealTime /\ RealTime \in Nat
  BY ClockGivesRealTime DEF TypeOK, RealTime
<1>2. q # << >> => dl[Head(q)] \in Nat
  OBVIOUS
<1>. QED
  BY <1>1, <1>2, HRTAssumption DEF NextDeadline

\* After hrt_call_reschedule the compare register matches exactly when the
\* chosen deadline comes, although it only holds the low bits of it.
LEMMA Reschedule ==
  ASSUME TypeOK, ClockInv, NEW q \in Seq(Calls), NEW dl \in [Calls -> Nat],
         hrt_call_reschedule(q, dl), UNCHANGED clockVars
  PROVE  /\ rCCR_HRT' \in 0..(HRT_COUNTER_PERIOD - 1)
         /\ RealTime + Wait' = NextDeadline(q, dl)
<1> DEFINE P == HRT_COUNTER_PERIOD
           x == NextDeadline(q, dl) - epoch
           d == NextDeadline(q, dl) - RealTime
<1>1. NextDeadline(q, dl) \in (RealTime + HRT_INTERVAL_MIN)..(RealTime + HRT_INTERVAL_MAX)
  BY NextDeadlineBounds
<1>2. P \in Nat \ {0} /\ epoch \in Nat /\ epoch % P = 0 /\ rCNT \in 0..(P - 1)
  BY HRTAssumption DEF TypeOK, ClockInv
<1>3. d \in 1..(P - 1) /\ x = rCNT + d
  <2>1. SUFFICES ASSUME NEW n \in (RealTime + HRT_INTERVAL_MIN)..(RealTime + HRT_INTERVAL_MAX)
                 PROVE  n - RealTime \in 1..(P - 1) /\ n - epoch = rCNT + (n - RealTime)
    BY <1>1, Zenon
  <2>2. RealTime \in Nat /\ RealTime = epoch + rCNT
    BY <1>2 DEF RealTime
  <2>3. HRT_INTERVAL_MIN \in Nat \ {0} /\ HRT_INTERVAL_MAX \in Nat /\ HRT_INTERVAL_MAX < P
    BY HRTAssumption
  <2>. QED
    BY <1>2, <2>1, <2>2, <2>3
<1>4. x \in 0..(2 * P - 1) /\ NextDeadline(q, dl) = epoch + x
  BY <1>1, <1>2, <1>3 DEF RealTime
<1>5. rCCR_HRT' = (epoch + x) % P
  BY <1>4 DEF hrt_call_reschedule, Truncate
<1> HIDE DEF x, d, P
<1>6. rCCR_HRT' = IF x < P THEN x ELSE x - P
  <2>1. (epoch + x) % P = IF x < P THEN x ELSE x - P
    BY <1>2, <1>4, LowBits
  <2>. QED
    BY <1>5, <2>1
<1>7. rCNT' = rCNT /\ RealTime + d = NextDeadline(q, dl)
  BY <1>1, <1>2 DEF d, clockVars, RealTime
<1>8. Wait' = d
  BY <1>2, <1>3, <1>6, <1>7 DEF Wait, P
<1>. QED
  BY <1>2, <1>3, <1>6, <1>7, <1>8 DEF P

\* Waiting is for between one tick and a whole period.
LEMMA WaitType ==
  ASSUME TypeOK PROVE Wait \in 1..HRT_COUNTER_PERIOD
BY HRTAssumption DEF TypeOK, Wait

-----------------------------------------------------------------------------
(* The inductive step.                                                     *)

\* Every queued call is in time.
QueueInTime == \A i \in 1..Len(callout_queue) : InTime(deadline[callout_queue[i]])

\* What a call of hrt_call_enter leaves behind, from a thread or a callout.
LEMMA EnterPreserves ==
  ASSUME TypeOK, ClockInv, GapInv,
         NEW q \in Seq(Calls), NEW dl \in [Calls -> Nat], NEW c \in Calls,
         Ordered(q, dl), ~InQueue(q, c), dl[c] # 0,
         \A e \in Calls : e # c => (dl[e] # 0 <=> InQueue(q, e)),
         \A i \in 1..Len(q) : InTime(dl[q[i]]),
         \/ RealTime <= dl[c] + EntryDelay
         \/ Serving /\ InTime(dl[c]),
         hrt_call_enter(q, dl, c), deadline' = dl,
         UNCHANGED <<rCNT, epoch, SR_INT_HRT, late>>, Serving' = Serving
  PROVE  /\ callout_queue' \in Seq(Calls)
         /\ rCCR_HRT' \in 0..(HRT_COUNTER_PERIOD - 1)
         /\ base_time' \in Nat /\ last_count' \in 0..(HRT_COUNTER_PERIOD - 1)
         /\ ClockInv' /\ GapInv' /\ QueueConsistent' /\ QueueInTime'
<1> DEFINE r == Enter(q, dl, c)
<1>1. /\ r \in Seq(Calls) /\ Len(r) = Len(q) + 1
      /\ Ordered(r, dl)
      /\ \A e \in Calls : InQueue(r, e) <=> (e = c \/ InQueue(q, e))
      /\ r # << >> /\ Head(r) = r[1]
      /\ r[1] # c => Len(q) > 0 /\ r[1] = q[1]
  BY EnterKeepsOrder
<1>2. callout_queue' = r
  BY DEF hrt_call_enter
<1>3. IF Head(r) = c THEN hrt_call_reschedule(r, dl)
                     ELSE UNCHANGED <<rCCR_HRT, base_time, last_count>>
  BY DEF hrt_call_enter
<1>4. UNCHANGED clockVars
  BY DEF clockVars
<1> HIDE DEF r
<1>5. QueueConsistent'
  BY <1>1, <1>2 DEF QueueConsistent
<1>6. /\ RealTime' = RealTime /\ RealTime \in Nat /\ late' = late /\ late \in Nat
      /\ EntryDelay \in Nat /\ HRT_INTERVAL_MIN \in Nat /\ HRT_INTERVAL_MAX \in Nat
      /\ Serving \in BOOLEAN
  BY HRTAssumption DEF RealTime, TypeOK, Serving
<1>7. \A i \in 1..Len(r) : r[i] \in Calls /\ dl[r[i]] \in Nat /\ dl[r[1]] <= dl[r[i]]
  BY <1>1 DEF Ordered
<1>8. CASE r[1] = c
  <2>1. hrt_call_reschedule(r, dl) /\ ReadTime
    BY <1>1, <1>3, <1>8 DEF hrt_call_reschedule
  <2>2. /\ rCCR_HRT' \in 0..(HRT_COUNTER_PERIOD - 1)
        /\ RealTime + Wait' = NextDeadline(r, dl)
    BY <1>1, <1>4, <2>1, Reschedule
  <2>3. /\ NextDeadline(r, dl) \in
              (RealTime + HRT_INTERVAL_MIN)..(RealTime + HRT_INTERVAL_MAX)
        /\ \/ NextDeadline(r, dl) = RealTime + HRT_INTERVAL_MIN
           \/ NextDeadline(r, dl) <= dl[c]
    BY <1>1, <1>8, NextDeadlineBounds
  <2>4. /\ base_time' \in Nat /\ last_count' \in 0..(HRT_COUNTER_PERIOD - 1)
        /\ ClockInv' /\ LastRead' = RealTime
    BY <1>4, <2>1, ReadTimeKeepsClock
  <2>5. GapInv'
    BY <1>6, <2>2, <2>3, <2>4 DEF GapInv
  <2>6. dl[c] \in Nat /\ \A i \in 1..Len(r) : dl[r[i]] \in Nat /\ dl[c] <= dl[r[i]]
    BY <1>7, <1>8
  <2>7. Serving => RealTime <= dl[c] + EntryDelay + HRT_INTERVAL_MIN + late
    BY <1>6, <2>6 DEF InTime
  <2>8. ~Serving => RealTime + Wait' <= dl[c] + EntryDelay + HRT_INTERVAL_MIN
    BY <1>6, <2>2, <2>3, <2>6
  <2>9. ASSUME NEW i \in 1..Len(r)
        PROVE  /\ Serving => RealTime <= dl[r[i]] + EntryDelay + HRT_INTERVAL_MIN + late
               /\ ~Serving => RealTime + Wait' <= dl[r[i]] + EntryDelay + HRT_INTERVAL_MIN
    <3>1. Wait' \in Int
      BY <1>4, <2>2, HRTAssumption DEF Wait, clockVars, TypeOK
    <3>2. dl[r[i]] \in Nat /\ dl[c] \in Nat /\ dl[c] <= dl[r[i]]
      BY <2>6, <2>9
    <3>3. CASE Serving
      <4>1. RealTime <= dl[c] + EntryDelay + HRT_INTERVAL_MIN + late
        BY <2>7, <3>3
      <4>. QED
        BY <1>6, <3>2, <3>3, <4>1
    <3>4. CASE ~Serving
      <4>1. RealTime + Wait' <= dl[c] + EntryDelay + HRT_INTERVAL_MIN
        BY <2>8, <3>4
      <4>. QED
        BY <1>6, <3>1, <3>2, <3>4, <4>1
    <3>. QED
      BY <3>3, <3>4
  <2>10. QueueInTime'
    BY <1>2, <1>6, <2>9 DEF QueueInTime, InTime
  <2>. QED
    BY <1>1, <1>2, <1>5, <2>2, <2>4, <2>5, <2>10
<1>9. CASE r[1] # c
  <2>1. UNCHANGED <<rCCR_HRT, base_time, last_count>> /\ Wait' = Wait
    BY <1>1, <1>3, <1>9 DEF Wait
  <2>2. ClockInv' /\ GapInv'
    BY <1>6, <2>1 DEF ClockInv, GapInv, LastRead
  <2>3. Wait \in 1..HRT_COUNTER_PERIOD /\ HRT_COUNTER_PERIOD \in Nat
    BY WaitType, HRTAssumption
  <2>4. InTime(dl[r[1]])
    BY <1>1, <1>9
  <2>5. ASSUME NEW i \in 1..Len(r)
        PROVE  InTime(dl[r[i]])
    BY <1>6, <1>7, <1>1, <2>3, <2>4 DEF InTime
  <2>6. QueueInTime'
    BY <1>2, <1>6, <2>1, <2>5 DEF QueueInTime, InTime
  <2>. QED
    BY <1>1, <1>2, <1>5, <2>1, <2>2, <2>6 DEF TypeOK
<1>. QED
  BY <1>8, <1>9

\* The state hrt_tim_init leaves satisfies the invariant.
LEMMA InitIInv == Init => IInv
<1> SUFFICES ASSUME Init PROVE IInv
  OBVIOUS
<1>1. TypeOK
  <2>1. /\ rCNT \in 0..(HRT_COUNTER_PERIOD - 1) /\ epoch \in Nat
        /\ rCCR_HRT \in 0..(HRT_COUNTER_PERIOD - 1) /\ late \in 0..MaxLatency
        /\ base_time \in Nat /\ last_count \in 0..(HRT_COUNTER_PERIOD - 1)
    BY HRTAssumption DEF Init
  <2>2. /\ callout_queue \in Seq(Calls) /\ saved \in Nat
        /\ deadline \in [Calls -> Nat] /\ period \in [Calls -> Nat]
    BY DEF Init
  <2>. QED
    BY <2>1, <2>2 DEF Init, TypeOK
<1>2. ClockInv
  BY HRTAssumption DEF Init, ClockInv
<1>3. GapInv
  BY HRTAssumption DEF Init, GapInv, Serving, RealTime, Wait, LastRead
<1>4. QueueConsistent
  BY DEF Init, QueueConsistent, Ordered, InQueue
<1>5. DueInv /\ RunningInv
  BY DEF Init, DueInv, RunningInv
<1>. QED
  BY <1>1, <1>2, <1>3, <1>4, <1>5 DEF IInv

\* A deadline no caller computed in the future of its own request.
LEMMA EntryDeadlinesBounds ==
  ASSUME TypeOK, ClockInv, NEW delay \in Delays, NEW d \in EntryDeadlines(delay)
  PROVE  d \in Int /\ RealTime <= d + EntryDelay
<1>1. hrt_absolute_time = RealTime /\ RealTime \in Nat
  BY ClockGivesRealTime DEF TypeOK, RealTime
<1>2. PICK age \in 0..(IF isr = "off" THEN EntryDelay ELSE 0) :
         d = hrt_absolute_time - age + delay
  BY DEF EntryDeadlines
<1>3. age \in Nat /\ age <= EntryDelay /\ delay \in Nat /\ EntryDelay \in Nat
  BY <1>2, HRTAssumption
<1>. QED
  BY <1>1, <1>2, <1>3

\* hrt_call_internal, the common part of hrt_call_after and hrt_call_every.
LEMMA InternalPreserves ==
  ASSUME IInv, NEW c \in Calls, NEW d \in Nat \ {0}, NEW p \in Nat,
         RealTime <= d + EntryDelay,
         p # 0 => c # cur,
         hrt_call_internal(c, d, p),
         UNCHANGED <<clockVars, SR_INT_HRT, late, isrVars>>
  PROVE  IInv'
<1> DEFINE q == IF deadline[c] # 0 THEN sq_rem(callout_queue, c) ELSE callout_queue
           dl == [deadline EXCEPT ![c] = d]
<1>1. /\ dl \in [Calls -> Nat] /\ dl[c] = d
      /\ \A e \in Calls : e # c => dl[e] = deadline[e]
  BY DEF IInv, TypeOK
<1>2. deadline' = dl /\ period' = [period EXCEPT ![c] = p] /\ hrt_call_enter(q, dl, c)
  BY DEF hrt_call_internal
<1>3. /\ q \in Seq(Calls) /\ Ordered(q, deadline) /\ ~InQueue(q, c)
      /\ \A e \in Calls : e # c => (InQueue(q, e) <=> InQueue(callout_queue, e))
  <2>1. /\ callout_queue \in Seq(Calls) /\ deadline \in [Calls -> Nat]
        /\ Ordered(callout_queue, deadline)
    BY DEF IInv, TypeOK, QueueConsistent
  <2>2. CASE deadline[c] # 0
    BY <2>1, <2>2, RemoveKeepsOrder
  <2>3. CASE deadline[c] = 0
    BY <2>1, <2>3 DEF IInv, QueueConsistent
  <2>. QED
    BY <2>2, <2>3
<1> HIDE DEF q, dl
<1>4. \A i \in 1..Len(q) : q[i] \in Calls /\ q[i] # c /\ dl[q[i]] = deadline[q[i]]
  BY <1>1, <1>3 DEF InQueue
<1>5. Ordered(q, dl)
  BY <1>3, <1>4 DEF Ordered
<1>6. \A e \in Calls : e # c => (dl[e] # 0 <=> InQueue(q, e))
  BY <1>1, <1>3 DEF IInv, QueueConsistent
<1>7. \A i \in 1..Len(q) : InTime(dl[q[i]])
  <2>1. ASSUME NEW i \in 1..Len(q) PROVE InTime(deadline[q[i]])
    <3>1. InQueue(callout_queue, q[i])
      BY <1>3, <1>4 DEF InQueue
    <3>2. PICK j \in 1..Len(callout_queue) : callout_queue[j] = q[i]
      BY <3>1 DEF InQueue
    <3>. QED
      BY <3>2 DEF IInv, DueInv
  <2>. QED
    BY <1>4, <2>1
<1>8. /\ UNCHANGED <<rCNT, epoch, SR_INT_HRT, late, isr, cur, saved>>
      /\ Serving' = Serving
  BY DEF clockVars, isrVars, Serving
<1>9. /\ callout_queue' \in Seq(Calls)
      /\ rCCR_HRT' \in 0..(HRT_COUNTER_PERIOD - 1)
      /\ base_time' \in Nat /\ last_count' \in 0..(HRT_COUNTER_PERIOD - 1)
      /\ ClockInv' /\ GapInv' /\ QueueConsistent' /\ QueueInTime'
  BY <1>1, <1>2, <1>3, <1>5, <1>6, <1>7, <1>8, EnterPreserves DEF IInv
<1>10. TypeOK'
  BY <1>1, <1>2, <1>8, <1>9 DEF IInv, TypeOK
<1>11. RunningInv'
  <2>1. SUFFICES ASSUME isr = "callout", period'[cur] # 0
                 PROVE  deadline'[cur] = 0
    BY <1>8 DEF RunningInv
  <2>2. cur \in Calls /\ period \in [Calls -> Nat]
    BY <2>1 DEF IInv, TypeOK
  <2>3. cur # c
    BY <1>2, <2>1, <2>2
  <2>. QED
    BY <1>1, <1>2, <2>1, <2>2, <2>3 DEF IInv, RunningInv
<1>12. isr = "callout" => InTime(saved)'
  BY <1>8 DEF IInv, DueInv, InTime, Serving, RealTime
<1>. QED
  BY <1>8, <1>9, <1>10, <1>11, <1>12 DEF IInv, DueInv, QueueInTime

\* Time passes: the counter wraps at most once between two reads, and a match
\* comes when Wait runs out.
LEMMA TickPreserves ==
  ASSUME IInv, Tick PROVE IInv'
<1> DEFINE P == HRT_COUNTER_PERIOD
<1>1. /\ P \in Nat \ {0} /\ HRT_INTERVAL_MAX \in Nat /\ MaxLatency \in Nat
      /\ HRT_INTERVAL_MAX + MaxLatency < P
      /\ EntryDelay \in Nat /\ HRT_INTERVAL_MIN \in Nat
  BY HRTAssumption
<1>2. /\ rCNT \in 0..(P - 1) /\ epoch \in Nat /\ rCCR_HRT \in 0..(P - 1)
      /\ late \in 0..MaxLatency /\ base_time \in Nat /\ last_count \in 0..(P - 1)
      /\ SR_INT_HRT \in BOOLEAN
  BY DEF IInv, TypeOK
<1>3. /\ UNCHANGED <<rCCR_HRT, base_time, last_count, callout_queue, deadline,
                     period, isr, cur, saved>>
  BY DEF Tick, timeVars, isrVars
<1>4. \/ rCNT + 1 < P /\ rCNT' = rCNT + 1 /\ epoch' = epoch
      \/ rCNT + 1 = P /\ rCNT' = 0 /\ epoch' = epoch + P
  BY <1>1, <1>2 DEF Tick, NextCount
<1>5. RealTime' = RealTime + 1 /\ RealTime \in Nat
  BY <1>1, <1>2, <1>4 DEF RealTime
<1>6. late' \in 0..MaxLatency /\ late' \in Nat /\ (Serving => late' = late + 1)
  BY <1>1, <1>2 DEF Tick
<1>7. /\ Serving => Serving'
      /\ ~Serving => (Serving' <=> rCNT' = rCCR_HRT)
  <2>1. SR_INT_HRT' = (SR_INT_HRT \/ rCNT' = rCCR_HRT) /\ isr' = isr
    BY <1>3 DEF Tick
  <2>. QED
    BY <2>1 DEF Serving
<1>8. Wait \in 1..P
  BY WaitType DEF IInv
<1>9. /\ rCNT' = rCCR_HRT => Wait = 1
      /\ rCNT' # rCCR_HRT => Wait' = Wait - 1
  BY <1>1, <1>2, <1>3, <1>4 DEF Wait
<1>10. LastRead' = LastRead /\ LastRead \in Nat
  BY <1>2, <1>3 DEF LastRead
<1>11. RealTime' <= LastRead + HRT_INTERVAL_MAX + MaxLatency
  <2>1. CASE Serving
    <3>1. RealTime <= LastRead + HRT_INTERVAL_MAX + late
      BY <2>1 DEF IInv, GapInv
    <3>2. late < MaxLatency
      BY <2>1 DEF Tick
    <3>. QED
      BY <1>1, <1>2, <1>5, <1>10, <3>1, <3>2
  <2>2. CASE ~Serving
    <3>1. RealTime + Wait <= LastRead + HRT_INTERVAL_MAX
      BY <2>2 DEF IInv, GapInv
    <3>. QED
      BY <1>1, <1>2, <1>5, <1>8, <1>10, <3>1
  <2>. QED
    BY <2>1, <2>2
<1>12. ClockInv'
  <2>1. epoch' % P = 0
    BY <1>1, <1>2, <1>4, NextMultiple DEF IInv, ClockInv
  <2>2. \/ base_time = epoch /\ last_count <= rCNT
        \/ base_time + P = epoch /\ rCNT < last_count
    BY DEF IInv, ClockInv
  <2>3. \/ base_time = epoch' /\ last_count <= rCNT'
        \/ base_time + P = epoch' /\ rCNT' < last_count
    BY <1>1, <1>2, <1>4, <1>11, <1>5, <2>2 DEF LastRead, RealTime
  <2>. QED
    BY <1>3, <2>1, <2>3 DEF ClockInv
\* A bound on the time of the next interrupt survives the tick.
<1>13. ASSUME NEW b \in Int,
              IF Serving THEN RealTime <= b + late ELSE RealTime + Wait <= b
       PROVE  IF Serving' THEN RealTime' <= b + late' ELSE RealTime' + Wait' <= b
  <2>1. CASE Serving
    <3>1. RealTime <= b + late /\ Serving' /\ late' = late + 1
      BY <1>6, <1>7, <1>13, <2>1
    <3>. QED
      BY <1>2, <1>5, <3>1
  <2>2. CASE ~Serving /\ rCNT' = rCCR_HRT
    <3>1. RealTime + 1 <= b /\ Serving'
      BY <1>7, <1>9, <1>13, <2>2
    <3>2. RealTime' <= b + late'
      <4>1. RealTime' \in Nat /\ RealTime' <= b
        BY <1>5, <3>1
      <4>2. late' \in Nat /\ b \in Int
        BY <1>6, <1>13
      <4>3. \A x \in Nat, y \in Int, n \in Nat : x <= y => x <= y + n
        OBVIOUS
      <4>. QED
        BY <4>1, <4>2, <4>3, Zenon
    <3>. QED
      BY <3>1, <3>2
  <2>3. CASE ~Serving /\ rCNT' # rCCR_HRT
    <3>1. RealTime + Wait <= b /\ ~Serving' /\ Wait' = Wait - 1
      BY <1>7, <1>9, <1>13, <2>3
    <3>. QED
      BY <1>5, <1>8, <3>1
  <2>. QED
    BY <2>1, <2>2, <2>3
<1>14. GapInv'
  <2>1. LastRead + HRT_INTERVAL_MAX \in Int
    BY <1>1, <1>10
  <2>. QED
    BY <1>10, <1>13, <2>1 DEF IInv, GapInv
<1>15. ASSUME NEW d \in Nat, InTime(d)
       PROVE  IF Serving' THEN RealTime' <= d + EntryDelay + HRT_INTERVAL_MIN + late'
              ELSE RealTime' + Wait' <= d + EntryDelay + HRT_INTERVAL_MIN
  <2>1. d + EntryDelay + HRT_INTERVAL_MIN \in Int
    BY <1>1
  <2>. QED
    BY <1>13, <1>15, <2>1 DEF InTime
<1>16. DueInv'
  <2>1. \A j \in 1..Len(callout_queue) : deadline[callout_queue[j]] \in Nat
    BY DEF IInv, TypeOK
  <2>2. saved \in Nat
    BY DEF IInv, TypeOK
  <2>. QED
    BY <1>3, <1>15, <2>1, <2>2 DEF IInv, DueInv, InTime
<1>17. TypeOK'
  <2>1. SR_INT_HRT' \in BOOLEAN
    BY DEF Tick
  <2>2. rCNT' \in 0..(P - 1) /\ epoch' \in Nat
    BY <1>1, <1>2, <1>4
  <2>. QED
    BY <1>3, <1>6, <2>1, <2>2 DEF IInv, TypeOK
<1>18. QueueConsistent' /\ RunningInv'
  BY <1>3 DEF IInv, QueueConsistent, RunningInv
<1>. QED
  BY <1>12, <1>14, <1>16, <1>17, <1>18 DEF IInv

\* A call is taken out of the list: nothing the others wait for is later.
LEMMA CancelPreserves ==
  ASSUME IInv, NEW c \in Calls, hrt_cancel(c) PROVE IInv'
<1>1. /\ UNCHANGED <<rCNT, epoch, rCCR_HRT, SR_INT_HRT, late, base_time, last_count,
                     isr, cur, saved>>
      /\ callout_queue' = sq_rem(callout_queue, c)
      /\ deadline' = [deadline EXCEPT ![c] = 0]
      /\ period' = [period EXCEPT ![c] = 0]
  BY DEF hrt_cancel, clockVars, timeVars, isrVars
<1>2. /\ callout_queue \in Seq(Calls) /\ deadline \in [Calls -> Nat]
      /\ Ordered(callout_queue, deadline)
  BY DEF IInv, TypeOK, QueueConsistent
<1>3. /\ callout_queue' \in Seq(Calls) /\ Ordered(callout_queue', deadline)
      /\ ~InQueue(callout_queue', c)
      /\ \A e \in Calls : e # c =>
           (InQueue(callout_queue', e) <=> InQueue(callout_queue, e))
  BY <1>1, <1>2, RemoveKeepsOrder
<1>4. \A i \in 1..Len(callout_queue') :
         /\ callout_queue'[i] \in Calls /\ callout_queue'[i] # c
         /\ deadline'[callout_queue'[i]] = deadline[callout_queue'[i]]
  BY <1>1, <1>2, <1>3 DEF InQueue
<1>5. TypeOK'
  BY <1>1, <1>3 DEF IInv, TypeOK
<1>6. ClockInv' /\ GapInv'
  BY <1>1 DEF IInv, ClockInv, GapInv, Serving, RealTime, Wait, LastRead
<1>7. QueueConsistent'
  <2>1. Ordered(callout_queue', deadline')
    BY <1>3, <1>4 DEF Ordered
  <2>2. ASSUME NEW e \in Calls PROVE deadline'[e] # 0 <=> InQueue(callout_queue', e)
    BY <1>1, <1>2, <1>3 DEF IInv, QueueConsistent
  <2>. QED
    BY <2>1, <2>2 DEF QueueConsistent
<1>8. RunningInv'
  BY <1>1 DEF IInv, RunningInv, TypeOK
<1>9. DueInv'
  <2>1. ASSUME NEW i \in 1..Len(callout_queue')
        PROVE  InTime(deadline[callout_queue'[i]])
    <3>1. InQueue(callout_queue, callout_queue'[i])
      BY <1>3, <1>4, <2>1 DEF InQueue
    <3>. QED
      BY <3>1 DEF IInv, DueInv, InQueue
  <2>2. \A d : InTime(d) => IF Serving' THEN RealTime' <= d + EntryDelay + HRT_INTERVAL_MIN + late'
                            ELSE RealTime' + Wait' <= d + EntryDelay + HRT_INTERVAL_MIN
    BY <1>1 DEF InTime, Serving, RealTime, Wait
  <2>. QED
    BY <1>1, <1>4, <2>1, <2>2 DEF IInv, DueInv, InTime
<1>. QED
  BY <1>5, <1>6, <1>7, <1>8, <1>9 DEF IInv

\* Steps that read the time, or move the handler, and leave the list alone.
LEMMA ReadPreserves ==
  ASSUME IInv, CallAbsoluteTime PROVE IInv'
<1>1. /\ UNCHANGED <<rCNT, epoch, rCCR_HRT, SR_INT_HRT, late, callout_queue, deadline,
                     period, isr, cur, saved>>
      /\ ReadTime /\ UNCHANGED clockVars
  BY DEF CallAbsoluteTime, clockVars, isrVars
<1>2. /\ base_time' \in Nat /\ last_count' \in 0..(HRT_COUNTER_PERIOD - 1)
      /\ ClockInv' /\ LastRead' = RealTime
  BY <1>1, ReadTimeKeepsClock DEF IInv
<1>3. GapInv'
  <2>1. LastRead \in Nat /\ RealTime \in Nat /\ LastRead <= RealTime
        /\ HRT_INTERVAL_MAX \in Nat /\ late \in Nat
    BY HRTAssumption DEF IInv, TypeOK, ClockInv, LastRead, RealTime
  <2>2. Wait \in Nat
    BY WaitType, HRTAssumption DEF IInv
  <2>3. RealTime' = RealTime /\ Wait' = Wait /\ (Serving' <=> Serving) /\ late' = late
    BY <1>1 DEF RealTime, Wait, Serving
  <2>. QED
    BY <1>2, <2>1, <2>2, <2>3 DEF IInv, GapInv
<1>4. TypeOK'
  BY <1>1, <1>2 DEF IInv, TypeOK
<1>5. QueueConsistent' /\ RunningInv' /\ DueInv'
  BY <1>1 DEF IInv, QueueConsistent, RunningInv, DueInv, InTime, Serving, RealTime, Wait
<1>. QED
  BY <1>2, <1>3, <1>4, <1>5 DEF IInv

\* The handler starts; the interrupt was pending, so it is being served already.
LEMMA IsrPreserves ==
  ASSUME IInv, hrt_tim_isr PROVE IInv'
<1>1. /\ UNCHANGED <<rCNT, epoch, rCCR_HRT, late, base_time, last_count, callout_queue,
                     deadline, period, cur, saved>>
      /\ isr = "off" /\ isr' = "invoke" /\ SR_INT_HRT' = FALSE
      /\ Serving /\ Serving'
  BY DEF hrt_tim_isr, clockVars, timeVars, Serving
<1>2. TypeOK' /\ RunningInv'
  BY <1>1 DEF IInv, TypeOK, RunningInv
<1>3. ClockInv' /\ GapInv'
  BY <1>1 DEF IInv, ClockInv, GapInv, RealTime, LastRead
<1>4. QueueConsistent' /\ DueInv'
  BY <1>1 DEF IInv, QueueConsistent, DueInv, InTime, RealTime
<1>. QED
  BY <1>2, <1>3, <1>4 DEF IInv

\* The head of the list is taken off it and called.
LEMMA InvokePreserves ==
  ASSUME IInv, Invoke PROVE IInv'
<1> DEFINE q == callout_queue
<1>1. /\ UNCHANGED <<rCNT, epoch, rCCR_HRT, SR_INT_HRT, late, period>>
      /\ ReadTime /\ UNCHANGED clockVars
      /\ isr = "invoke" /\ isr' = "callout" /\ q # << >>
      /\ cur' = Head(q) /\ q' = Tail(q) /\ saved' = deadline[cur']
      /\ deadline' = [deadline EXCEPT ![cur'] = 0]
      /\ Serving /\ Serving'
  BY DEF Invoke, clockVars, Serving
<1>2. /\ q \in Seq(Calls) /\ deadline \in [Calls -> Nat] /\ period \in [Calls -> Nat]
      /\ Ordered(q, deadline)
      /\ \A c \in Calls : deadline[c] # 0 <=> InQueue(q, c)
  BY DEF IInv, TypeOK, QueueConsistent
<1>3. /\ cur' = q[1] /\ cur' \in Calls /\ Tail(q) \in Seq(Calls)
      /\ Len(q) \in Nat /\ Len(q) >= 1 /\ Len(Tail(q)) = Len(q) - 1
      /\ \A i \in 1..(Len(q) - 1) : Tail(q)[i] = q[i + 1]
  BY <1>1, <1>2
<1>4. \A i \in 1..Len(Tail(q)) : /\ i + 1 \in 1..Len(q) /\ Tail(q)[i] = q[i + 1]
                                 /\ q[i + 1] \in Calls /\ q[i + 1] # cur'
  BY <1>2, <1>3 DEF Ordered
<1>5. \A i \in 1..Len(Tail(q)) : deadline'[Tail(q)[i]] = deadline[q[i + 1]]
  BY <1>1, <1>2, <1>4
<1>6. \A e \in Calls : e # cur' => (InQueue(Tail(q), e) <=> InQueue(q, e))
  <2>1. ASSUME NEW e \in Calls, e # cur', InQueue(q, e) PROVE InQueue(Tail(q), e)
    <3>1. PICK k \in 1..Len(q) : q[k] = e
      BY <2>1 DEF InQueue
    <3>2. k - 1 \in 1..Len(Tail(q)) /\ Tail(q)[k - 1] = e
      BY <1>3, <2>1, <3>1
    <3>. QED
      BY <3>2 DEF InQueue
  <2>2. ASSUME NEW e \in Calls, InQueue(Tail(q), e) PROVE InQueue(q, e)
    BY <1>4, <2>2 DEF InQueue
  <2>. QED
    BY <2>1, <2>2
<1>7. ~InQueue(Tail(q), cur')
  BY <1>4 DEF InQueue
<1>8. QueueConsistent'
  <2>1. Ordered(Tail(q), deadline')
    <3>1. SUFFICES ASSUME NEW i \in 1..Len(Tail(q)), NEW j \in 1..Len(Tail(q)), i < j
                   PROVE  /\ Tail(q)[i] # Tail(q)[j]
                          /\ deadline'[Tail(q)[i]] <= deadline'[Tail(q)[j]]
      BY DEF Ordered
    <3>2. i + 1 \in 1..Len(q) /\ j + 1 \in 1..Len(q) /\ i + 1 < j + 1
      BY <1>4, <3>1
    <3>3. q[i + 1] # q[j + 1] /\ deadline[q[i + 1]] <= deadline[q[j + 1]]
      BY <1>2, <3>2 DEF Ordered
    <3>. QED
      BY <1>4, <1>5, <3>3
  <2>2. ASSUME NEW e \in Calls PROVE deadline'[e] # 0 <=> InQueue(Tail(q), e)
    BY <1>1, <1>2, <1>6, <1>7
  <2>. QED
    BY <1>1, <2>1, <2>2 DEF QueueConsistent
<1>9. /\ base_time' \in Nat /\ last_count' \in 0..(HRT_COUNTER_PERIOD - 1)
      /\ ClockInv' /\ LastRead' = RealTime
  BY <1>1, ReadTimeKeepsClock DEF IInv
<1>10. /\ RealTime' = RealTime /\ RealTime \in Nat /\ late' = late /\ late \in Nat
       /\ HRT_INTERVAL_MAX \in Nat
  BY <1>1, HRTAssumption DEF RealTime, IInv, TypeOK
<1>11. GapInv'
  BY <1>1, <1>9, <1>10 DEF GapInv
<1>12. TypeOK'
  BY <1>1, <1>2, <1>3, <1>9, HRTAssumption DEF IInv, TypeOK
<1>13. RunningInv'
  BY <1>1, <1>2, <1>3 DEF RunningInv
<1>14. DueInv'
  <2>1. ASSUME NEW i \in 1..Len(Tail(q)) PROVE InTime(deadline[q[i + 1]])
    BY <1>4, <2>1 DEF IInv, DueInv
  <2>2. InTime(deadline[cur'])
    BY <1>3 DEF IInv, DueInv
  <2>. QED
    BY <1>1, <1>5, <1>10, <2>1, <2>2 DEF DueInv, InTime
<1>. QED
  BY <1>8, <1>9, <1>11, <1>12, <1>13, <1>14 DEF IInv

\* A callout has returned; a periodic call goes back into the list.
LEMMA CalloutReturnsPreserves ==
  ASSUME IInv, CalloutReturns PROVE IInv'
<1>1. /\ UNCHANGED <<rCNT, epoch, SR_INT_HRT, late, period>>
      /\ isr = "callout" /\ isr' = "invoke" /\ cur' = NoCall /\ saved' = 0
      /\ Serving /\ Serving' /\ Serving' = Serving
  BY DEF CalloutReturns, clockVars, Serving
<1>2. /\ cur \in Calls /\ deadline \in [Calls -> Nat] /\ period \in [Calls -> Nat]
      /\ saved \in Nat /\ callout_queue \in Seq(Calls)
  BY <1>1 DEF IInv, TypeOK
<1>3. RunningInv'
  BY <1>1 DEF RunningInv
<1>4. CASE period[cur] = 0
  <2>1. UNCHANGED <<deadline, callout_queue, rCCR_HRT, base_time, last_count>>
    BY <1>4 DEF CalloutReturns, timeVars
  <2>2. TypeOK'
    BY <1>1, <2>1 DEF IInv, TypeOK
  <2>3. ClockInv' /\ GapInv'
    BY <1>1, <2>1 DEF IInv, ClockInv, GapInv, RealTime, LastRead
  <2>4. QueueConsistent' /\ DueInv'
    BY <1>1, <2>1 DEF IInv, QueueConsistent, DueInv, InTime, RealTime
  <2>. QED
    BY <1>3, <2>2, <2>3, <2>4 DEF IInv
<1>5. CASE period[cur] # 0
  <2> DEFINE dl == [deadline EXCEPT ![cur] = saved + period[cur]]
  <2>1. deadline' = dl /\ hrt_call_enter(callout_queue, dl, cur)
    BY <1>5 DEF CalloutReturns
  <2>2. /\ dl \in [Calls -> Nat] /\ dl[cur] = saved + period[cur] /\ dl[cur] # 0
        /\ \A e \in Calls : e # cur => dl[e] = deadline[e]
    BY <1>2, <1>5
  <2>3. deadline[cur] = 0 /\ ~InQueue(callout_queue, cur)
    BY <1>1, <1>2, <1>5 DEF IInv, RunningInv, QueueConsistent
  <2> HIDE DEF dl
  <2>4. \A i \in 1..Len(callout_queue) :
           /\ callout_queue[i] \in Calls
           /\ dl[callout_queue[i]] = deadline[callout_queue[i]]
    BY <1>2, <2>2, <2>3 DEF InQueue
  <2>5. /\ Ordered(callout_queue, dl)
        /\ \A e \in Calls : e # cur => (dl[e] # 0 <=> InQueue(callout_queue, e))
    BY <2>2, <2>4 DEF IInv, QueueConsistent, Ordered
  <2>6. \A i \in 1..Len(callout_queue) : InTime(dl[callout_queue[i]])
    BY <2>4 DEF IInv, DueInv
  <2>7. InTime(dl[cur])
    <3>1. RealTime <= saved + EntryDelay + HRT_INTERVAL_MIN + late
      BY <1>1 DEF IInv, DueInv, InTime
    <3>2. /\ RealTime \in Nat /\ EntryDelay \in Nat /\ HRT_INTERVAL_MIN \in Nat
          /\ late \in Nat /\ period[cur] \in Nat
      BY <1>2, HRTAssumption DEF IInv, TypeOK, RealTime
    <3>. QED
      BY <1>1, <1>2, <2>2, <3>1, <3>2 DEF InTime
  <2>8. /\ callout_queue' \in Seq(Calls)
        /\ rCCR_HRT' \in 0..(HRT_COUNTER_PERIOD - 1)
        /\ base_time' \in Nat /\ last_count' \in 0..(HRT_COUNTER_PERIOD - 1)
        /\ ClockInv' /\ GapInv' /\ QueueConsistent' /\ QueueInTime'
    BY <1>1, <1>2, <2>1, <2>2, <2>3, <2>5, <2>6, <2>7, EnterPreserves DEF IInv
  <2>9. TypeOK'
    BY <1>1, <2>1, <2>2, <2>8 DEF IInv, TypeOK
  <2>. QED
    BY <1>1, <1>3, <2>8, <2>9 DEF IInv, DueInv, QueueInTime
<1>. QED
  BY <1>4, <1>5

\* Nothing is due any more: the timer is programmed for the head of the list.
LEMMA IsrReturnsPreserves ==
  ASSUME IInv, IsrReturns PROVE IInv'
<1> DEFINE q == callout_queue
<1>1. /\ UNCHANGED <<rCNT, epoch, SR_INT_HRT, callout_queue, deadline, period, cur, saved>>
      /\ UNCHANGED clockVars /\ isr = "invoke" /\ isr' = "off" /\ late' = 0
      /\ q # << >> => deadline[Head(q)] > hrt_absolute_time
      /\ hrt_call_reschedule(q, deadline) /\ ReadTime
  BY DEF IsrReturns, clockVars, hrt_call_reschedule
<1>2. /\ q \in Seq(Calls) /\ deadline \in [Calls -> Nat] /\ Ordered(q, deadline)
      /\ TypeOK /\ ClockInv
  BY DEF IInv, TypeOK, QueueConsistent
<1>3. /\ base_time' \in Nat /\ last_count' \in 0..(HRT_COUNTER_PERIOD - 1)
      /\ ClockInv' /\ LastRead' = RealTime
  BY <1>1, <1>2, ReadTimeKeepsClock
<1>4. /\ rCCR_HRT' \in 0..(HRT_COUNTER_PERIOD - 1)
      /\ RealTime + Wait' = NextDeadline(q, deadline)
  BY <1>1, <1>2, Reschedule
<1>5. /\ NextDeadline(q, deadline) \in
            (RealTime + HRT_INTERVAL_MIN)..(RealTime + HRT_INTERVAL_MAX)
      /\ q # << >> => \/ NextDeadline(q, deadline) = RealTime + HRT_INTERVAL_MIN
                      \/ NextDeadline(q, deadline) <= deadline[Head(q)]
  BY <1>2, NextDeadlineBounds
<1>6. /\ RealTime' = RealTime /\ RealTime \in Nat /\ EntryDelay \in Nat
      /\ HRT_INTERVAL_MIN \in Nat /\ HRT_INTERVAL_MAX \in Nat
      /\ hrt_absolute_time = RealTime
  BY <1>1, <1>2, HRTAssumption, ClockGivesRealTime DEF RealTime, TypeOK
<1>7. GapInv'
  BY <1>1, <1>3, <1>4, <1>5, <1>6 DEF GapInv
<1>8. TypeOK'
  BY <1>1, <1>3, <1>4, HRTAssumption DEF IInv, TypeOK
<1>9. QueueConsistent' /\ RunningInv'
  BY <1>1 DEF IInv, QueueConsistent, RunningInv
<1>10. Wait' \in Int
  BY <1>1, <1>2, <1>4, HRTAssumption DEF Wait, TypeOK
<1>11. DueInv'
  <2>1. ASSUME NEW i \in 1..Len(q)
        PROVE  /\ RealTime <= deadline[q[i]] + EntryDelay + HRT_INTERVAL_MIN
               /\ RealTime + Wait' <= deadline[q[i]] + EntryDelay + HRT_INTERVAL_MIN
    <3>1. q # << >> /\ Head(q) = q[1] /\ 1 \in 1..Len(q)
      BY <1>2, <2>1
    <3>2. deadline[q[1]] \in Nat /\ deadline[q[i]] \in Nat /\ deadline[q[1]] <= deadline[q[i]]
      BY <1>2, <2>1, <3>1 DEF Ordered
    <3>3. RealTime < deadline[q[1]]
      BY <1>1, <1>6, <3>1, <3>2
    <3>4. \/ RealTime + Wait' = RealTime + HRT_INTERVAL_MIN
          \/ RealTime + Wait' <= deadline[q[1]]
      BY <1>4, <1>5, <3>1
    <3>5. \A t, a, b, m, d \in Nat, w \in Int :
             t < a /\ a <= b /\ (t + w = t + m \/ t + w <= a)
                => t <= b + d + m /\ t + w <= b + d + m
      OBVIOUS
    <3>. QED
      BY <1>6, <1>10, <3>2, <3>3, <3>4, <3>5, Zenon
  <2>2. \A i \in 1..Len(q) : deadline[q[i]] \in Nat
    BY <1>2
  <2>. QED
    BY <1>1, <1>6, <2>1, <2>2 DEF DueInv, InTime
<1>. QED
  BY <1>3, <1>7, <1>8, <1>9, <1>11 DEF IInv

\* No tick, timer call or step of the interrupt handler breaks the invariant.
LEMMA NextIInv == IInv /\ [Next]_vars => IInv'
<1> SUFFICES ASSUME IInv, [Next]_vars PROVE IInv'
  OBVIOUS
<1>1. CASE Tick
  BY <1>1, TickPreserves
<1>2. ASSUME NEW c \in Calls, NEW delay \in Delays, hrt_call_after(c, delay)
      PROVE  IInv'
  <2>1. PICK d \in EntryDeadlines(delay) : d > 0 /\ hrt_call_internal(c, d, 0)
    BY <1>2 DEF hrt_call_after
  <2>2. d \in Nat \ {0} /\ RealTime <= d + EntryDelay
    BY <2>1, EntryDeadlinesBounds DEF IInv
  <2>3. UNCHANGED <<clockVars, SR_INT_HRT, late, isrVars>>
    BY <1>2 DEF hrt_call_after
  <2>. QED
    BY <2>1, <2>2, <2>3, InternalPreserves
<1>3. ASSUME NEW c \in Calls, NEW delay \in Delays, NEW p \in Periods,
             hrt_call_every(c, delay, p)
      PROVE  IInv'
  <2>1. PICK d \in EntryDeadlines(delay) : d > 0 /\ hrt_call_internal(c, d, p)
    BY <1>3 DEF hrt_call_every
  <2>2. d \in Nat \ {0} /\ RealTime <= d + EntryDelay
    BY <2>1, EntryDeadlinesBounds DEF IInv
  <2>3. UNCHANGED <<clockVars, SR_INT_HRT, late, isrVars>> /\ c # cur
    BY <1>3 DEF hrt_call_every
  <2>4. p \in Nat
    BY HRTAssumption
  <2>. QED
    BY <2>1, <2>2, <2>3, <2>4, InternalPreserves
<1>4. ASSUME NEW c \in Calls, hrt_cancel(c) PROVE IInv'
  BY <1>4, CancelPreserves
<1>5. CASE CallAbsoluteTime
  BY <1>5, ReadPreserves
<1>6. CASE hrt_tim_isr
  BY <1>6, IsrPreserves
<1>7. CASE Invoke
  BY <1>7, InvokePreserves
<1>8. CASE CalloutReturns
  BY <1>8, CalloutReturnsPreserves
<1>9. CASE IsrReturns
  BY <1>9, IsrReturnsPreserves
<1>10. CASE UNCHANGED vars
  <2>1. TypeOK' /\ ClockInv' /\ QueueConsistent' /\ RunningInv'
    BY <1>10 DEF vars, IInv, TypeOK, ClockInv, QueueConsistent, RunningInv
  <2>2. GapInv' /\ DueInv'
    BY <1>10 DEF vars, IInv, GapInv, DueInv, InTime, Serving, RealTime, Wait, LastRead
  <2>. QED
    BY <2>1, <2>2 DEF IInv
<1>. QED
  BY <1>1, <1>2, <1>3, <1>4, <1>5, <1>6, <1>7, <1>8, <1>9, <1>10 DEF Next

-----------------------------------------------------------------------------
(* The theorems.                                                           *)

\* The inductive invariant holds in every state the timer can reach.
THEOREM Invariance == Spec => []IInv
BY InitIInv, NextIInv, PTL DEF Spec

\* Every variable of the timer, its registers and its list keeps its type.
THEOREM TypeCorrect == Spec => []TypeOK
<1>1. IInv => TypeOK
  BY DEF IInv
<1>. QED
  BY <1>1, Invariance, PTL

\* hrt_absolute_time always returns the real time: whatever callers queue and
\* cancel, and however late the handler is within MaxLatency, the 16-bit
\* counter is read at least once in every period of it.
THEOREM AbsoluteTimeCorrect == Spec => []TimeIsReal
<1>1. IInv => TimeIsReal
  BY ClockGivesRealTime DEF IInv, TimeIsReal
<1>. QED
  BY <1>1, Invariance, PTL

\* The callout list is ordered, without duplicates, and holds exactly the
\* calls hrt_called says have not been invoked.
THEOREM CalloutListCorrect == Spec => []QueueConsistent
<1>1. IInv => QueueConsistent
  BY DEF IInv
<1>. QED
  BY <1>1, Invariance, PTL

\* No call waits in the list longer after its deadline than the time a caller
\* may lose before queueing it, the minimum interval and the latency together.
THEOREM CalloutsTimely == Spec => []CalledInTime
<1>1. ASSUME IInv PROVE CalledInTime
  <2>1. SUFFICES ASSUME NEW i \in 1..Len(callout_queue)
                 PROVE  RealTime <= deadline[callout_queue[i]] + EntryDelay
                                      + HRT_INTERVAL_MIN + MaxLatency
    BY DEF CalledInTime
  <2>2. /\ deadline[callout_queue[i]] \in Nat /\ EntryDelay \in Nat
        /\ HRT_INTERVAL_MIN \in Nat /\ MaxLatency \in Nat /\ late \in 0..MaxLatency
        /\ RealTime \in Nat /\ HRT_COUNTER_PERIOD \in Nat
    BY <1>1, HRTAssumption DEF IInv, TypeOK, RealTime
  <2>3. Wait \in 1..HRT_COUNTER_PERIOD
    BY <1>1, WaitType DEF IInv
  <2>4. InTime(deadline[callout_queue[i]])
    BY <1>1 DEF IInv, DueInv
  <2>5. CASE Serving
    <3>1. RealTime <= deadline[callout_queue[i]] + EntryDelay + HRT_INTERVAL_MIN + late
      BY <2>4, <2>5 DEF InTime
    <3>. QED
      BY <2>2, <3>1
  <2>6. CASE ~Serving
    <3>1. RealTime + Wait <= deadline[callout_queue[i]] + EntryDelay + HRT_INTERVAL_MIN
      BY <2>4, <2>6 DEF InTime
    <3>. QED
      BY <2>2, <2>3, <3>1
  <2>. QED
    BY <2>5, <2>6
<1>. QED
  BY <1>1, Invariance, PTL

=============================================================================
