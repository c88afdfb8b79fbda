----------------------------- MODULE uORBProofs -----------------------------
(***************************************************************************)
(* Proofs about a uORB topic, for any number of writers, subscribers and   *)
(* blocks and any size of the waiter table.                                *)
(***************************************************************************)
EXTENDS uORB, TLAPS

(***************************************************************************)
(* The steps of a writer up to the new generation leave subscribers alone. *)
(***************************************************************************)
LEMMA WriterKeepsWake ==
  ASSUME WakeInv, NEW w \in Writers,
         \/ OpenFirst(w) \/ node_advertise(w) \/ OpenAgain(w)
         \/ CloseAdvertiser(w) \/ orb_publish(w) \/ WriteBegin(w)
         \/ WriteCopy(w) \/ WriteLoad(w)
  PROVE  WakeInv'
<1>1. UNCHANGED <<_generation, spc, sd, mem, callouts, known, _pollset, lock,
                  state, revents, sem>>
  BY DEF OpenFirst, node_advertise, OpenAgain, CloseAdvertiser, orb_publish, WriteBegin,
         WriteCopy, WriteLoad, subVars, pollVars, Open
<1>2. \A v \in Writers : wpc[v] = "stored" => wpc'[v] = "stored"
  BY DEF WakeInv, TypeOK, OpenFirst, node_advertise, OpenAgain, CloseAdvertiser,
         orb_publish, WriteBegin, WriteCopy, WriteLoad, Open
<1>3. TypeOK'
  <2>1. node' \in BOOLEAN /\ allocated' \in BOOLEAN
    BY DEF WakeInv, TypeOK, OpenFirst, node_advertise, OpenAgain, CloseAdvertiser,
           orb_publish, WriteBegin, WriteCopy, WriteLoad
  <2>2. _publisher' \in Writers \cup {None}
    BY DEF WakeInv, TypeOK, OpenFirst, node_advertise, OpenAgain, CloseAdvertiser,
           orb_publish, WriteBegin, WriteCopy, WriteLoad, Open
  <2>3. _data' \in 0..MaxWrites
    <3>1. CASE WriteCopy(w)
      BY <3>1, uORBAssumption DEF WakeInv, TypeOK, WriteCopy
    <3>2. CASE ~WriteCopy(w)
      BY <3>2 DEF WakeInv, TypeOK, OpenFirst, node_advertise, OpenAgain,
                  CloseAdvertiser, orb_publish, WriteBegin, WriteLoad
    <3>. QED  BY <3>1, <3>2
  <2>4. /\ wpc' \in [Writers -> {"start", "create", "retry", "opened", "failed",
                                 "idle", "publish", "begun", "copied",
                                 "loaded", "stored"}]
        /\ reg' \in [Writers -> 0..(GenMod - 1)]
    BY DEF WakeInv, TypeOK, OpenFirst, node_advertise, OpenAgain, CloseAdvertiser,
           orb_publish, WriteBegin, WriteCopy, WriteLoad, Open
  <2>. QED  BY <1>1, <2>1, <2>2, <2>3, <2>4 DEF WakeInv, TypeOK
<1>4. HandleInv' /\ TimerInv'
  BY <1>1 DEF WakeInv, HandleInv, TimerInv
<1>5. SleepInv'
  BY <1>1, <1>2 DEF WakeInv, SleepInv, Pending
<1>. QED  BY <1>3, <1>4, <1>5 DEF WakeInv

\* The new generation makes updates pending, but its writer is about to notify.
LEMMA StoreKeepsWake ==
  ASSUME WakeInv, NEW w \in Writers, WriteStore(w)
  PROVE  WakeInv'
<1>1. TypeOK'
  BY uORBAssumption DEF WakeInv, TypeOK, WriteStore, subVars, pollVars
<1>2. HandleInv' /\ TimerInv'
  BY DEF WakeInv, HandleInv, TimerInv, WriteStore, subVars, pollVars
<1>3. SleepInv'
  BY DEF WakeInv, TypeOK, SleepInv, WriteStore, subVars, pollVars
<1>. QED  BY <1>1, <1>2, <1>3 DEF WakeInv

(***************************************************************************)
(* What poll_notify leaves behind, whoever calls it: a waiter with an      *)
(* update for it is woken, or its interval is running.                     *)
(***************************************************************************)
LEMMA AskedType ==
  ASSUME NEW m \in [Blocks -> SubscriberData], NEW B
  PROVE  Asked(m, B) \in [Blocks -> SubscriberData]
BY DEF Asked, SubscriberData

\* poll_notify leaves no registered waiter asleep on an update it could have been told of.
LEMMA NotifyKeepsWake ==
  ASSUME TypeOK, HandleInv,
         NEW m \in [Blocks -> SubscriberData], NEW q \in SUBSET Blocks,
         \A s \in Subs : spc[s] # "closed" /\ m[sd[s]].deadline => sd[s] \in q,
         poll_notify(m, q),
         UNCHANGED <<node, _publisher, allocated, _data, _generation, reg, spc, sd,
                     known, _pollset, lock, state>>,
         wpc' \in [Writers -> {"start", "create", "retry", "opened", "failed",
                               "idle", "publish", "begun", "copied", "loaded", "stored"}]
  PROVE  WakeInv'
<1>. DEFINE waiting == {sd[s] : s \in _pollset}
            woken   == {s \in _pollset : appears_updated(m, sd[s])}
<1>1. /\ mem' = Asked(m, waiting)
      /\ callouts' = q \cup Queued(m, waiting)
      /\ revents' = [s \in Subs |-> s \in woken \/ revents[s]]
      /\ sem' = [s \in Subs |-> IF s \in woken /\ sem[s] = 0 THEN 1 ELSE sem[s]]
  BY DEF poll_notify
<1>. HIDE DEF woken
<1>2. \A s \in _pollset : sd[s] \in Blocks
  BY DEF TypeOK, HandleInv
<1>3. mem' \in [Blocks -> SubscriberData] /\ callouts' \subseteq Blocks
  BY <1>1, <1>2, AskedType DEF Queued
<1>4. /\ revents' \in [Subs -> BOOLEAN] /\ sem' \in [Subs -> 0..2]
      /\ \A s \in Subs : sem[s] <= 1 => sem'[s] <= 1
  BY <1>1 DEF TypeOK
<1>5. TypeOK'
  BY <1>3, <1>4 DEF TypeOK
<1>6. HandleInv'
  BY <1>4 DEF HandleInv, TypeOK
<1>7. TimerInv'
  <2>. SUFFICES ASSUME NEW s \in Subs, spc[s] # "closed", mem'[sd[s]].deadline
                PROVE  sd[s] \in callouts'
    BY DEF TimerInv
  <2>1. sd[s] \in Blocks
    BY DEF TypeOK
  <2>2. CASE sd[s] \in waiting /\ StartsTimer(m, sd[s])
    BY <1>1, <2>2 DEF Queued
  <2>3. CASE ~(sd[s] \in waiting /\ StartsTimer(m, sd[s]))
    <3>1. mem'[sd[s]] = m[sd[s]]
      BY <1>1, <2>1, <2>3 DEF Asked
    <3>. QED  BY <3>1, <1>1
  <2>. QED  BY <2>2, <2>3
<1>8. SleepInv'
  <2>. SUFFICES ASSUME NEW s \in _pollset, sem'[s] = 0, Pending(mem, sd[s])'
                PROVE  sd[s] \in callouts'
    BY DEF SleepInv
  <2>1. s \in Subs /\ spc[s] # "closed" /\ sd[s] \in Blocks
    BY <1>2 DEF TypeOK, HandleInv
  <2>2. mem'[sd[s]].generation = m[sd[s]].generation
    <3>1. \/ mem'[sd[s]] = m[sd[s]]
          \/ mem'[sd[s]] = [m[sd[s]] EXCEPT !.deadline = TRUE, !.update_reported = TRUE]
      BY <1>1, <2>1 DEF Asked
    <3>2. m[sd[s]] \in SubscriberData
      BY <2>1
    <3>. QED  BY <3>1, <3>2 DEF SubscriberData
  <2>3. Pending(m, sd[s])
    BY <2>2 DEF Pending
  <2>4. s \notin woken
    BY <1>1, <2>1
  <2>5. ~appears_updated(m, sd[s])
    BY <2>4 DEF woken
  <2>6. m[sd[s]].deadline
    BY <2>3, <2>5 DEF appears_updated, hrt_called
  <2>. QED  BY <2>1, <2>6, <1>1
<1>. QED  BY <1>5, <1>6, <1>7, <1>8 DEF WakeInv

\* The publisher's notification, and the interval timer's.
LEMMA NotificationsKeepWake ==
  ASSUME WakeInv, \/ \E w \in Writers : WriteNotify(w)
                  \/ \E b \in Blocks : update_deferred(b)
  PROVE  WakeInv'
<1>1. ASSUME NEW w \in Writers, WriteNotify(w)
      PROVE  WakeInv'
  <2>1. /\ mem \in [Blocks -> SubscriberData] /\ callouts \in SUBSET Blocks
        /\ wpc' \in [Writers -> {"start", "create", "retry", "opened", "failed",
                                 "idle", "publish", "begun", "copied", "loaded", "stored"}]
    BY <1>1 DEF WakeInv, TypeOK, WriteNotify
  <2>. QED  BY <1>1, <2>1, NotifyKeepsWake DEF WakeInv, TimerInv, WriteNotify
<1>2. ASSUME NEW b \in Blocks, update_deferred(b)
      PROVE  WakeInv'
  <2>. DEFINE m == [mem EXCEPT ![b].deadline = FALSE]
              q == callouts \ {b}
  <2>1. m \in [Blocks -> SubscriberData] /\ q \in SUBSET Blocks
    BY DEF WakeInv, TypeOK, SubscriberData
  <2>2. wpc' \in [Writers -> {"start", "create", "retry", "opened", "failed",
                              "idle", "publish", "begun", "copied", "loaded", "stored"}]
    BY <1>2 DEF WakeInv, TypeOK, update_deferred, writerVars
  <2>3. \A s \in Subs : spc[s] # "closed" /\ m[sd[s]].deadline => sd[s] \in q
    BY DEF WakeInv, TypeOK, TimerInv, SubscriberData
  <2>4. poll_notify(m, q)
    BY <1>2 DEF update_deferred
  <2>. HIDE DEF m, q
  <2>. QED  BY <1>2, <2>1, <2>2, <2>3, <2>4, NotifyKeepsWake
            DEF WakeInv, update_deferred, writerVars
<1>. QED  BY <1>1, <1>2

(***************************************************************************)
(* What a subscriber does to its own handle cannot take a wakeup from it   *)
(* or from anybody else.                                                   *)
(***************************************************************************)
LEMMA SubscribeKeepsWake ==
  ASSUME WakeInv, NEW s \in Subs, orb_subscribe(s)
  PROVE  WakeInv'
<1>1. PICK b \in Blocks \ {sd[t] : t \in Subs} :
        /\ sd' = [sd EXCEPT ![s] = b]
        /\ mem' = [mem EXCEPT ![b] = FreshData(_generation)]
  BY DEF orb_subscribe
<1>2. \A t \in Subs : t # s => sd'[t] = sd[t] /\ mem'[sd[t]] = mem[sd[t]] /\ spc'[t] = spc[t]
  BY <1>1 DEF WakeInv, TypeOK, orb_subscribe
<1>3. sd'[s] = b /\ ~mem'[b].deadline /\ s \notin _pollset /\ spc'[s] = "idle"
  BY <1>1 DEF WakeInv, TypeOK, HandleInv, orb_subscribe, FreshData
<1>4. TypeOK'
  <2>1. FreshData(_generation) \in SubscriberData
    BY DEF WakeInv, TypeOK, FreshData, SubscriberData
  <2>. QED  BY <1>1, <2>1 DEF WakeInv, TypeOK, orb_subscribe
<1>5. HandleInv'
  BY <1>1, <1>2, <1>3, uORBAssumption DEF WakeInv, TypeOK, HandleInv, orb_subscribe
<1>6. TimerInv'
  BY <1>2, <1>3 DEF WakeInv, TimerInv, orb_subscribe
<1>7. SleepInv'
  BY <1>2, <1>3 DEF WakeInv, TypeOK, SleepInv, Pending, orb_subscribe
<1>. QED  BY <1>4, <1>5, <1>6, <1>7 DEF WakeInv

\* orb_copy and orb_set_interval keep the wakeup invariant.
LEMMA HandleOpsKeepWake ==
  ASSUME WakeInv, NEW s \in Subs,
         orb_copy(s) \/ (\E i \in {0, 1} : orb_set_interval(s, i))
  PROVE  WakeInv'
<1>1. /\ spc[s] = "idle" /\ sd[s] \in Blocks /\ s \notin _pollset
      /\ \A t \in Subs : t # s => sd[t] # sd[s]
  BY uORBAssumption DEF WakeInv, TypeOK, HandleInv, orb_copy, orb_set_interval
<1>2. UNCHANGED <<node, _publisher, allocated, _data, _generation, wpc, reg, spc, sd,
                  callouts, _pollset, lock, state, sem>>
  BY DEF orb_copy, orb_set_interval, writerVars, pollVars
<1>3. /\ mem' \in [Blocks -> SubscriberData]
      /\ mem'[sd[s]].deadline = mem[sd[s]].deadline
      /\ \A b \in Blocks : b # sd[s] => mem'[b] = mem[b]
  <2>1. CASE orb_copy(s)
    BY <1>1, <2>1 DEF WakeInv, TypeOK, SubscriberData, orb_copy
  <2>2. CASE \E i \in {0, 1} : orb_set_interval(s, i)
    BY <1>1, <2>2 DEF WakeInv, TypeOK, SubscriberData, orb_set_interval
  <2>. QED  BY <2>1, <2>2
<1>4. known' \in [Subs -> 0..MaxWrites] /\ revents' \in [Subs -> BOOLEAN]
  <2>1. CASE orb_copy(s)
    BY <2>1 DEF WakeInv, TypeOK, orb_copy
  <2>2. CASE \E i \in {0, 1} : orb_set_interval(s, i)
    BY <2>2 DEF WakeInv, TypeOK, orb_set_interval, pollVars
  <2>. QED  BY <2>1, <2>2
<1>5. TypeOK'
  BY <1>2, <1>3, <1>4 DEF WakeInv, TypeOK
<1>6. HandleInv' /\ TimerInv'
  BY <1>1, <1>2, <1>3 DEF WakeInv, TypeOK, HandleInv, TimerInv
<1>7. SleepInv'
  BY <1>1, <1>2, <1>3 DEF WakeInv, TypeOK, HandleInv, SleepInv, Pending
<1>. QED  BY <1>5, <1>6, <1>7 DEF WakeInv

\* close() frees a block no other handle uses, and its owner is not in the waiter table.
LEMMA UnsubscribeKeepsWake ==
  ASSUME WakeInv, NEW s \in Subs, orb_unsubscribe(s)
  PROVE  WakeInv'
<1>1. s \notin _pollset /\ ~state[s]
  BY DEF WakeInv, HandleInv, orb_unsubscribe
<1>2. UNCHANGED <<node, _publisher, allocated, _data, _generation, wpc, reg, mem,
                  callouts, known, _pollset, lock, state, revents, sem>>
  BY DEF orb_unsubscribe, writerVars, pollVars
<1>3. TypeOK'
  BY <1>2 DEF WakeInv, TypeOK, orb_unsubscribe
<1>4. HandleInv'
  BY <1>1, <1>2 DEF WakeInv, TypeOK, HandleInv, orb_unsubscribe
<1>5. TimerInv' /\ SleepInv'
  BY <1>1, <1>2 DEF WakeInv, TypeOK, TimerInv, SleepInv, Pending, orb_unsubscribe
<1>. QED  BY <1>3, <1>4, <1>5 DEF WakeInv

-----------------------------------------------------------------------------
(***************************************************************************)
(* Asking appears_updated of one's own handle: a pending update that is    *)
(* not reported leaves the interval running.                               *)
(***************************************************************************)
LEMMA AskKeepsTimer ==
  ASSUME WakeInv, NEW s \in Subs, sd[s] \in Blocks,
         mem' = Asked(mem, {sd[s]}),
         callouts' = callouts \cup Queued(mem, {sd[s]}),
         UNCHANGED <<_generation, sd, spc>> \/ (UNCHANGED <<_generation, sd>> /\ spc[s] # "closed"
           /\ \A t \in Subs : t # s => spc'[t] = spc[t])
  PROVE  /\ mem' \in [Blocks -> SubscriberData] /\ callouts' \subseteq Blocks
         /\ TimerInv'
         /\ \A b \in Blocks : mem'[b].generation = mem[b].generation
         /\ callouts \subseteq callouts'
         /\ Pending(mem, sd[s]) /\ ~appears_updated(mem, sd[s]) /\ spc[s] # "closed"
              => sd[s] \in callouts'
<1>1. mem' \in [Blocks -> SubscriberData] /\ callouts' \subseteq Blocks
  BY AskedType DEF WakeInv, TypeOK, Queued
<1>2. \A b \in Blocks : mem'[b].generation = mem[b].generation
  BY DEF WakeInv, TypeOK, Asked, SubscriberData
<1>3. TimerInv'
  <2>. SUFFICES ASSUME NEW t \in Subs, spc'[t] # "closed", mem'[sd[t]].deadline
                PROVE  sd[t] \in callouts'
    BY DEF TimerInv
  <2>1. spc[t] # "closed" /\ sd[t] \in Blocks
    BY DEF WakeInv, TypeOK
  <2>2. CASE sd[t] = sd[s] /\ StartsTimer(mem, sd[t])
    BY <2>2 DEF Queued
  <2>3. CASE ~(sd[t] = sd[s] /\ StartsTimer(mem, sd[t]))
    <3>1. mem'[sd[t]] = mem[sd[t]]
      BY <2>1, <2>3 DEF Asked
    <3>. QED  BY <2>1, <3>1 DEF WakeInv, TimerInv
  <2>. QED  BY <2>2, <2>3
<1>4. Pending(mem, sd[s]) /\ ~appears_updated(mem, sd[s]) /\ spc[s] # "closed"
        => sd[s] \in callouts'
  BY DEF WakeInv, TimerInv, appears_updated, hrt_called
<1>. QED  BY <1>1, <1>2, <1>3, <1>4

\* orb_check keeps the wakeup invariant, whether or not it starts the interval timer.
LEMMA CheckKeepsWake ==
  ASSUME WakeInv, NEW s \in Subs, orb_check(s)
  PROVE  WakeInv'
<1>1. UNCHANGED <<node, _publisher, allocated, _data, _generation, wpc, reg, spc, sd,
                  known, _pollset, lock, state, revents, sem>>
  BY DEF orb_check, writerVars, pollVars
<1>2. sd[s] \in Blocks
  BY DEF WakeInv, TypeOK, orb_check
<1>3. /\ mem' \in [Blocks -> SubscriberData] /\ callouts' \subseteq Blocks
      /\ TimerInv'
      /\ \A b \in Blocks : mem'[b].generation = mem[b].generation
      /\ callouts \subseteq callouts'
  BY <1>1, <1>2, AskKeepsTimer DEF orb_check
<1>4. TypeOK' /\ HandleInv'
  BY <1>1, <1>3 DEF WakeInv, TypeOK, HandleInv
<1>5. SleepInv'
  BY <1>1, <1>3 DEF WakeInv, TypeOK, HandleInv, SleepInv, Pending
<1>. QED  BY <1>3, <1>4, <1>5 DEF WakeInv

\* After poll_state the waiter has seen the update, or a timer or publisher will announce it.
LEMMA PollStateKeepsWake ==
  ASSUME WakeInv, NEW s \in Subs, PollState(s)
  PROVE  WakeInv'
<1>1. /\ UNCHANGED <<node, _publisher, allocated, _data, _generation, wpc, reg, sd,
                     known, _pollset, lock, revents, sem>>
      /\ spc[s] = "setup" /\ sd[s] \in Blocks
      /\ spc' = [spc EXCEPT ![s] = "state"]
  BY DEF WakeInv, TypeOK, PollState, writerVars
<1>2. /\ mem' \in [Blocks -> SubscriberData] /\ callouts' \subseteq Blocks
      /\ TimerInv'
      /\ \A b \in Blocks : mem'[b].generation = mem[b].generation
      /\ callouts \subseteq callouts'
      /\ Pending(mem, sd[s]) /\ ~appears_updated(mem, sd[s]) /\ spc[s] # "closed"
           => sd[s] \in callouts'
  <2>1. \A t \in Subs : t # s => spc'[t] = spc[t]
    BY <1>1 DEF WakeInv, TypeOK
  <2>. QED  BY <1>1, <2>1, AskKeepsTimer DEF PollState
<1>3. appears_updated(mem, sd[s]) \in BOOLEAN
  BY DEF appears_updated
<1>4. state' = [state EXCEPT ![s] = appears_updated(mem, sd[s])]
  BY DEF PollState
<1>5. TypeOK'
  <2>1. state' \in [Subs -> BOOLEAN]
    BY <1>3, <1>4 DEF WakeInv, TypeOK
  <2>. QED  BY <1>1, <1>2, <2>1 DEF WakeInv, TypeOK
<1>6. HandleInv'
  BY <1>1, <1>4 DEF WakeInv, TypeOK, HandleInv
<1>7. SleepInv'
  <2>. SUFFICES ASSUME NEW t \in _pollset, spc'[t] \in {"state", "wait"}, sem[t] = 0,
                       ~state'[t], Pending(mem, sd[t])'
                PROVE  sd[t] \in callouts' \/ \E w \in Writers : wpc[w] = "stored"
    BY <1>1 DEF SleepInv
  <2>1. t \in Subs /\ sd[t] \in Blocks
    BY DEF WakeInv, TypeOK, HandleInv
  <2>2. Pending(mem, sd[t])
    BY <1>1, <1>2, <2>1 DEF Pending
  <2>3. CASE t = s
    <3>1. ~appears_updated(mem, sd[s])
      BY <1>4, <2>1, <2>3 DEF WakeInv, TypeOK
    <3>. QED  BY <1>1, <1>2, <2>2, <2>3, <3>1
  <2>4. CASE t # s
    <3>1. spc'[t] = spc[t] /\ state'[t] = state[t]
      BY <1>1, <1>4, <2>1, <2>4 DEF WakeInv, TypeOK
    <3>. QED  BY <1>2, <2>2, <3>1 DEF WakeInv, SleepInv
  <2>. QED  BY <2>3, <2>4
<1>. QED  BY <1>2, <1>5, <1>6, <1>7 DEF WakeInv

(***************************************************************************)
(* The other steps of poll() touch the caller's own semaphore, revents and *)
(* table slot only.                                                        *)
(***************************************************************************)
LEMMA PollStoreKeepsWake ==
  ASSUME WakeInv, NEW s \in Subs, PollStore(s)
  PROVE  WakeInv'
<1>1. /\ UNCHANGED <<node, _publisher, allocated, _data, _generation, wpc, reg, sd,
                     mem, callouts, known, state>>
      /\ spc[s] = "idle" /\ sem' = [sem EXCEPT ![s] = 0]
      /\ revents' = [revents EXCEPT ![s] = FALSE]
  BY DEF PollStore, writerVars
<1>2. \/ /\ _pollset' = _pollset \cup {s} /\ lock' = s
         /\ spc' = [spc EXCEPT ![s] = "setup"]
      \/ /\ _pollset' = _pollset /\ lock' = lock
         /\ spc' = [spc EXCEPT ![s] = "wait"]
  BY DEF PollStore
<1>3. s \notin _pollset
  BY <1>1 DEF WakeInv, HandleInv
<1>4. TypeOK'
  BY <1>1, <1>2 DEF WakeInv, TypeOK
<1>5. HandleInv'
  BY <1>1, <1>2 DEF WakeInv, TypeOK, HandleInv
<1>6. TimerInv'
  BY <1>1, <1>2 DEF WakeInv, TypeOK, TimerInv
<1>7. SleepInv'
  BY <1>1, <1>2, <1>3 DEF WakeInv, TypeOK, SleepInv, Pending
<1>. QED  BY <1>4, <1>5, <1>6, <1>7 DEF WakeInv

\* The end of CDev::poll posts what poll_state saw, so that its caller does not sleep on it.
LEMMA PollPostKeepsWake ==
  ASSUME WakeInv, NEW s \in Subs, PollPost(s)
  PROVE  WakeInv'
<1>1. /\ UNCHANGED <<node, _publisher, allocated, _data, _generation, wpc, reg, sd,
                     mem, callouts, known, _pollset>>
      /\ spc[s] = "state" /\ spc' = [spc EXCEPT ![s] = "wait"]
      /\ lock' = None /\ state' = [state EXCEPT ![s] = FALSE]
  BY DEF PollPost, writerVars
<1>2. PICK before \in {FALSE, revents[s]} :
        /\ revents' = [revents EXCEPT ![s] = before \/ state[s]]
        /\ sem' = [sem EXCEPT ![s] = IF before \/ state[s] THEN sem[s] + 1 ELSE sem[s]]
  BY DEF PollPost
<1>3. TypeOK'
  <2>1. revents' \in [Subs -> BOOLEAN]
    BY <1>2 DEF WakeInv, TypeOK
  <2>2. sem' \in [Subs -> 0..2]
    BY <1>1, <1>2 DEF WakeInv, TypeOK, HandleInv
  <2>. QED  BY <1>1, <2>1, <2>2 DEF WakeInv, TypeOK
<1>4. HandleInv'
  BY <1>1, <1>2 DEF WakeInv, TypeOK, HandleInv
<1>5. TimerInv'
  BY <1>1 DEF WakeInv, TypeOK, TimerInv
<1>6. SleepInv'
  BY <1>1, <1>2 DEF WakeInv, TypeOK, HandleInv, SleepInv, Pending
<1>. QED  BY <1>3, <1>4, <1>5, <1>6 DEF WakeInv

\* Waking, timing out and leaving the waiter table keep the wakeup invariant.
LEMMA PollEndKeepsWake ==
  ASSUME WakeInv, NEW s \in Subs, PollWake(s) \/ PollTimeout(s) \/ PollTeardown(s)
  PROVE  WakeInv'
<1>1. CASE PollWake(s)
  BY <1>1 DEF WakeInv, TypeOK, HandleInv, TimerInv, SleepInv, Pending, PollWake,
              writerVars, pollVars
<1>2. CASE PollTimeout(s)
  BY <1>2 DEF WakeInv, TypeOK, HandleInv, TimerInv, SleepInv, Pending, PollTimeout,
              writerVars, subVars
<1>3. CASE PollTeardown(s)
  BY <1>3 DEF WakeInv, TypeOK, HandleInv, TimerInv, SleepInv, Pending, PollTeardown,
              writerVars
<1>. QED  BY <1>1, <1>2, <1>3

\* A topic that does not exist yet satisfies the wakeup invariant.
LEMMA InitWake == Init => WakeInv
<1>. SUFFICES ASSUME Init
              PROVE  WakeInv
  OBVIOUS
<1>1. TypeOK
  <2>1. GenMod \in Nat /\ 0 < GenMod /\ MaxWrites \in Nat
    BY uORBAssumption
  <2>2. mem \in [Blocks -> SubscriberData]
    BY <2>1 DEF Init, FreshData, SubscriberData
  <2>3. /\ node \in BOOLEAN /\ allocated \in BOOLEAN
        /\ state \in [Subs -> BOOLEAN] /\ revents \in [Subs -> BOOLEAN]
    BY DEF Init
  <2>4. /\ _publisher \in Writers \cup {None}
        /\ _data \in 0..MaxWrites /\ _generation \in 0..(GenMod - 1)
        /\ reg \in [Writers -> 0..(GenMod - 1)]
        /\ sem \in [Subs -> 0..2] /\ known \in [Subs -> 0..MaxWrites]
    BY <2>1 DEF Init
  <2>5. /\ wpc \in [Writers -> {"start", "create", "retry", "opened", "failed",
                                "idle", "publish", "begun", "copied", "loaded", "stored"}]
        /\ spc \in [Subs -> {"closed", "idle", "setup", "state", "wait", "awake"}]
        /\ sd \in [Subs -> Blocks \cup {None}]
        /\ \A s \in Subs : spc[s] # "closed" => sd[s] \in Blocks
        /\ callouts \subseteq Blocks
        /\ _pollset \subseteq Subs /\ lock \in Subs \cup {None}
    BY DEF Init
  <2>. QED  BY <2>2, <2>3, <2>4, <2>5 DEF TypeOK
<1>2. HandleInv /\ TimerInv /\ SleepInv
  BY DEF Init, HandleInv, TimerInv, SleepInv
<1>. QED  BY <1>1, <1>2 DEF WakeInv

(***************************************************************************)
(* WakeInv is inductive: it holds for any number of writers, although      *)
(* their unprotected increments may set the generation back.               *)
(***************************************************************************)
LEMMA StepWake == WakeInv /\ [Next]_vars => WakeInv'
<1>. SUFFICES ASSUME WakeInv, [Next]_vars
              PROVE  WakeInv'
  OBVIOUS
<1>1. ASSUME NEW w \in Writers, Writing(w) \/ orb_publish(w)
      PROVE  WakeInv'
  BY <1>1, WriterKeepsWake, StoreKeepsWake, NotificationsKeepWake DEF Writing
<1>2. ASSUME NEW b \in Blocks, update_deferred(b)
      PROVE  WakeInv'
  BY <1>2, NotificationsKeepWake
<1>3. ASSUME NEW s \in Subs,
             \/ orb_subscribe(s) \/ orb_unsubscribe(s) \/ orb_copy(s) \/ orb_check(s)
             \/ \E i \in {0, 1} : orb_set_interval(s, i)
             \/ PollStore(s) \/ PollTimeout(s) \/ Polling(s)
      PROVE  WakeInv'
  BY <1>3, SubscribeKeepsWake, UnsubscribeKeepsWake, HandleOpsKeepWake, CheckKeepsWake,
     PollStoreKeepsWake, PollStateKeepsWake, PollPostKeepsWake, PollEndKeepsWake
  DEF Polling
<1>4. CASE UNCHANGED vars
  BY <1>4 DEF WakeInv, TypeOK, HandleInv, TimerInv, SleepInv, Pending, vars
<1>. QED  BY <1>1, <1>2, <1>3, <1>4 DEF Next

\* The wakeup invariant holds in every reachable state, for any number of publishers and subscribers.
THEOREM WakeInvariance == Spec => []WakeInv
BY InitWake, StepWake, PTL DEF Spec

\* The state of a topic and of its handles is well typed.
THEOREM TypeCorrect == Spec => []TypeOK
<1>1. WakeInv => TypeOK
  BY DEF WakeInv
<1>. QED  BY <1>1, WakeInvariance, PTL

(***************************************************************************)
(* No wakeup is lost: write()'s order (generation first, then poll_notify) *)
(* and poll()'s (waiter in the table first, then poll_state) leave no      *)
(* window in which a subscriber falls asleep on an update.                 *)
(***************************************************************************)
THEOREM WakeupsAreNotLost == Spec => []NoLostWakeup
<1>1. WakeInv => NoLostWakeup
  BY DEF WakeInv, TypeOK, HandleInv, SleepInv, NoLostWakeup
<1>. QED  BY <1>1, WakeInvariance, PTL

-----------------------------------------------------------------------------
\* A topic with a single writer; most topics have one, rc_channels and debug_key_value have several.
OneWriter == \A v, w \in Writers : v = w

\* A subscriber's generation is only set by itself, to the topic's.
LEMMA WriterKeepsUpdate ==
  ASSUME UpdateInv, OneWriter, NEW w \in Writers,
         \/ OpenFirst(w) \/ node_advertise(w) \/ OpenAgain(w)
         \/ CloseAdvertiser(w) \/ orb_publish(w) \/ WriteBegin(w)
         \/ WriteCopy(w) \/ WriteLoad(w)
  PROVE  PublishInv' /\ FreshInv'
<1>1. UNCHANGED <<_generation, spc, sd, mem, known, state, revents>>
  BY DEF OpenFirst, node_advertise, OpenAgain, CloseAdvertiser, orb_publish, WriteBegin,
         WriteCopy, WriteLoad, subVars, pollVars
<1>2. _data \in Nat /\ _generation \in Nat
  BY DEF UpdateInv, WakeInv, TypeOK
<1>3. PublishInv'
  <2>1. CASE WriteCopy(w)
    BY <1>1, <1>2, <2>1
    DEF UpdateInv, WakeInv, TypeOK, PublishInv, NotPublishing, OneWriter, WriteCopy
  <2>2. CASE WriteLoad(w)
    BY <1>1, <1>2, <2>2
    DEF UpdateInv, WakeInv, TypeOK, PublishInv, NotPublishing, OneWriter, WriteLoad
  <2>3. CASE \/ OpenFirst(w) \/ node_advertise(w) \/ OpenAgain(w)
             \/ CloseAdvertiser(w) \/ orb_publish(w) \/ WriteBegin(w)
    BY <1>1, <1>2, <2>3
    DEF UpdateInv, WakeInv, TypeOK, PublishInv, NotPublishing, OneWriter, OpenFirst,
        node_advertise, OpenAgain, CloseAdvertiser, orb_publish, WriteBegin, Open
  <2>. QED  BY <2>1, <2>2, <2>3
<1>4. _data <= _data'
  BY <1>2 DEF OpenFirst, node_advertise, OpenAgain, CloseAdvertiser, orb_publish, WriteBegin,
              WriteCopy, WriteLoad
<1>5. _data' \in Nat
  BY <1>2 DEF OpenFirst, node_advertise, OpenAgain, CloseAdvertiser, orb_publish, WriteBegin,
              WriteCopy, WriteLoad
<1>6. \A s \in Subs : known[s] \in Nat
  BY DEF UpdateInv, WakeInv, TypeOK
<1>7. FreshInv'
  BY <1>1, <1>2, <1>4, <1>5, <1>6 DEF UpdateInv, FreshInv
<1>. QED  BY <1>3, <1>7

\* The new generation of write() catches up with the data, and is new to every subscriber behind it.
LEMMA StoreKeepsUpdate ==
  ASSUME UpdateInv, OneWriter, NEW w \in Writers, WriteStore(w)
  PROVE  PublishInv' /\ FreshInv'
<1>1. /\ wpc[w] = "loaded" /\ wpc' = [wpc EXCEPT ![w] = "stored"]
      /\ _generation' = (reg[w] + 1) % GenMod
      /\ UNCHANGED <<_data, spc, sd, mem, known, state, revents>>
  BY DEF WriteStore, subVars, pollVars
<1>2. _data = _generation + 1 /\ reg[w] = _generation
  BY <1>1 DEF UpdateInv, PublishInv
<1>3. _data \in 0..MaxWrites /\ _generation \in Nat
  BY DEF UpdateInv, WakeInv, TypeOK
<1>4. _generation' = _data
  BY <1>1, <1>2, <1>3, uORBAssumption
<1>5. PublishInv'
  <2>1. \A v \in Writers : wpc'[v] = "stored"
    BY <1>1 DEF UpdateInv, WakeInv, TypeOK, OneWriter
  <2>. QED  BY <1>1, <1>4, <2>1 DEF PublishInv
<1>6. FreshInv'
  <2>. SUFFICES ASSUME NEW s \in Subs, spc[s] # "closed"
                PROVE  /\ mem[sd[s]].generation <= known[s] /\ known[s] <= _data
                       /\ mem[sd[s]].generation <= _data
                       /\ revents[s] \/ state[s] => mem[sd[s]].generation < _data
    BY <1>1, <1>4 DEF FreshInv
  <2>1. mem[sd[s]].generation \in Nat /\ known[s] \in Nat
    BY DEF UpdateInv, WakeInv, TypeOK, SubscriberData
  <2>. QED  BY <1>2, <1>3, <2>1 DEF UpdateInv, FreshInv
<1>. QED  BY <1>5, <1>6

(***************************************************************************)
(* A notification reports only what is pending: appears_updated is false   *)
(* for a handle whose generation is the topic's.                           *)
(***************************************************************************)
LEMMA NotifyKeepsFresh ==
  ASSUME UpdateInv,
         NEW m \in [Blocks -> SubscriberData], NEW q,
         \A b \in Blocks : m[b].generation = mem[b].generation,
         poll_notify(m, q),
         UNCHANGED <<_data, _generation, spc, sd, known, state>>
  PROVE  FreshInv'
<1>. SUFFICES ASSUME NEW s \in Subs, spc[s] # "closed"
              PROVE  /\ mem'[sd[s]].generation <= known[s] /\ known[s] <= _data
                     /\ mem'[sd[s]].generation <= _generation
                     /\ revents'[s] \/ state[s] => mem'[sd[s]].generation < _generation
  BY DEF FreshInv
<1>1. sd[s] \in Blocks
  BY DEF UpdateInv, WakeInv, TypeOK
<1>2. mem' = Asked(m, {sd[t] : t \in _pollset})
  BY DEF poll_notify
<1>3. mem'[sd[s]].generation = mem[sd[s]].generation
  BY <1>1, <1>2 DEF Asked, SubscriberData
<1>4. revents'[s] => revents[s] \/ appears_updated(m, sd[s])
  BY DEF poll_notify
<1>5. appears_updated(m, sd[s]) => mem[sd[s]].generation # _generation
  BY <1>1 DEF appears_updated, Pending
<1>6. mem[sd[s]].generation \in Nat /\ _generation \in Nat
  BY <1>1 DEF UpdateInv, WakeInv, TypeOK, SubscriberData
<1>. QED  BY <1>3, <1>4, <1>5, <1>6 DEF UpdateInv, FreshInv

\* The publisher's and the timer's notifications tell only of updates that are there.
LEMMA NotificationsKeepUpdate ==
  ASSUME UpdateInv, OneWriter,
         \/ \E w \in Writers : WriteNotify(w)
         \/ \E b \in Blocks : update_deferred(b)
  PROVE  PublishInv' /\ FreshInv'
<1>1. ASSUME NEW w \in Writers, WriteNotify(w)
      PROVE  PublishInv' /\ FreshInv'
  <2>1. FreshInv'
    <3>1. mem \in [Blocks -> SubscriberData]
      BY DEF UpdateInv, WakeInv, TypeOK
    <3>. QED  BY <1>1, <3>1, NotifyKeepsFresh DEF WriteNotify
  <2>2. PublishInv'
    BY <1>1 DEF UpdateInv, WakeInv, TypeOK, PublishInv, NotPublishing, WriteNotify
  <2>. QED  BY <2>1, <2>2
<1>2. ASSUME NEW b \in Blocks, update_deferred(b)
      PROVE  PublishInv' /\ FreshInv'
  <2>. DEFINE m == [mem EXCEPT ![b].deadline = FALSE]
              q == callouts \ {b}
  <2>1. /\ m \in [Blocks -> SubscriberData]
        /\ \A c \in Blocks : m[c].generation = mem[c].generation
    BY DEF UpdateInv, WakeInv, TypeOK, SubscriberData
  <2>2. poll_notify(m, q)
    BY <1>2 DEF update_deferred
  <2>. HIDE DEF m, q
  <2>3. FreshInv'
    BY <1>2, <2>1, <2>2, NotifyKeepsFresh DEF update_deferred, writerVars
  <2>4. PublishInv'
    BY <1>2 DEF UpdateInv, PublishInv, NotPublishing, update_deferred, writerVars
  <2>. QED  BY <2>3, <2>4
<1>. QED  BY <1>1, <1>2

\* No operation of a subscriber puts its generation ahead of what it has collected.
LEMMA SubscriberKeepsUpdate ==
  ASSUME UpdateInv, NEW s \in Subs,
         \/ orb_subscribe(s) \/ orb_unsubscribe(s) \/ orb_copy(s) \/ orb_check(s)
         \/ \E i \in {0, 1} : orb_set_interval(s, i)
         \/ PollStore(s) \/ PollTimeout(s) \/ Polling(s)
  PROVE  PublishInv' /\ FreshInv'
<1>1. UNCHANGED <<_data, _generation, wpc, reg>>
  BY DEF orb_subscribe, orb_unsubscribe, orb_copy, orb_check, orb_set_interval,
         PollStore, PollTimeout, Polling, PollState, PollPost, PollWake, PollTeardown,
         writerVars
<1>2. PublishInv'
  BY <1>1 DEF UpdateInv, PublishInv, NotPublishing
<1>3. /\ _data \in Nat /\ _generation \in Nat /\ _generation <= _data
      /\ \A t \in Subs : spc[t] # "closed" => sd[t] \in Blocks
      /\ \A t \in Subs : known[t] \in Nat
      /\ \A b \in Blocks : mem[b].generation \in Nat
  BY DEF UpdateInv, WakeInv, TypeOK, SubscriberData, PublishInv, NotPublishing
<1>4. CASE orb_subscribe(s)
  <2>1. PICK b \in Blocks \ {sd[t] : t \in Subs} :
          /\ sd' = [sd EXCEPT ![s] = b]
          /\ mem' = [mem EXCEPT ![b] = FreshData(_generation)]
    BY <1>4 DEF orb_subscribe
  <2>2. \A t \in Subs : t # s =>
          /\ sd'[t] = sd[t] /\ mem'[sd[t]] = mem[sd[t]] /\ spc'[t] = spc[t]
          /\ known'[t] = known[t] /\ revents'[t] = revents[t]
    BY <1>4, <2>1 DEF UpdateInv, WakeInv, TypeOK, orb_subscribe
  <2>3. /\ sd'[s] = b /\ mem'[b].generation = _generation
        /\ known'[s] = _data /\ ~revents'[s] /\ ~state'[s]
    BY <1>4, <2>1 DEF UpdateInv, WakeInv, TypeOK, HandleInv, orb_subscribe, FreshData
  <2>4. state' = state
    BY <1>4 DEF orb_subscribe
  <2>. QED  BY <1>1, <1>2, <1>3, <2>2, <2>3, <2>4 DEF UpdateInv, FreshInv
<1>5. CASE orb_unsubscribe(s)
  BY <1>1, <1>2, <1>5
  DEF UpdateInv, WakeInv, TypeOK, FreshInv, orb_unsubscribe, pollVars
<1>6. CASE orb_copy(s)
  <2>1. /\ sd[s] \in Blocks /\ \A t \in Subs : t # s => sd[t] # sd[s]
        /\ spc' = spc /\ sd' = sd /\ state' = state /\ ~state[s]
    BY <1>6, uORBAssumption DEF UpdateInv, WakeInv, TypeOK, HandleInv, orb_copy
  <2>2. /\ mem'[sd[s]].generation = _generation
        /\ \A b \in Blocks : b # sd[s] => mem'[b] = mem[b]
    BY <1>6, <2>1 DEF UpdateInv, WakeInv, TypeOK, SubscriberData, orb_copy
  <2>3. /\ known'[s] = _data /\ ~revents'[s]
        /\ \A t \in Subs : t # s => known'[t] = known[t] /\ revents'[t] = revents[t]
    BY <1>6 DEF UpdateInv, WakeInv, TypeOK, orb_copy
  <2>. QED  BY <1>1, <1>2, <1>3, <2>1, <2>2, <2>3 DEF UpdateInv, FreshInv
<1>7. CASE orb_check(s) \/ \E i \in {0, 1} : orb_set_interval(s, i)
  <2>1. /\ sd[s] \in Blocks
        /\ UNCHANGED <<spc, sd, known, revents, state>>
    BY <1>7 DEF UpdateInv, WakeInv, TypeOK, orb_check, orb_set_interval, pollVars
  <2>2. \A b \in Blocks : mem'[b].generation = mem[b].generation
    <3>1. CASE orb_check(s)
      BY <3>1, <2>1 DEF UpdateInv, WakeInv, TypeOK, SubscriberData, orb_check, Asked
    <3>2. CASE \E i \in {0, 1} : orb_set_interval(s, i)
      BY <3>2, <2>1 DEF UpdateInv, WakeInv, TypeOK, SubscriberData, orb_set_interval
    <3>. QED  BY <1>7, <3>1, <3>2
  <2>. QED  BY <1>1, <1>2, <1>3, <2>1, <2>2 DEF UpdateInv, FreshInv
<1>8. CASE PollStore(s)
  <2>1. /\ UNCHANGED <<sd, mem, known, state>>
        /\ spc[s] = "idle" /\ \A t \in Subs : t # s => spc'[t] = spc[t]
        /\ \A t \in Subs : revents'[t] => revents[t]
    BY <1>8 DEF UpdateInv, WakeInv, TypeOK, PollStore
  <2>. QED  BY <1>1, <1>2, <2>1 DEF UpdateInv, FreshInv
<1>9. CASE PollState(s)
  <2>1. /\ UNCHANGED <<sd, known, revents>>
        /\ spc[s] = "setup" /\ sd[s] \in Blocks
        /\ \A t \in Subs : t # s => spc'[t] = spc[t]
        /\ \A t \in Subs : t # s => state'[t] = state[t]
    BY <1>9 DEF UpdateInv, WakeInv, TypeOK, PollState
  <2>2. \A b \in Blocks : mem'[b].generation = mem[b].generation
    BY <1>9 DEF UpdateInv, WakeInv, TypeOK, SubscriberData, PollState, Asked
  <2>3. state'[s] => mem[sd[s]].generation # _generation
    BY <1>9 DEF UpdateInv, WakeInv, TypeOK, PollState, appears_updated, Pending
  <2>. QED  BY <1>1, <1>2, <1>3, <2>1, <2>2, <2>3 DEF UpdateInv, FreshInv
<1>10. CASE PollPost(s)
  <2>1. /\ UNCHANGED <<sd, mem, known>> /\ spc[s] = "state"
        /\ \A t \in Subs : t # s => spc'[t] = spc[t]
        /\ \A t \in Subs : state'[t] => state[t]
    BY <1>10 DEF UpdateInv, WakeInv, TypeOK, PollPost
  <2>2. \A t \in Subs : revents'[t] => revents[t] \/ state[t]
    BY <1>10 DEF UpdateInv, WakeInv, TypeOK, PollPost
  <2>. QED  BY <1>1, <1>2, <2>1, <2>2 DEF UpdateInv, FreshInv
<1>11. CASE PollTimeout(s) \/ PollWake(s) \/ PollTeardown(s)
  <2>1. /\ UNCHANGED <<sd, mem, known, state, revents>> /\ spc[s] # "closed"
        /\ \A t \in Subs : t # s => spc'[t] = spc[t]
    BY <1>11 DEF UpdateInv, WakeInv, TypeOK, PollTimeout, PollWake, PollTeardown,
                 subVars, pollVars
  <2>. QED  BY <1>1, <1>2, <2>1 DEF UpdateInv, FreshInv
<1>. QED  BY <1>4, <1>5, <1>6, <1>7, <1>8, <1>9, <1>10, <1>11 DEF Polling

\* With one writer, every step keeps generation, data and subscribers in agreement.
LEMMA StepUpdate ==
  ASSUME OneWriter
  PROVE  UpdateInv /\ [Next]_vars => UpdateInv'
<1>. SUFFICES ASSUME UpdateInv, [Next]_vars
              PROVE  UpdateInv'
  OBVIOUS
<1>1. WakeInv'
  BY StepWake DEF UpdateInv
<1>2. ASSUME NEW w \in Writers, Writing(w) \/ orb_publish(w)
      PROVE  PublishInv' /\ FreshInv'
  BY <1>2, WriterKeepsUpdate, StoreKeepsUpdate, NotificationsKeepUpdate DEF Writing
<1>3. ASSUME NEW b \in Blocks, update_deferred(b)
      PROVE  PublishInv' /\ FreshInv'
  BY <1>3, NotificationsKeepUpdate
<1>4. ASSUME NEW s \in Subs,
             \/ orb_subscribe(s) \/ orb_unsubscribe(s) \/ orb_copy(s) \/ orb_check(s)
             \/ \E i \in {0, 1} : orb_set_interval(s, i)
             \/ PollStore(s) \/ PollTimeout(s) \/ Polling(s)
      PROVE  PublishInv' /\ FreshInv'
  BY <1>4, SubscriberKeepsUpdate
<1>5. CASE UNCHANGED vars
  <2>1. UNCHANGED <<_data, _generation, wpc, reg, spc, sd, mem, known, revents, state>>
    BY <1>5 DEF vars
  <2>2. PublishInv'
    BY <2>1 DEF UpdateInv, PublishInv, NotPublishing
  <2>3. FreshInv'
    BY <2>1 DEF UpdateInv, FreshInv
  <2>. QED  BY <1>1, <2>2, <2>3 DEF UpdateInv
<1>. QED  BY <1>1, <1>2, <1>3, <1>4, <1>5 DEF Next, UpdateInv

\* A topic that does not exist yet satisfies the update invariant.
LEMMA InitUpdate == Init => UpdateInv
<1>1. Init => PublishInv /\ FreshInv
  BY DEF Init, PublishInv, NotPublishing, FreshInv
<1>. QED  BY <1>1, InitWake DEF UpdateInv

(***************************************************************************)
(* With a single writer no update is lost: a subscriber that has not       *)
(* collected the newest publication sees a generation other than its own.  *)
(* The run with two writers shows that the hypothesis is needed.           *)
(***************************************************************************)
THEOREM UpdatesAreNotLost ==
  ASSUME OneWriter
  PROVE  Spec => []NoLostUpdate
<1>1. UpdateInv => NoLostUpdate
  <2>. SUFFICES ASSUME UpdateInv, NotPublishing, NEW s \in Subs, spc[s] # "closed",
                       known[s] # _data
                PROVE  Pending(mem, sd[s])
    BY DEF NoLostUpdate
  <2>1. mem[sd[s]].generation \in Nat /\ known[s] \in Nat /\ _data \in Nat
    BY DEF UpdateInv, WakeInv, TypeOK, SubscriberData
  <2>. QED  BY <2>1 DEF UpdateInv, PublishInv, FreshInv, Pending
<1>. QED  BY <1>1, InitUpdate, StepUpdate, PTL DEF Spec

\* With a single writer, a waiter that is told of an update finds one.
THEOREM UpdatesAreNotSpurious ==
  ASSUME OneWriter
  PROVE  Spec => []NoSpuriousUpdate
<1>1. UpdateInv => NoSpuriousUpdate
  <2>. SUFFICES ASSUME UpdateInv, NEW s \in Subs, spc[s] # "closed", revents[s]
                PROVE  Pending(mem, sd[s])
    BY DEF NoSpuriousUpdate
  <2>1. mem[sd[s]].generation \in Nat /\ _generation \in Nat
    BY DEF UpdateInv, WakeInv, TypeOK, SubscriberData
  <2>. QED  BY <2>1 DEF UpdateInv, FreshInv, Pending
<1>. QED  BY <1>1, InitUpdate, StepUpdate, PTL DEF Spec
\* With one writer, nobody else can have the node open when an advertiser tries again.
LEMMA StepAdvertise ==
  ASSUME OneWriter
  PROVE  TypeOK /\ AdvertiseInv /\ AdvertiseSucceeds /\ [Next]_vars
           => AdvertiseInv' /\ AdvertiseSucceeds'
<1>. SUFFICES ASSUME TypeOK, AdvertiseInv, AdvertiseSucceeds, [Next]_vars
              PROVE  AdvertiseInv' /\ AdvertiseSucceeds'
  OBVIOUS
<1>1. ASSUME NEW w \in Writers, Writing(w) \/ orb_publish(w)
      PROVE  AdvertiseInv' /\ AdvertiseSucceeds'
  <2>1. \A v \in Writers : v = w
    BY DEF OneWriter
  <2>2. _publisher \in {w, None} /\ w # None
    BY <2>1, uORBAssumption DEF TypeOK
  <2>3. CASE OpenFirst(w)
    BY <2>1, <2>2, <2>3 DEF OpenFirst, Open, TypeOK, AdvertiseInv, AdvertiseSucceeds
  <2>4. CASE node_advertise(w) \/ CloseAdvertiser(w)
    BY <2>1, <2>2, <2>4
    DEF node_advertise, CloseAdvertiser, TypeOK, AdvertiseInv, AdvertiseSucceeds
  <2>5. CASE OpenAgain(w)
    <3>1. node /\ _publisher = None
      BY <2>2, <2>5 DEF OpenAgain, AdvertiseInv
    <3>. QED
      BY <2>1, <2>2, <2>5, <3>1 DEF OpenAgain, Open, TypeOK, AdvertiseInv, AdvertiseSucceeds
  <2>6. CASE \/ orb_publish(w) \/ WriteBegin(w) \/ WriteCopy(w) \/ WriteLoad(w)
             \/ WriteStore(w) \/ WriteNotify(w)
    <3>1. /\ UNCHANGED <<node, _publisher>> /\ _publisher = None
          /\ wpc'[w] \notin {"retry", "opened", "failed"}
      BY <2>2, <2>6
      DEF orb_publish, WriteBegin, WriteCopy, WriteLoad, WriteStore, WriteNotify,
          TypeOK, AdvertiseInv
    <3>. QED  BY <2>1, <3>1 DEF AdvertiseInv, AdvertiseSucceeds
  <2>. QED  BY <1>1, <2>3, <2>4, <2>5, <2>6 DEF Writing
<1>2. ASSUME UNCHANGED <<_publisher, wpc>>, node' = node \/ node' = TRUE
      PROVE  AdvertiseInv' /\ AdvertiseSucceeds'
  BY <1>2 DEF AdvertiseInv, AdvertiseSucceeds
<1>3. ASSUME \/ UNCHANGED vars
             \/ \E b \in Blocks : update_deferred(b)
             \/ \E s \in Subs :
                  \/ orb_subscribe(s) \/ orb_unsubscribe(s) \/ orb_copy(s) \/ orb_check(s)
                  \/ \E i \in {0, 1} : orb_set_interval(s, i)
                  \/ PollStore(s) \/ PollTimeout(s) \/ Polling(s)
      PROVE  UNCHANGED <<_publisher, wpc>> /\ (node' = node \/ node' = TRUE)
  BY <1>3
  DEF vars, update_deferred, orb_subscribe, orb_unsubscribe, orb_copy, orb_check,
      orb_set_interval, PollStore, PollTimeout, Polling, PollState, PollPost, PollWake,
      PollTeardown, writerVars
<1>. QED  BY <1>1, <1>2, <1>3 DEF Next

(***************************************************************************)
(* With a single advertiser orb_advertise succeeds, whether it or a        *)
(* subscriber creates the node.  With two it may fail, so that "any number *)
(* of advertisers" of uORB.h is too much to promise.                       *)
(***************************************************************************)
THEOREM OneAdvertiserSucceeds ==
  ASSUME OneWriter
  PROVE  Spec => []AdvertiseSucceeds
<1>1. Init => AdvertiseInv /\ AdvertiseSucceeds
  BY DEF Init, AdvertiseInv, AdvertiseSucceeds
<1>2. TypeOK /\ AdvertiseInv /\ AdvertiseSucceeds /\ [Next]_vars
        => AdvertiseInv' /\ AdvertiseSucceeds'
  BY StepAdvertise
<1>. QED  BY <1>1, <1>2, TypeCorrect, PTL DEF Spec

-----------------------------------------------------------------------------
(***************************************************************************)
(* No subscriber that limits its rate unsubscribes.  close() leaves the    *)
(* interval timer as it is, and MCuORBUnsubscribe shows what becomes of a  *)
(* block that is freed with its call still linked.                         *)
(***************************************************************************)
LimitedStayOpen == RateLimited \cap Closers = {}

\* What appears_updated links is running, and belongs to a handle with an interval.
LEMMA AskKeepsLinked ==
  ASSUME TypeOK,
         NEW m \in [Blocks -> SubscriberData], NEW q \in SUBSET Blocks,
         \A b \in q : m[b].deadline /\ \E s \in RateLimited : sd[s] = b,
         \A s \in Subs \ RateLimited : spc[s] # "closed" => m[sd[s]].update_interval = 0,
         NEW B \in SUBSET Blocks,
         \A b \in B : \E s \in Subs : spc[s] # "closed" /\ sd[s] = b,
         mem' = Asked(m, B), callouts' = q \cup Queued(m, B), sd' = sd,
         \A s \in Subs : spc'[s] # "closed" => spc[s] # "closed"
  PROVE  LinkedInv'
<1>1. ASSUME NEW b \in Blocks
      PROVE  /\ m[b].deadline \/ (b \in B /\ StartsTimer(m, b)) => mem'[b].deadline
             /\ mem'[b].update_interval = m[b].update_interval
  <2>1. m[b] \in SubscriberData
    OBVIOUS
  <2>2. CASE b \in B /\ StartsTimer(m, b)
    <3>1. mem'[b] = [m[b] EXCEPT !.deadline = TRUE, !.update_reported = TRUE]
      BY <2>2 DEF Asked
    <3>2. mem'[b].deadline = TRUE /\ mem'[b].update_interval = m[b].update_interval
      BY <2>1, <3>1 DEF SubscriberData
    <3>. QED  BY <3>2
  <2>3. CASE ~(b \in B /\ StartsTimer(m, b))
    <3>1. mem'[b] = m[b]
      BY <2>3 DEF Asked
    <3>. QED  BY <2>3, <3>1
  <2>. QED  BY <2>2, <2>3
<1>2. ASSUME NEW b \in callouts'
      PROVE  mem'[b].deadline /\ \E s \in RateLimited : sd[s] = b
  <2>1. CASE b \in q
    BY <1>1, <2>1
  <2>2. CASE b \in Queued(m, B)
    <3>1. b \in B /\ b \in Blocks /\ StartsTimer(m, b)
      BY <2>2 DEF Queued
    <3>2. mem'[b].deadline
      BY <1>1, <3>1
    <3>3. PICK s \in Subs : spc[s] # "closed" /\ sd[s] = b
      BY <3>1
    <3>4. s \in RateLimited
      BY <3>1, <3>3 DEF StartsTimer
    <3>. QED  BY <3>2, <3>3, <3>4
  <2>. QED  BY <1>2, <2>1, <2>2
<1>3. ASSUME NEW s \in Subs \ RateLimited, spc'[s] # "closed"
      PROVE  mem'[sd[s]].update_interval = 0
  <2>1. spc[s] # "closed" /\ sd[s] \in Blocks
    BY <1>3 DEF TypeOK
  <2>. QED  BY <1>1, <2>1
<1>. QED  BY <1>2, <1>3 DEF LinkedInv

\* A step that touches neither the blocks nor the callout list, and opens no handle.
LEMMA QuietKeepsLinked ==
  ASSUME LinkedInv, UNCHANGED <<mem, callouts, sd>>,
         \A s \in Subs : spc'[s] # "closed" => spc[s] # "closed"
  PROVE  LinkedInv'
BY DEF LinkedInv

\* The publisher's notification; and the timer's, whose own call is unlinked first.
LEMMA NotificationsKeepLinked ==
  ASSUME WakeInv, LinkedInv,
         \/ \E w \in Writers : WriteNotify(w)
         \/ \E b \in Blocks : update_deferred(b)
  PROVE  LinkedInv'
<1>. DEFINE B == {sd[s] : s \in _pollset}
<1>1. /\ B \in SUBSET Blocks
      /\ \A b \in B : \E s \in Subs : spc[s] # "closed" /\ sd[s] = b
  BY DEF WakeInv, TypeOK, HandleInv
<1>2. TypeOK /\ mem \in [Blocks -> SubscriberData] /\ callouts \in SUBSET Blocks
  BY DEF WakeInv, TypeOK
<1>3. ASSUME NEW w \in Writers, WriteNotify(w)
      PROVE  LinkedInv'
  <2>1. /\ mem' = Asked(mem, B) /\ callouts' = callouts \cup Queued(mem, B)
        /\ sd' = sd /\ spc' = spc
    BY <1>3 DEF WriteNotify, poll_notify
  <2>. HIDE DEF B
  <2>. QED  BY <1>1, <1>2, <2>1, AskKeepsLinked DEF LinkedInv
<1>4. ASSUME NEW b \in Blocks, update_deferred(b)
      PROVE  LinkedInv'
  <2>. DEFINE m == [mem EXCEPT ![b].deadline = FALSE]
              q == callouts \ {b}
  <2>1. /\ mem' = Asked(m, B) /\ callouts' = q \cup Queued(m, B)
        /\ sd' = sd /\ spc' = spc
    BY <1>4 DEF update_deferred, poll_notify
  <2>2. m \in [Blocks -> SubscriberData] /\ q \in SUBSET Blocks
    BY <1>2 DEF SubscriberData
  <2>3. \A c \in q : m[c].deadline /\ \E s \in RateLimited : sd[s] = c
    BY <1>2 DEF LinkedInv
  <2>4. \A c \in Blocks : m[c].update_interval = mem[c].update_interval
    BY <1>2 DEF SubscriberData
  <2>5. \A s \in Subs \ RateLimited : spc[s] # "closed" => m[sd[s]].update_interval = 0
    BY <1>2, <2>4 DEF LinkedInv, TypeOK
  <2>. HIDE DEF m, q, B
  <2>. QED  BY <1>1, <1>2, <2>1, <2>2, <2>3, <2>5, AskKeepsLinked
<1>. QED  BY <1>3, <1>4

\* open() takes a block nobody has, so none that is linked; close() frees one that is not.
LEMMA OpenCloseKeepLinked ==
  ASSUME LimitedStayOpen, WakeInv, LinkedInv, NEW s \in Subs,
         orb_subscribe(s) \/ orb_unsubscribe(s)
  PROVE  LinkedInv'
<1>1. CASE orb_subscribe(s)
  <2>1. PICK b \in Blocks \ {sd[t] : t \in Subs} :
          /\ sd' = [sd EXCEPT ![s] = b]
          /\ mem' = [mem EXCEPT ![b] = FreshData(_generation)]
    BY <1>1 DEF orb_subscribe
  <2>2. \A t \in Subs : t # s => sd'[t] = sd[t] /\ mem'[sd[t]] = mem[sd[t]] /\ spc'[t] = spc[t]
    BY <1>1, <2>1 DEF WakeInv, TypeOK, orb_subscribe
  <2>3. sd'[s] = b /\ mem'[b].update_interval = 0 /\ callouts' = callouts
    BY <1>1, <2>1 DEF WakeInv, TypeOK, orb_subscribe, FreshData
  <2>4. ASSUME NEW c \in callouts
        PROVE  mem'[c].deadline /\ \E t \in RateLimited : sd'[t] = c
    <3>1. PICK t \in RateLimited : sd[t] = c
      BY DEF LinkedInv
    <3>2. t \in Subs /\ t # s
      BY <1>1, <3>1, uORBAssumption DEF WakeInv, TypeOK, HandleInv, orb_subscribe
    <3>. QED  BY <2>2, <3>1, <3>2 DEF LinkedInv
  <2>. QED  BY <2>2, <2>3, <2>4 DEF LinkedInv
<1>2. CASE orb_unsubscribe(s)
  <2>1. /\ s \notin RateLimited
        /\ \A t \in Subs : t # s => sd'[t] = sd[t] /\ spc'[t] = spc[t]
        /\ spc'[s] = "closed" /\ mem' = mem /\ callouts' = callouts
    BY <1>2 DEF LimitedStayOpen, WakeInv, TypeOK, orb_unsubscribe
  <2>. QED  BY <2>1, uORBAssumption DEF LinkedInv
<1>. QED  BY <1>1, <1>2

\* What a subscriber asks and sets of its own handle.
LEMMA HandleOpsKeepLinked ==
  ASSUME WakeInv, LinkedInv, NEW s \in Subs,
         \/ orb_copy(s) \/ orb_check(s) \/ PollState(s)
         \/ \E i \in {0, 1} : orb_set_interval(s, i)
  PROVE  LinkedInv'
<1>1. /\ TypeOK /\ spc[s] # "closed" /\ sd[s] \in Blocks /\ sd' = sd
      /\ \A t \in Subs : t # s => sd[t] # sd[s]
      /\ \A t \in Subs : spc'[t] # "closed" => spc[t] # "closed"
  BY uORBAssumption
  DEF WakeInv, TypeOK, HandleInv, orb_copy, orb_check, PollState, orb_set_interval
<1>2. CASE orb_check(s) \/ PollState(s)
  <2>1. /\ mem' = Asked(mem, {sd[s]})
        /\ callouts' = callouts \cup Queued(mem, {sd[s]})
    BY <1>2 DEF orb_check, PollState
  <2>2. mem \in [Blocks -> SubscriberData] /\ callouts \in SUBSET Blocks
    BY <1>1 DEF TypeOK
  <2>3. {sd[s]} \in SUBSET Blocks
    BY <1>1
  <2>4. \A b \in {sd[s]} : \E t \in Subs : spc[t] # "closed" /\ sd[t] = b
    BY <1>1
  <2>5. /\ \A b \in callouts : mem[b].deadline /\ \E t \in RateLimited : sd[t] = b
        /\ \A t \in Subs \ RateLimited : spc[t] # "closed" => mem[sd[t]].update_interval = 0
    BY DEF LinkedInv
  <2>. QED  BY <1>1, <2>1, <2>2, <2>3, <2>4, <2>5, AskKeepsLinked
<1>3. CASE orb_copy(s)
  <2>1. /\ callouts' = callouts
        /\ \A b \in Blocks : /\ mem'[b].deadline = mem[b].deadline
                             /\ mem'[b].update_interval = mem[b].update_interval
    BY <1>1, <1>3 DEF TypeOK, SubscriberData, orb_copy
  <2>. QED  BY <1>1, <2>1 DEF LinkedInv, TypeOK
<1>4. CASE \E i \in {0, 1} : orb_set_interval(s, i)
  <2>1. /\ callouts' = callouts /\ s \in RateLimited
        /\ \A b \in Blocks : mem'[b].deadline = mem[b].deadline
        /\ \A b \in Blocks : b # sd[s] => mem'[b] = mem[b]
    BY <1>1, <1>4 DEF TypeOK, SubscriberData, orb_set_interval
  <2>. QED  BY <1>1, <2>1 DEF LinkedInv, TypeOK
<1>. QED  BY <1>2, <1>3, <1>4

\* Every step keeps the callout list and the deadlines in agreement.
LEMMA StepLinked ==
  ASSUME LimitedStayOpen
  PROVE  WakeInv /\ LinkedInv /\ [Next]_vars => LinkedInv'
<1>. SUFFICES ASSUME WakeInv, LinkedInv, [Next]_vars
              PROVE  LinkedInv'
  OBVIOUS
<1>1. ASSUME NEW w \in Writers, Writing(w) \/ orb_publish(w)
      PROVE  LinkedInv'
  <2>1. CASE WriteNotify(w)
    BY <2>1, NotificationsKeepLinked
  <2>2. CASE ~WriteNotify(w)
    <3>1. UNCHANGED <<mem, callouts, sd, spc>>
      BY <1>1, <2>2
      DEF Writing, OpenFirst, node_advertise, OpenAgain, CloseAdvertiser, orb_publish,
          WriteBegin, WriteCopy, WriteLoad, WriteStore, subVars
    <3>. QED  BY <3>1, QuietKeepsLinked
  <2>. QED  BY <2>1, <2>2
<1>2. ASSUME NEW b \in Blocks, update_deferred(b)
      PROVE  LinkedInv'
  BY <1>2, NotificationsKeepLinked
<1>3. ASSUME NEW s \in Subs,
             PollStore(s) \/ PollTimeout(s) \/ PollPost(s) \/ PollWake(s) \/ PollTeardown(s)
      PROVE  LinkedInv'
  <2>1. /\ UNCHANGED <<mem, callouts, sd>>
        /\ \A t \in Subs : spc'[t] # "closed" => spc[t] # "closed"
    BY <1>3 DEF WakeInv, TypeOK, PollStore, PollTimeout, PollPost, PollWake, PollTeardown,
                subVars
  <2>. QED  BY <2>1, QuietKeepsLinked
<1>4. CASE UNCHANGED vars
  BY <1>4, QuietKeepsLinked DEF vars
<1>. QED  BY <1>1, <1>2, <1>3, <1>4, OpenCloseKeepLinked, HandleOpsKeepLinked
          DEF Next, Polling

(***************************************************************************)
(* If no subscriber that limits its rate unsubscribes, hrt_called says     *)
(* what up_hrt.c promises: a call that is idle by its deadline is not in   *)
(* the callout list, so appears_updated never links one that is linked.    *)
(***************************************************************************)
THEOREM CalledCallsAreUnlinked ==
  ASSUME LimitedStayOpen
  PROVE  Spec => []CalledMeansRemoved
<1>1. Init => LinkedInv
  BY DEF Init, LinkedInv
<1>2. WakeInv /\ LinkedInv /\ [Next]_vars => LinkedInv'
  BY StepLinked
<1>3. LinkedInv => CalledMeansRemoved
  BY DEF LinkedInv, CalledMeansRemoved, hrt_called
<1>. QED  BY <1>1, <1>2, <1>3, WakeInvariance, PTL DEF Spec
=============================================================================
