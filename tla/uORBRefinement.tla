--------------------------- MODULE uORBRefinement ---------------------------
(***************************************************************************)
(* Proof that the device node of one writer implements the abstract topic, *)
(* for any number of subscribers.                                          *)
(***************************************************************************)
EXTENDS uORBProofs

Flagged  == {s \in Opened : Pending(mem, sd[s])}
Sleepers == {s \in _pollset : spc[s] = "wait"}

\* A topic that does not exist yet is an initial abstract topic.
LEMMA InitTopic == Init => T!Init
BY DEF Init, T!Init, NotPublishing, Opened

\* The abstract topic does not change unless what it is made of does.
LEMMA TopicUnchanged ==
  ASSUME UpdateInv, UNCHANGED <<_data, _generation, known, sd>>,
         NotPublishing' <=> NotPublishing,
         \A s \in Subs : spc'[s] = "closed" <=> spc[s] = "closed",
         \A s \in Subs : (s \in _pollset' /\ spc'[s] = "wait")
                           <=> (s \in _pollset /\ spc[s] = "wait"),
         _pollset' \subseteq Subs,
         \A b \in Blocks : mem'[b].generation = mem[b].generation
  PROVE  UNCHANGED T!topic
<1>1. Opened' = Opened
  BY DEF Opened
<1>2. Flagged' = Flagged
  BY <1>1 DEF Flagged, Opened, Pending, UpdateInv, WakeInv, TypeOK
<1>3. Sleepers' = Sleepers
  BY DEF Sleepers, UpdateInv, WakeInv, TypeOK
<1>4. NotPublishing' = NotPublishing
  BY DEF NotPublishing
<1>. QED  BY <1>1, <1>2, <1>3, <1>4 DEF T!topic, Flagged, Sleepers

\* With one writer, a writer changes the topic when it copies and when it stores.
LEMMA WriterImplements ==
  ASSUME UpdateInv, OneWriter, NEW w \in Writers, Writing(w) \/ orb_publish(w)
  PROVE  T!Publish \/ T!Announce \/ UNCHANGED T!topic
<1>1. CASE WriteCopy(w)
  <2>1. NotPublishing /\ ~NotPublishing'
    BY <1>1 DEF UpdateInv, WakeInv, TypeOK, WriteCopy, NotPublishing, OneWriter
  <2>2. _data' = _data + 1 /\ UNCHANGED <<_generation, spc, sd, mem, known, _pollset>>
    BY <1>1 DEF WriteCopy, subVars, pollVars
  <2>3. Opened' = Opened /\ Flagged' = Flagged /\ Sleepers' = Sleepers
    BY <2>2 DEF Opened, Flagged, Sleepers, Pending
  <2>. QED  BY <2>1, <2>2, <2>3 DEF T!Publish, Flagged, Sleepers
<1>2. CASE WriteStore(w)
  <2>1. ~NotPublishing /\ NotPublishing'
    BY <1>2 DEF UpdateInv, WakeInv, TypeOK, WriteStore, NotPublishing, OneWriter
  <2>2. UNCHANGED <<_data, spc, sd, mem, known, _pollset>>
    BY <1>2 DEF WriteStore, subVars, pollVars
  <2>3. _generation' = _generation + 1
    <3>1. reg[w] = _generation /\ _data = _generation + 1
      BY <1>2 DEF UpdateInv, PublishInv, WriteStore
    <3>2. _data \in 0..MaxWrites /\ _generation \in Nat
      BY DEF UpdateInv, WakeInv, TypeOK
    <3>3. _generation + 1 < GenMod /\ GenMod \in Nat
      BY <3>1, <3>2, uORBAssumption
    <3>4. (_generation + 1) % GenMod = _generation + 1
      BY <3>2, <3>3
    <3>. QED  BY <1>2, <3>1, <3>4 DEF WriteStore
  <2>4. \A s \in Subs : spc[s] # "closed" => mem[sd[s]].generation # _generation + 1
    <3>. SUFFICES ASSUME NEW s \in Subs, spc[s] # "closed"
                  PROVE  mem[sd[s]].generation # _generation + 1
      OBVIOUS
    <3>1. mem[sd[s]].generation <= _generation
      BY DEF UpdateInv, FreshInv
    <3>2. mem[sd[s]].generation \in Nat /\ _generation \in Nat
      BY DEF UpdateInv, WakeInv, TypeOK, SubscriberData
    <3>. QED  BY <3>1, <3>2
  <2>5. Opened' = Opened /\ Sleepers' = Sleepers
    BY <2>2 DEF Opened, Sleepers
  <2>6. Flagged' = Opened
    BY <2>2, <2>3, <2>4 DEF Flagged, Opened, Pending
  <2>. QED  BY <2>1, <2>2, <2>5, <2>6 DEF T!Announce, Flagged, Sleepers
<1>3. CASE WriteNotify(w)
  <2>1. UNCHANGED <<_data, _generation, known, sd, spc, _pollset>>
    BY <1>3 DEF WriteNotify
  <2>2. NotPublishing' <=> NotPublishing
    BY <1>3 DEF UpdateInv, WakeInv, TypeOK, WriteNotify, NotPublishing
  <2>3. \A b \in Blocks : mem'[b].generation = mem[b].generation
    BY <1>3 DEF UpdateInv, WakeInv, TypeOK, WriteNotify, poll_notify, Asked, SubscriberData
  <2>. QED  BY <2>1, <2>2, <2>3, TopicUnchanged DEF UpdateInv, WakeInv, TypeOK
<1>4. CASE \/ OpenFirst(w) \/ node_advertise(w) \/ OpenAgain(w) \/ CloseAdvertiser(w)
           \/ orb_publish(w) \/ WriteBegin(w) \/ WriteLoad(w)
  <2>1. UNCHANGED <<_data, _generation, known, sd, spc, _pollset, mem>>
    BY <1>4 DEF OpenFirst, node_advertise, OpenAgain, CloseAdvertiser, orb_publish,
                WriteBegin, WriteLoad, subVars, pollVars
  <2>2. NotPublishing' <=> NotPublishing
    BY <1>4 DEF UpdateInv, WakeInv, TypeOK, NotPublishing, OpenFirst, node_advertise,
                OpenAgain, Open, CloseAdvertiser, orb_publish, WriteBegin, WriteLoad
  <2>. QED  BY <2>1, <2>2, TopicUnchanged DEF UpdateInv, WakeInv, TypeOK
<1>. QED  BY <1>1, <1>2, <1>3, <1>4 DEF Writing

\* The interval timer asks on behalf of the waiters and tells them.
LEMMA TimerImplements ==
  ASSUME UpdateInv, NEW b \in Blocks, update_deferred(b)
  PROVE  UNCHANGED T!topic
<1>1. UNCHANGED <<_data, _generation, wpc, known, sd, spc, _pollset>>
  BY DEF update_deferred, writerVars
<1>2. \A c \in Blocks : mem'[c].generation = mem[c].generation
  BY DEF UpdateInv, WakeInv, TypeOK, update_deferred, poll_notify, Asked, SubscriberData
<1>3. NotPublishing' <=> NotPublishing
  BY <1>1 DEF NotPublishing
<1>. QED  BY <1>1, <1>2, <1>3, TopicUnchanged DEF UpdateInv, WakeInv, TypeOK

\* The operations of an open handle, and of one that opens or closes.
LEMMA SubscriberImplements ==
  ASSUME UpdateInv, NEW s \in Subs,
         \/ orb_subscribe(s) \/ orb_unsubscribe(s) \/ orb_copy(s) \/ orb_check(s)
         \/ \E i \in {0, 1} : orb_set_interval(s, i)
  PROVE  T!Subscribe(s) \/ T!Unsubscribe(s) \/ T!Copy(s) \/ UNCHANGED T!topic
<1>. USE DEF UpdateInv, WakeInv, TypeOK
<1>1. UNCHANGED <<_data, _generation, wpc, _pollset>> /\ NotPublishing' = NotPublishing
  BY DEF orb_subscribe, orb_unsubscribe, orb_copy, orb_check, orb_set_interval, writerVars,
         pollVars, NotPublishing
<1>2. CASE orb_subscribe(s)
  <2>1. PICK b \in Blocks \ {sd[t] : t \in Subs} :
          sd' = [sd EXCEPT ![s] = b] /\ mem' = [mem EXCEPT ![b] = FreshData(_generation)]
    BY <1>2 DEF orb_subscribe
  <2>2. /\ spc[s] = "closed" /\ spc' = [spc EXCEPT ![s] = "idle"]
        /\ known' = [known EXCEPT ![s] = _data]
    BY <1>2 DEF orb_subscribe
  <2>3. s \notin Opened /\ Opened' = Opened \cup {s}
    BY <2>2 DEF Opened
  <2>4. Flagged' = Flagged
    <3>1. ~Pending(mem, sd[s])'
      BY <1>1, <2>1 DEF Pending, FreshData
    <3>2. \A t \in Opened : sd'[t] = sd[t] /\ mem'[sd[t]] = mem[sd[t]]
      BY <2>1, <2>3 DEF Opened
    <3>. QED  BY <1>1, <2>3, <3>1, <3>2 DEF Flagged, Opened, Pending
  <2>5. Sleepers' = Sleepers
    BY <1>1, <2>2 DEF Sleepers
  <2>. QED  BY <1>1, <2>2, <2>3, <2>4, <2>5 DEF T!Subscribe, Flagged, Sleepers
<1>3. CASE orb_unsubscribe(s)
  <2>1. /\ spc[s] = "idle" /\ spc' = [spc EXCEPT ![s] = "closed"]
        /\ sd' = [sd EXCEPT ![s] = None] /\ UNCHANGED <<mem, known>>
    BY <1>3 DEF orb_unsubscribe
  <2>2. s \in Opened \ Sleepers /\ Opened' = Opened \ {s}
    BY <2>1 DEF Opened, Sleepers
  <2>3. Flagged' = Flagged \ {s}
    BY <1>1, <2>1, <2>2 DEF Flagged, Opened, Pending
  <2>4. Sleepers' = Sleepers
    BY <1>1, <2>1 DEF Sleepers
  <2>. QED  BY <1>1, <2>1, <2>2, <2>3, <2>4 DEF T!Unsubscribe, Flagged, Sleepers
<1>4. CASE orb_copy(s)
  <2>1. /\ spc[s] = "idle" /\ UNCHANGED <<spc, sd>>
        /\ known' = [known EXCEPT ![s] = _data]
    BY <1>4 DEF orb_copy
  <2>2. s \in Opened \ Sleepers /\ Opened' = Opened /\ Sleepers' = Sleepers
    BY <1>1, <2>1 DEF Opened, Sleepers
  <2>3. mem'[sd[s]].generation = _generation
    BY <1>4 DEF orb_copy, SubscriberData
  <2>4. \A t \in Opened : t # s => mem'[sd[t]] = mem[sd[t]]
    BY <1>4, <2>1 DEF orb_copy, HandleInv, Opened
  <2>5. Flagged' = Flagged \ {s}
    BY <1>1, <2>1, <2>2, <2>3, <2>4 DEF Flagged, Pending
  <2>. QED  BY <1>1, <2>1, <2>2, <2>5 DEF T!Copy, Flagged, Sleepers
<1>5. CASE orb_check(s) \/ \E i \in {0, 1} : orb_set_interval(s, i)
  <2>1. UNCHANGED <<spc, sd, known>>
    BY <1>5 DEF orb_check, orb_set_interval
  <2>2. \A b \in Blocks : mem'[b].generation = mem[b].generation
    <3>1. CASE orb_check(s)
      BY <3>1 DEF orb_check, Asked, SubscriberData
    <3>2. CASE \E i \in {0, 1} : orb_set_interval(s, i)
      BY <3>2 DEF orb_set_interval, SubscriberData
    <3>. QED  BY <1>5, <3>1, <3>2
  <2>. QED  BY <1>1, <2>1, <2>2, TopicUnchanged
<1>. QED  BY <1>2, <1>3, <1>4, <1>5

\* poll(): the topic sees its caller fall asleep, if it has a slot, and wake.
LEMMA PollImplements ==
  ASSUME UpdateInv, NEW s \in Subs, PollStore(s) \/ PollTimeout(s) \/ Polling(s)
  PROVE  T!Wait(s) \/ T!Wake(s) \/ UNCHANGED T!topic
<1>. USE DEF UpdateInv, WakeInv, TypeOK
<1>1. /\ UNCHANGED <<_data, _generation, wpc, known, sd>> /\ NotPublishing' = NotPublishing
      /\ spc[s] # "closed"
  BY DEF PollStore, PollTimeout, Polling, PollState, PollPost, PollWake, PollTeardown,
         writerVars, subVars, NotPublishing
<1>2. \A b \in Blocks : mem'[b].generation = mem[b].generation
  <2>1. CASE PollState(s)
    BY <2>1 DEF PollState, Asked, SubscriberData
  <2>2. CASE ~PollState(s)
    BY <2>2 DEF PollStore, PollTimeout, Polling, PollPost, PollWake, PollTeardown, subVars
  <2>. QED  BY <2>1, <2>2
<1>3. /\ \A t \in Subs : t # s => spc'[t] = spc[t] /\ (t \in _pollset' <=> t \in _pollset)
      /\ spc'[s] # "closed" /\ _pollset' \subseteq Subs
  BY DEF PollStore, PollTimeout, Polling, PollState, PollPost, PollWake, PollTeardown, subVars,
         pollVars
<1>4. Opened' = Opened
  BY <1>1, <1>3 DEF Opened
<1>5. Flagged' = Flagged
  BY <1>1, <1>2, <1>4 DEF Flagged, Opened, Pending
<1>6. CASE (s \in Sleepers') <=> (s \in Sleepers)
  <2>1. Sleepers' = Sleepers
    BY <1>3, <1>6 DEF Sleepers
  <2>. QED  BY <1>1, <1>4, <1>5, <2>1 DEF T!topic, Flagged, Sleepers
<1>7. CASE s \in Sleepers' /\ s \notin Sleepers
  <2>1. Sleepers' = Sleepers \cup {s} /\ s \in Opened
    BY <1>1, <1>3, <1>7 DEF Sleepers, Opened
  <2>. QED  BY <1>1, <1>4, <1>5, <1>7, <2>1 DEF T!Wait, Flagged, Sleepers
<1>8. CASE s \notin Sleepers' /\ s \in Sleepers
  <2>1. Sleepers' = Sleepers \ {s}
    BY <1>3, <1>8 DEF Sleepers
  <2>. QED  BY <1>1, <1>4, <1>5, <1>8, <2>1 DEF T!Wake, Flagged, Sleepers
<1>. QED  BY <1>6, <1>7, <1>8

\* Every step of the node is a step of the abstract topic, or none.
LEMMA StepTopic ==
  ASSUME OneWriter
  PROVE  UpdateInv /\ [Next]_vars => [T!Next]_T!topic
<1>. SUFFICES ASSUME UpdateInv, [Next]_vars
              PROVE  T!Next \/ UNCHANGED T!topic
  OBVIOUS
<1>1. ASSUME NEW w \in Writers, Writing(w) \/ orb_publish(w)
      PROVE  T!Next \/ UNCHANGED T!topic
  BY <1>1, WriterImplements DEF T!Next
<1>2. ASSUME NEW b \in Blocks, update_deferred(b)
      PROVE  T!Next \/ UNCHANGED T!topic
  BY <1>2, TimerImplements
<1>3. ASSUME NEW s \in Subs,
             \/ orb_subscribe(s) \/ orb_unsubscribe(s) \/ orb_copy(s) \/ orb_check(s)
             \/ \E i \in {0, 1} : orb_set_interval(s, i)
             \/ PollStore(s) \/ PollTimeout(s) \/ Polling(s)
      PROVE  T!Next \/ UNCHANGED T!topic
  BY <1>3, SubscriberImplements, PollImplements DEF T!Next
<1>4. CASE UNCHANGED vars
  BY <1>4 DEF vars, T!topic, NotPublishing, Opened, Pending
<1>. QED  BY <1>1, <1>2, <1>3, <1>4 DEF Next

(***************************************************************************)
(* The device node with one writer implements the abstract topic, whatever *)
(* the number of subscribers, their rates and the size of the waiter       *)
(* table.                                                                  *)
(***************************************************************************)
THEOREM NodeImplementsTopic ==
  ASSUME OneWriter
  PROVE  Spec => ImplementsTopic
<1>1. UpdateInv /\ [Next]_vars => [T!Next]_T!topic
  BY StepTopic
<1>2. UpdateInv /\ [Next]_vars => UpdateInv'
  BY StepUpdate
<1>. QED  BY <1>1, <1>2, InitTopic, InitUpdate, PTL DEF Spec, T!Spec, ImplementsTopic
=============================================================================
