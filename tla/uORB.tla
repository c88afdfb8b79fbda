-------------------------------- MODULE uORB --------------------------------
(***************************************************************************)
(* One uORB topic: the device node of src/apps/uORB/uORB.cpp, the poll     *)
(* waiter table it inherits from src/apps/drivers/device/cdev.cpp, and the *)
(* threads that advertise, publish, subscribe, check, poll and copy.       *)
(*                                                                         *)
(* What runs between irqsave and irqrestore is one step; everything else   *)
(* may be interleaved with other threads and with the timer interrupt.     *)
(* The data of a topic is the number of the publication it came from, so   *)
(* that an update can be told from another one with the same bytes.        *)
(* A subscriber's SubscriberData lives in a memory block, because close()  *)
(* frees the block while the timer may still have it in its callout list.  *)
(***************************************************************************)
EXTENDS Integers, FiniteSets

CONSTANTS
  Writers,            \* threads that advertise and publish
  Subs,               \* subscriber threads, one handle each
  Blocks,             \* memory blocks SubscriberData is allocated from
  RateLimited,        \* subscribers that may call orb_set_interval
  Closers,            \* subscribers that may call orb_unsubscribe
  _max_pollwaiters,   \* size of the poll waiter table, 8 in the code
  GenMod,             \* modulus of the generation counter, 2^32 in the code
  MaxWrites           \* bound on the publications explored

None == "none"

ASSUME uORBAssumption ==
  /\ RateLimited \subseteq Subs /\ Closers \subseteq Subs
  /\ _max_pollwaiters \in Nat
  /\ MaxWrites \in Nat /\ GenMod \in Nat /\ MaxWrites < GenMod
  /\ None \notin Blocks \cup Subs \cup Writers

VARIABLES
  node,         \* the topic's node is registered in /obj
  _publisher,   \* the advertiser that has the node open, or None
  allocated,    \* _data is not null
  _data,        \* publication the buffer holds; 0 while it is uninitialised
  _generation,  \* object generation count
  wpc, reg,     \* per writer: where it is, and the generation it has loaded
  spc,          \* per subscriber: where it is
  sd,           \* per subscriber: the block its SubscriberData is in, or None
  mem,          \* per block: the fields of the SubscriberData in it
  callouts,     \* blocks whose update_call is linked into the callout list
  _pollset,     \* subscribers that have a slot in the waiter table
  lock,         \* the subscriber inside CDev::poll's critical section, or None
  state,        \* per subscriber: what poll_state returned
  revents,      \* per subscriber: POLLIN is set in its pollfd
  sem,          \* per subscriber: count of its poll semaphore
  known         \* per subscriber: newest publication it copied, or that
                \* the topic already held when it subscribed

writerVars == <<node, _publisher, allocated, _data, _generation, wpc, reg>>
pollVars   == <<_pollset, lock, state, revents, sem>>
subVars    == <<spc, sd, mem, callouts, known>>
vars == <<node, _publisher, allocated, _data, _generation, wpc, reg, spc, sd,
          mem, callouts, _pollset, lock, state, revents, sem, known>>

SubscriberData ==
  [generation : 0..(GenMod - 1), update_interval : {0, 1},
   deadline : BOOLEAN, update_reported : BOOLEAN]

\* The fields after the memset and the assignment in open().
FreshData(gen) ==
  [generation |-> gen, update_interval |-> 0,
   deadline |-> FALSE, update_reported |-> FALSE]

Init ==
  /\ node = FALSE /\ _publisher = None
  /\ allocated = FALSE /\ _data = 0 /\ _generation = 0
  /\ wpc = [w \in Writers |-> "start"] /\ reg = [w \in Writers |-> 0]
  /\ spc = [s \in Subs |-> "closed"]
  /\ sd = [s \in Subs |-> None]
  /\ mem = [b \in Blocks |-> FreshData(0)]
  /\ callouts = {}
  /\ _pollset = {} /\ lock = None
  /\ state = [s \in Subs |-> FALSE]
  /\ revents = [s \in Subs |-> FALSE]
  /\ sem = [s \in Subs |-> 0]
  /\ known = [s \in Subs |-> 0]

-----------------------------------------------------------------------------
(***************************************************************************)
(* appears_updated, for the SubscriberData in block b of memory m: what it *)
(* returns, and whether it (re)starts the interval timer.                  *)
(***************************************************************************)
Pending(m, b) == m[b].generation # _generation

hrt_called(m, b) == ~m[b].deadline

appears_updated(m, b) ==
  /\ Pending(m, b)
  /\ \/ m[b].update_interval = 0
     \/ m[b].update_reported
     \/ hrt_called(m, b)

StartsTimer(m, b) ==
  /\ Pending(m, b)
  /\ m[b].update_interval # 0
  /\ ~m[b].update_reported
  /\ hrt_called(m, b)

\* Memory, and callout list, after appears_updated has been asked for blocks B.
Asked(m, B) ==
  [b \in Blocks |->
     IF b \in B /\ StartsTimer(m, b)
     THEN [m[b] EXCEPT !.deadline = TRUE, !.update_reported = TRUE]
     ELSE m[b]]

Queued(m, B) == {b \in B : StartsTimer(m, b)}

(***************************************************************************)
(* CDev::poll_notify: every waiter in the table for which the topic        *)
(* appears updated gets POLLIN, and is woken if it has not been already.   *)
(***************************************************************************)
\* Mutant: whether the topic appears updated to the waiter is not asked.
poll_notify_Unfiltered(m, q) ==
  /\ mem' = m /\ callouts' = q
  /\ revents' = [s \in Subs |-> s \in _pollset \/ revents[s]]
  /\ sem' = [s \in Subs |-> IF s \in _pollset /\ sem[s] = 0 THEN 1 ELSE sem[s]]

\* Mutant: the semaphore is posted for a waiter that is already awake, too.
poll_notify_Repeats(m, q) ==
  LET waiting == {sd[s] : s \in _pollset}
      woken   == {s \in _pollset : appears_updated(m, sd[s])}
  IN  /\ mem' = Asked(m, waiting)
      /\ callouts' = q \cup Queued(m, waiting)
      /\ revents' = [s \in Subs |-> s \in woken \/ revents[s]]
      /\ sem' = [s \in Subs |-> IF s \in woken THEN sem[s] + 1 ELSE sem[s]]

poll_notify(m, q) ==
  LET waiting == {sd[s] : s \in _pollset}
      woken   == {s \in _pollset : appears_updated(m, sd[s])}
  IN  /\ mem' = Asked(m, waiting)
      /\ callouts' = q \cup Queued(m, waiting)
      /\ revents' = [s \in Subs |-> s \in woken \/ revents[s]]
      /\ sem' = [s \in Subs |-> IF s \in woken /\ sem[s] = 0 THEN 1 ELSE sem[s]]

-----------------------------------------------------------------------------
(***************************************************************************)
(* orb_advertise.  node_open tries to open the node for writing; if that   *)
(* fails for any reason it makes sure the node exists and tries once more. *)
(***************************************************************************)
Open(w, ok, failed) ==
  IF node /\ _publisher = None
  THEN _publisher' = w /\ wpc' = [wpc EXCEPT ![w] = ok]
  ELSE wpc' = [wpc EXCEPT ![w] = failed] /\ UNCHANGED _publisher

OpenFirst(w) ==
  /\ wpc[w] = "start"
  /\ Open(w, "opened", "create")
  /\ UNCHANGED <<node, allocated, _data, _generation, reg, subVars, pollVars>>

\* Mutant: a node that somebody else has created meanwhile (EEXIST) is an error.
node_advertise_Exists(w) ==
  /\ wpc[w] = "create"
  /\ node' = TRUE
  /\ wpc' = [wpc EXCEPT ![w] = IF node THEN "failed" ELSE "retry"]
  /\ UNCHANGED <<_publisher, allocated, _data, _generation, reg, subVars, pollVars>>

\* node_advertise: the node exists afterwards, whoever created it.
node_advertise(w) ==
  /\ wpc[w] = "create"
  /\ node' = TRUE
  /\ wpc' = [wpc EXCEPT ![w] = "retry"]
  /\ UNCHANGED <<_publisher, allocated, _data, _generation, reg, subVars, pollVars>>

OpenAgain(w) ==
  /\ wpc[w] = "retry"
  /\ Open(w, "opened", "failed")
  /\ UNCHANGED <<node, allocated, _data, _generation, reg, subVars, pollVars>>

\* The handle is fetched and the descriptor closed, which frees the publisher
\* slot; the initial publication follows.
CloseAdvertiser(w) ==
  /\ wpc[w] = "opened"
  /\ _publisher' = None
  /\ wpc' = [wpc EXCEPT ![w] = "publish"]
  /\ UNCHANGED <<node, allocated, _data, _generation, reg, subVars, pollVars>>

(***************************************************************************)
(* orb_publish calls ORBDevNode::write: allocate the buffer if need be,    *)
(* copy the data, increment the generation, notify.  The increment of the  *)
(* volatile counter is a load and a store.                                 *)
(***************************************************************************)
orb_publish(w) ==
  /\ wpc[w] = "idle" /\ _data < MaxWrites
  /\ wpc' = [wpc EXCEPT ![w] = "publish"]
  /\ UNCHANGED <<node, _publisher, allocated, _data, _generation, reg, subVars, pollVars>>

WriteBegin(w) ==
  /\ wpc[w] = "publish"
  /\ ~allocated => lock = None
  /\ allocated' = TRUE
  /\ wpc' = [wpc EXCEPT ![w] = "begun"]
  /\ UNCHANGED <<node, _publisher, _data, _generation, reg, subVars, pollVars>>

WriteCopy(w) ==
  /\ wpc[w] = "begun" /\ _data < MaxWrites
  /\ _data' = _data + 1
  /\ wpc' = [wpc EXCEPT ![w] = "copied"]
  /\ UNCHANGED <<node, _publisher, allocated, _generation, reg, subVars, pollVars>>

WriteLoad(w) ==
  /\ wpc[w] = "copied"
  /\ reg' = [reg EXCEPT ![w] = _generation]
  /\ wpc' = [wpc EXCEPT ![w] = "loaded"]
  /\ UNCHANGED <<node, _publisher, allocated, _data, _generation, subVars, pollVars>>

WriteStore(w) ==
  /\ wpc[w] = "loaded"
  /\ _generation' = (reg[w] + 1) % GenMod
  /\ wpc' = [wpc EXCEPT ![w] = "stored"]
  /\ UNCHANGED <<node, _publisher, allocated, _data, reg, subVars, pollVars>>

WriteNotify(w) ==
  /\ wpc[w] = "stored"
  /\ poll_notify(mem, callouts)
  /\ wpc' = [wpc EXCEPT ![w] = "idle"]
  /\ UNCHANGED <<node, _publisher, allocated, _data, _generation, reg,
                 spc, sd, known, _pollset, lock, state>>

(***************************************************************************)
(* The interval timer of the SubscriberData in block b expires: the timer  *)
(* interrupt unlinks the call, clears its deadline and runs                *)
(* update_deferred, whose argument is the node and not the subscriber.     *)
(***************************************************************************)
\* Mutant: the interval ends and nobody is notified of what came meanwhile.
update_deferred_Silent(b) ==
  /\ b \in callouts
  /\ mem' = [mem EXCEPT ![b].deadline = FALSE]
  /\ callouts' = callouts \ {b}
  /\ UNCHANGED <<writerVars, spc, sd, known, pollVars>>

\* Mutant: the call is marked as called and stays linked.
update_deferred_Linked(b) ==
  /\ b \in callouts
  /\ poll_notify([mem EXCEPT ![b].deadline = FALSE], callouts)
  /\ UNCHANGED <<writerVars, spc, sd, known, _pollset, lock, state>>

update_deferred(b) ==
  /\ b \in callouts
  /\ poll_notify([mem EXCEPT ![b].deadline = FALSE], callouts \ {b})
  /\ UNCHANGED <<writerVars, spc, sd, known, _pollset, lock, state>>

-----------------------------------------------------------------------------
(* The subscriber's operations.                                            *)

\* Mutant: the generation of a new handle is left as the memset made it.
orb_subscribe_FromZero(s) ==
  /\ spc[s] = "closed"
  /\ \E b \in Blocks \ {sd[t] : t \in Subs} :
       /\ sd' = [sd EXCEPT ![s] = b]
       /\ mem' = [mem EXCEPT ![b] = FreshData(0)]
  /\ node' = TRUE
  /\ spc' = [spc EXCEPT ![s] = "idle"]
  /\ known' = [known EXCEPT ![s] = _data]
  /\ revents' = [revents EXCEPT ![s] = FALSE]
  /\ UNCHANGED <<_publisher, allocated, _data, _generation, wpc, reg, callouts,
                 _pollset, lock, state, sem>>

\* orb_subscribe: the node is created if it does not exist yet.
orb_subscribe(s) ==
  /\ spc[s] = "closed"
  /\ \E b \in Blocks \ {sd[t] : t \in Subs} :
       /\ sd' = [sd EXCEPT ![s] = b]
       /\ mem' = [mem EXCEPT ![b] = FreshData(_generation)]
  /\ node' = TRUE
  /\ spc' = [spc EXCEPT ![s] = "idle"]
  /\ known' = [known EXCEPT ![s] = _data]
  /\ revents' = [revents EXCEPT ![s] = FALSE]
  /\ UNCHANGED <<_publisher, allocated, _data, _generation, wpc, reg, callouts,
                 _pollset, lock, state, sem>>

\* orb_unsubscribe: the block is freed as it is, update_call included.
orb_unsubscribe(s) ==
  /\ s \in Closers /\ spc[s] = "idle"
  /\ sd' = [sd EXCEPT ![s] = None]
  /\ spc' = [spc EXCEPT ![s] = "closed"]
  /\ UNCHANGED <<writerVars, mem, callouts, known, pollVars>>

\* orb_copy: nothing happens unless the topic has a buffer.
orb_copy(s) ==
  /\ spc[s] = "idle" /\ allocated
  /\ known' = [known EXCEPT ![s] = _data]
  /\ mem' = [mem EXCEPT ![sd[s]].generation = _generation,
                        ![sd[s]].update_reported = FALSE]
  /\ revents' = [revents EXCEPT ![s] = FALSE]
  /\ UNCHANGED <<writerVars, spc, sd, callouts, _pollset, lock, state, sem>>

\* Mutant: asking counts as collecting.
orb_check_Consumes(s) ==
  /\ spc[s] = "idle"
  /\ mem' = [mem EXCEPT ![sd[s]].generation = _generation]
  /\ UNCHANGED <<writerVars, spc, sd, callouts, known, pollVars>>

\* orb_check: its answer is appears_updated, which may start the timer.
orb_check(s) ==
  /\ spc[s] = "idle"
  /\ mem' = Asked(mem, {sd[s]})
  /\ callouts' = callouts \cup Queued(mem, {sd[s]})
  /\ UNCHANGED <<writerVars, spc, sd, known, pollVars>>

orb_set_interval(s, i) ==
  /\ s \in RateLimited /\ spc[s] = "idle"
  /\ mem' = [mem EXCEPT ![sd[s]].update_interval = i]
  /\ UNCHANGED <<writerVars, spc, sd, callouts, known, pollVars>>

(***************************************************************************)
(* poll(): set up the waiter, wait on its semaphore, tear it down.  When   *)
(* the table is full store_poll_waiter returns a positive ENOMEM, which    *)
(* poll_setup does not take for an error: the caller waits all the same.   *)
(***************************************************************************)
PollStore(s) ==
  /\ spc[s] = "idle" /\ lock = None
  /\ revents' = [revents EXCEPT ![s] = FALSE]
  /\ sem' = [sem EXCEPT ![s] = 0]
  /\ IF Cardinality(_pollset) < _max_pollwaiters
     THEN /\ _pollset' = _pollset \cup {s}
          /\ lock' = s
          /\ spc' = [spc EXCEPT ![s] = "setup"]
     ELSE /\ spc' = [spc EXCEPT ![s] = "wait"]
          /\ UNCHANGED <<_pollset, lock>>
  /\ UNCHANGED <<writerVars, sd, mem, callouts, known, state>>

\* poll_state: with the waiter already in the table.
PollState(s) ==
  /\ spc[s] = "setup"
  /\ state' = [state EXCEPT ![s] = appears_updated(mem, sd[s])]
  /\ mem' = Asked(mem, {sd[s]})
  /\ callouts' = callouts \cup Queued(mem, {sd[s]})
  /\ spc' = [spc EXCEPT ![s] = "state"]
  /\ UNCHANGED <<writerVars, sd, known, _pollset, lock, revents, sem>>

(***************************************************************************)
(* revents |= events & poll_state(filp), then the post and the unlock.     *)
(* C++ leaves open whether revents is read before or after the call, so    *)
(* what a notification wrote in between may be overwritten.                *)
(***************************************************************************)
\* Mutant: events that are there already are reported but not posted.
PollPost_Unposted(s) ==
  /\ spc[s] = "state"
  /\ revents' = [revents EXCEPT ![s] = @ \/ state[s]]
  /\ lock' = None
  /\ state' = [state EXCEPT ![s] = FALSE]
  /\ spc' = [spc EXCEPT ![s] = "wait"]
  /\ UNCHANGED <<writerVars, sd, mem, callouts, known, _pollset, sem>>

PollPost(s) ==
  /\ spc[s] = "state"
  /\ \E before \in {FALSE, revents[s]} :
       LET after == before \/ state[s]
       IN  /\ revents' = [revents EXCEPT ![s] = after]
           /\ sem' = [sem EXCEPT ![s] = IF after THEN sem[s] + 1 ELSE sem[s]]
  /\ lock' = None
  /\ state' = [state EXCEPT ![s] = FALSE]
  /\ spc' = [spc EXCEPT ![s] = "wait"]
  /\ UNCHANGED <<writerVars, sd, mem, callouts, known, _pollset>>

PollWake(s) ==
  /\ spc[s] = "wait" /\ sem[s] > 0
  /\ spc' = [spc EXCEPT ![s] = "awake"]
  /\ UNCHANGED <<writerVars, sd, mem, callouts, known, pollVars>>

\* The watchdog of a poll with a timeout posts the semaphore.
PollTimeout(s) ==
  /\ spc[s] = "wait" /\ sem[s] = 0
  /\ sem' = [sem EXCEPT ![s] = 1]
  /\ UNCHANGED <<writerVars, subVars, _pollset, lock, state, revents>>

\* poll_teardown; the semaphore goes out of scope with poll().
PollTeardown(s) ==
  /\ spc[s] = "awake" /\ lock = None
  /\ _pollset' = _pollset \ {s}
  /\ sem' = [sem EXCEPT ![s] = 0]
  /\ spc' = [spc EXCEPT ![s] = "idle"]
  /\ UNCHANGED <<writerVars, sd, mem, callouts, known, lock, state, revents>>

-----------------------------------------------------------------------------
Writing(w) ==
  \/ OpenFirst(w) \/ node_advertise(w) \/ OpenAgain(w) \/ CloseAdvertiser(w)
  \/ WriteBegin(w) \/ WriteCopy(w) \/ WriteLoad(w) \/ WriteStore(w) \/ WriteNotify(w)

Polling(s) == PollState(s) \/ PollPost(s) \/ PollWake(s) \/ PollTeardown(s)

Next ==
  \/ \E w \in Writers : Writing(w) \/ orb_publish(w)
  \/ \E b \in Blocks : update_deferred(b)
  \/ \E s \in Subs :
       \/ orb_subscribe(s) \/ orb_unsubscribe(s) \/ orb_copy(s) \/ orb_check(s)
       \/ \E i \in {0, 1} : orb_set_interval(s, i)
       \/ PollStore(s) \/ PollTimeout(s) \/ Polling(s)

Spec == Init /\ [][Next]_vars

(***************************************************************************)
(* Fairness: a thread that is inside a library call is eventually run, and *)
(* the timer interrupt eventually comes.  Nobody is obliged to publish, to *)
(* poll, or to give poll() a timeout.                                      *)
(***************************************************************************)
Fairness ==
  /\ \A w \in Writers : WF_vars(Writing(w))
  /\ \A b \in Blocks : WF_vars(update_deferred(b))
  /\ \A s \in Subs : WF_vars(Polling(s))

FairSpec == Spec /\ Fairness

-----------------------------------------------------------------------------
\* Type correctness; in particular, no poll semaphore is posted more than
\* twice, and an open handle has a block.
TypeOK ==
  /\ node \in BOOLEAN /\ allocated \in BOOLEAN
  /\ _publisher \in Writers \cup {None}
  /\ _data \in 0..MaxWrites /\ _generation \in 0..(GenMod - 1)
  /\ wpc \in [Writers -> {"start", "create", "retry", "opened", "failed",
                          "idle", "publish", "begun", "copied", "loaded", "stored"}]
  /\ reg \in [Writers -> 0..(GenMod - 1)]
  /\ spc \in [Subs -> {"closed", "idle", "setup", "state", "wait", "awake"}]
  /\ sd \in [Subs -> Blocks \cup {None}]
  /\ \A s \in Subs : spc[s] # "closed" => sd[s] \in Blocks
  /\ mem \in [Blocks -> SubscriberData]
  /\ callouts \subseteq Blocks
  /\ _pollset \subseteq Subs /\ lock \in Subs \cup {None}
  /\ state \in [Subs -> BOOLEAN] /\ revents \in [Subs -> BOOLEAN]
  /\ sem \in [Subs -> 0..2]
  /\ known \in [Subs -> 0..MaxWrites]

\* No publication is between its copy of the data and its new generation.
NotPublishing == \A w \in Writers : wpc[w] \notin {"copied", "loaded"}

(***************************************************************************)
(* No update is lost: unless a publication is under way, a subscriber that *)
(* has not collected the newest publication sees a generation other than   *)
(* its own (orb_check: "true if the topic has been updated since the last  *)
(* time it was copied using this handle").                                 *)
(***************************************************************************)
NoLostUpdate ==
  NotPublishing =>
    \A s \in Subs : spc[s] # "closed" /\ known[s] # _data => Pending(mem, sd[s])

(***************************************************************************)
(* No wakeup is lost: a registered waiter that sleeps although there is an *)
(* update for it is about to be notified, by the publisher or, if its rate *)
(* is limited, by the interval timer.                                      *)
(***************************************************************************)
NoLostWakeup ==
  \A s \in _pollset :
    spc[s] = "wait" /\ sem[s] = 0 /\ Pending(mem, sd[s]) =>
      \/ sd[s] \in callouts
      \/ \E w \in Writers : wpc[w] = "stored"

\* A waiter that is told of an update finds one when it collects it.
NoSpuriousUpdate ==
  \A s \in Subs : spc[s] # "closed" /\ revents[s] => Pending(mem, sd[s])

(***************************************************************************)
(* An advertiser is not turned away, whether it creates the node or a      *)
(* subscriber does so between its two attempts to open it.  This holds of  *)
(* one advertiser: a second one finds the node busy, both times, while the *)
(* first has it open.                                                      *)
(***************************************************************************)
AdvertiseSucceeds == \A w \in Writers : wpc[w] # "failed"

(***************************************************************************)
(* "If this returns true, the call has been invoked and removed from the   *)
(* callout list" (up_hrt.c on hrt_called): no subscriber's update_call is  *)
(* idle by its deadline and yet linked into the list.                      *)
(***************************************************************************)
CalledMeansRemoved ==
  \A s \in Subs : spc[s] # "closed" /\ hrt_called(mem, sd[s]) => sd[s] \notin callouts

(***************************************************************************)
(* A registered subscriber that sleeps in poll() while there is an update  *)
(* for it is woken eventually, without any help from a timeout.            *)
(***************************************************************************)
WaiterIsWoken ==
  \A s \in Subs :
    (spc[s] = "wait" /\ s \in _pollset /\ Pending(mem, sd[s])) ~> spc[s] # "wait"

-----------------------------------------------------------------------------
(***************************************************************************)
(* The topic as its users see it: what is in the buffer, who subscribes,   *)
(* and whose generation differs from the topic's.                          *)
(***************************************************************************)
Opened == {s \in Subs : spc[s] # "closed"}

T == INSTANCE Topic WITH
       latest    <- _data,
       announced <- NotPublishing,
       open      <- Opened,
       seen      <- known,
       updated   <- {s \in Opened : Pending(mem, sd[s])},
       waiting   <- {s \in _pollset : spc[s] = "wait"}

(***************************************************************************)
(* The node with one writer is such a topic: its generations, the interval *)
(* timer and the order in which write() and poll() touch them never flag a *)
(* subscriber at any other moment than the announcement of a publication,  *)
(* and never leave one out or unflag it before it has collected the data.  *)
(***************************************************************************)
ImplementsTopic == T!Spec

-----------------------------------------------------------------------------
(***************************************************************************)
(* The parts of the inductive invariants from which uORBProofs proves      *)
(* NoLostWakeup (for any number of writers), for a single writer           *)
(* NoLostUpdate, NoSpuriousUpdate and AdvertiseSucceeds, and, if no        *)
(* subscriber with a limited rate unsubscribes, CalledMeansRemoved.        *)
(***************************************************************************)

\* Open handles have blocks of their own; a waiter in the table is inside poll().
HandleInv ==
  /\ \A s \in Subs : spc[s] = "closed" <=> sd[s] = None
  /\ \A s, t \in Subs : s # t /\ sd[s] = sd[t] => sd[s] = None
  /\ \A s \in _pollset : spc[s] \notin {"closed", "idle"}
  /\ \A s \in Subs : spc[s] \in {"setup", "state"} => sem[s] <= 1
  /\ \A s \in Subs : state[s] => spc[s] = "state"

\* An interval that is running will end: its call is in the callout list.
TimerInv ==
  \A s \in Subs : spc[s] # "closed" /\ mem[sd[s]].deadline => sd[s] \in callouts

\* NoLostWakeup, from the moment poll_state has been asked.
SleepInv ==
  \A s \in _pollset :
    spc[s] \in {"state", "wait"} /\ sem[s] = 0 /\ ~state[s] /\ Pending(mem, sd[s]) =>
      \/ sd[s] \in callouts
      \/ \E w \in Writers : wpc[w] = "stored"

WakeInv == TypeOK /\ HandleInv /\ TimerInv /\ SleepInv

\* The generation is the number of the publication in the buffer, or one behind it.
PublishInv ==
  /\ NotPublishing => _data = _generation
  /\ \A w \in Writers :
       /\ wpc[w] \in {"copied", "loaded"} => _data = _generation + 1
       /\ wpc[w] = "loaded" => reg[w] = _generation

\* No subscriber's generation is ahead of what it has collected, or of the topic.
FreshInv ==
  \A s \in Subs : spc[s] # "closed" =>
    /\ mem[sd[s]].generation <= known[s] /\ known[s] <= _data
    /\ mem[sd[s]].generation <= _generation
    /\ revents[s] \/ state[s] => mem[sd[s]].generation < _generation

UpdateInv == WakeInv /\ PublishInv /\ FreshInv

\* An advertiser that tries again finds the node, and only one that has opened it is in
\* its way.
AdvertiseInv ==
  /\ \A w \in Writers : wpc[w] \in {"retry", "opened"} => node
  /\ _publisher # None => wpc[_publisher] = "opened"

\* Every call in the callout list is running, and its block is that of a handle
\* that is still open; a handle whose rate was never limited starts no timer.
LinkedInv ==
  /\ \A b \in callouts : mem[b].deadline /\ \E s \in RateLimited : sd[s] = b
  /\ \A s \in Subs \ RateLimited : spc[s] # "closed" => mem[sd[s]].update_interval = 0
=============================================================================
