------------------------------- MODULE Topic -------------------------------
(***************************************************************************)
(* What a uORB topic promises (src/apps/uORB/uORB.h), without its buffer,  *)
(* its generation count, its timers and its table of waiters: a register   *)
(* with one writer, and for every subscriber a flag that says whether      *)
(* there is something it has not collected.                                *)
(*                                                                         *)
(* A publication is visible in the data before it is announced in the      *)
(* flags.  A subscriber that collects it in between is told of it again;   *)
(* one that is not flagged, while nothing is to be announced, has          *)
(* collected everything.                                                   *)
(***************************************************************************)
EXTENDS Integers

CONSTANT Subs

VARIABLES
  latest,      \* the newest publication
  announced,   \* the subscribers have been told of it
  open,        \* the subscribers
  seen,        \* per subscriber: the newest publication it has collected
  updated,     \* the subscribers that are flagged
  waiting      \* the subscribers that sleep until they are flagged

topic == <<latest, announced, open, seen, updated, waiting>>

Init ==
  /\ latest = 0 /\ announced = TRUE
  /\ open = {} /\ updated = {} /\ waiting = {}
  /\ seen = [s \in Subs |-> 0]

Publish ==
  /\ announced /\ announced' = FALSE
  /\ latest' = latest + 1
  /\ UNCHANGED <<open, seen, updated, waiting>>

Announce ==
  /\ ~announced /\ announced' = TRUE
  /\ updated' = open
  /\ UNCHANGED <<latest, open, seen, waiting>>

\* Nothing is pending for a new subscriber.
Subscribe(s) ==
  /\ s \notin open /\ open' = open \cup {s}
  /\ seen' = [seen EXCEPT ![s] = latest]
  /\ UNCHANGED <<latest, announced, updated, waiting>>

Unsubscribe(s) ==
  /\ s \in open \ waiting /\ open' = open \ {s}
  /\ updated' = updated \ {s}
  /\ UNCHANGED <<latest, announced, seen, waiting>>

Copy(s) ==
  /\ s \in open \ waiting
  /\ seen' = [seen EXCEPT ![s] = latest]
  /\ updated' = updated \ {s}
  /\ UNCHANGED <<latest, announced, open, waiting>>

Wait(s) ==
  /\ s \in open \ waiting /\ waiting' = waiting \cup {s}
  /\ UNCHANGED <<latest, announced, open, seen, updated>>

\* By an update, or by a timeout.
Wake(s) ==
  /\ s \in waiting /\ waiting' = waiting \ {s}
  /\ UNCHANGED <<latest, announced, open, seen, updated>>

Next ==
  \/ Publish \/ Announce
  \/ \E s \in Subs : Subscribe(s) \/ Unsubscribe(s) \/ Copy(s) \/ Wait(s) \/ Wake(s)

Spec == Init /\ [][Next]_topic
============================================================================
