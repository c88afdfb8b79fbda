------------------------------ MODULE Mission ------------------------------
(***************************************************************************)
(* The mission (waypoint) protocol of src/apps/mavlink/waypoints.c.        *)
(*                                                                         *)
(* Two threads share the structure wpm without a lock: the receive thread  *)
(* "rx" calls mavlink_wpm_message_handler for every message, and the main  *)
(* loop calls mavlink_waypoint_eventloop ten times a second.  Both have the *)
(* same priority and there is no time slicing, so one gives way to the     *)
(* other only where it may block: when it sends a message or a text to the *)
(* ground station, or prints.  An action is what a thread does from one    *)
(* such point to the next; points after which nothing shared is touched    *)
(* before the next action are left out.                                    *)
(*                                                                         *)
(* The ground stations are external and arbitrary: any message addressed   *)
(* to this system may come at any time, repeated, late or never, with any  *)
(* number in it.  Of an item the model keeps its place and whether its     *)
(* frame is one that the navigation knows; whether the vehicle is near it, *)
(* has stayed long enough, and the item's flags are arbitrary.             *)
(*                                                                         *)
(* A write outside of the arrays of wpm has no defined outcome, nor has    *)
(* anything that the program does afterwards: the model stops there, and   *)
(* what is said of the program holds until then.                           *)
(***************************************************************************)
EXTENDS Integers

CONSTANTS
  GCS,                        \* ground stations
  MAVLINK_WPM_MAX_WP_COUNT,   \* the places of a list, 15 in the code
  MaxCount                    \* the largest count or seq of a message, 65535 in the code

ASSUME MissionAssumption ==
  /\ MAVLINK_WPM_MAX_WP_COUNT \in Nat \ {0}
  /\ MaxCount \in Nat /\ MAVLINK_WPM_MAX_WP_COUNT <= MaxCount
  /\ 0 \notin GCS

Threads == {"rx", "main"}
Slots   == 0..(MAVLINK_WPM_MAX_WP_COUNT - 1)
Sizes   == 0..MAVLINK_WPM_MAX_WP_COUNT
Counts  == 0..MaxCount
None    == -1                 \* 65535 as a uint16_t: not below any size
Nobody  == 0                  \* current_partner_sysid

\* An item's frame: "nav" for the global and local ones, "other" for any further one,
\* such as MAV_FRAME_MISSION.
Frames == {"nav", "other"}
Empty  == "none"

VARIABLES
  current_state, current_wp_id, current_count, current_partner,
  size, current_active_wp_id, pos_reached,
  expired,                    \* now - timestamp_lastaction > timeout
  inside,                     \* timestamp_firstinside_orbit # 0
  pc,                         \* where each thread is
  arg, from,                  \* rx: the message's seq or count, and its sender
  rcv_waypoints, waypoints,   \* the frame of each item; Empty if the slot holds none of the
                              \* present transfer, of the one the list was last switched to
  announced, listed,          \* history: the counts of these two transfers
  cut,                        \* history: a timeout came while the last item was handled
  setpoint                    \* history: the waypoint last published, None after a switch

protocolVars == <<current_state, current_wp_id, current_count, current_partner>>
listVars == <<size, rcv_waypoints, waypoints, announced, listed, cut>>
navVars  == <<current_active_wp_id, pos_reached, inside, setpoint>>
rxVars   == <<arg, from>>
vars == <<current_state, current_wp_id, current_count, current_partner, size,
          current_active_wp_id, pos_reached, expired, inside, pc, arg, from,
          rcv_waypoints, waypoints, announced, listed, cut, setpoint>>

States == {"IDLE", "SENDLIST", "SENDLIST_SENDWPS", "GETLIST", "GETLIST_GETWPS"}

\* mavlink_wpm_init.
Init ==
  /\ current_state = "IDLE" /\ current_wp_id = 0 /\ current_count = 0
  /\ current_partner = Nobody
  /\ size = 0 /\ current_active_wp_id = None /\ pos_reached = FALSE
  /\ expired = TRUE /\ inside = FALSE
  /\ pc = [t \in Threads |-> IF t = "rx" THEN "wait" ELSE "loop"]
  /\ arg = 0 /\ from = Nobody
  /\ rcv_waypoints = [i \in Slots |-> Empty] /\ waypoints = [i \in Slots |-> Empty]
  /\ announced = 0 /\ listed = 0 /\ cut = FALSE /\ setpoint = None

Go(t, l) == pc' = [pc EXCEPT ![t] = l]
Done(t)  == Go(t, IF t = "rx" THEN "wait" ELSE "loop")

\* A thread has written outside of the arrays; until then the program is running.
Outside == {"item_outside", "flag_outside"}
Running == \A t \in Threads : pc[t] \notin Outside

\* More than five seconds have passed since the last action.
Expire ==
  /\ Running /\ ~expired /\ expired' = TRUE
  /\ UNCHANGED <<protocolVars, listVars, navVars, pc, rxVars>>

-----------------------------------------------------------------------------
(* check_waypoints_reached, which ends both threads' work.                 *)

InList(id) == id \in 0..(size - 1)

\* The vehicle is within the orbit of the active waypoint; "Setpoint reached" is printed.
\* In a frame that the navigation does not know there is no distance.
Near(t) ==
  /\ pc[t] = "check"
  /\ InList(current_active_wp_id) /\ waypoints[current_active_wp_id] = "nav"
  /\ pos_reached' = TRUE
  /\ Go(t, "near")
  /\ UNCHANGED <<protocolVars, listVars, current_active_wp_id, inside, setpoint, expired, rxVars>>

\* A waypoint reached for the first time is announced, another one is left when the
\* vehicle has stayed long enough.
Check(t) ==
  /\ pc[t] \in {"check", "near"}
  /\ \/ /\ pos_reached /\ InList(current_active_wp_id) /\ ~inside
        /\ Go(t, "announced")
     \/ /\ pos_reached /\ InList(current_active_wp_id) /\ inside
        /\ Go(t, "leave")                            \* long enough
     \/ /\ ~(pos_reached /\ InList(current_active_wp_id) /\ ~inside)
        /\ Done(t)
  /\ UNCHANGED <<protocolVars, listVars, navVars, expired, rxVars>>

Announced(t) ==
  /\ pc[t] = "announced"
  /\ inside' = TRUE
  /\ \/ Go(t, "leave") \/ Done(t)                    \* long enough, or not yet
  /\ UNCHANGED <<protocolVars, listVars, current_active_wp_id, pos_reached, setpoint, expired, rxVars>>

\* Mutant: the id runs one past the end of the list.
Following_OffByOne(id) == IF id + 1 <= size THEN id + 1 ELSE id

\* The waypoint after id; the last one is followed by number 1.
Following(id) ==
  IF id = size - 1 /\ size > 1 THEN 1
  ELSE IF id + 1 < size THEN id + 1 ELSE id

\* On to the next waypoint, if the item has autocontinue.
Leave(t) ==
  /\ pc[t] = "leave"
  /\ \/ /\ current_active_wp_id' = Following(current_active_wp_id)
        /\ inside' = FALSE
        /\ Go(t, "publish")
     \/ /\ Done(t) /\ UNCHANGED <<current_active_wp_id, inside>>
  /\ UNCHANGED <<protocolVars, listVars, pos_reached, setpoint, expired, rxVars>>

\* mavlink_missionlib_current_waypoint_changed: a setpoint topic for each known frame.
Publishes(id) == InList(id) /\ waypoints[id] = "nav"

\* Mutant: only the first setpoint of a list is published.
send_setpoint_Once ==
  setpoint' = IF Publishes(current_active_wp_id) /\ setpoint = None
              THEN current_active_wp_id ELSE setpoint

\* mavlink_wpm_send_setpoint(wpm->current_active_wp_id).
send_setpoint ==
  setpoint' = IF Publishes(current_active_wp_id) THEN current_active_wp_id ELSE setpoint

Publish(t) ==
  /\ pc[t] = "publish"
  /\ send_setpoint
  /\ Go(t, "arrive")
  /\ UNCHANGED <<protocolVars, listVars, current_active_wp_id, pos_reached, inside, expired, rxVars>>

\* The new waypoint gets the current flag, if it is still there.
Arrive(t) ==
  /\ pc[t] = "arrive" /\ current_active_wp_id \in Slots
  /\ pos_reached' = FALSE
  /\ Done(t)
  /\ UNCHANGED <<protocolVars, listVars, current_active_wp_id, inside, setpoint, expired, rxVars>>

\* Otherwise the flag is written at waypoints[65535].
ArriveOutside(t) ==
  /\ pc[t] = "arrive" /\ current_active_wp_id \notin Slots
  /\ Go(t, "flag_outside")
  /\ UNCHANGED <<protocolVars, listVars, navVars, expired, rxVars>>

CheckStep(t) ==
  \/ Near(t) \/ Check(t) \/ Announced(t) \/ Leave(t) \/ Publish(t)
  \/ Arrive(t) \/ ArriveOutside(t)

-----------------------------------------------------------------------------
(* mavlink_waypoint_eventloop.                                             *)

EventLoop ==
  /\ pc["main"] = "loop"
  /\ Go("main", IF expired /\ current_state # "IDLE" THEN "timeout" ELSE "check")
  /\ UNCHANGED <<protocolVars, listVars, navVars, expired, rxVars>>

\* Mutant: an expired operation is announced but its state is kept.
Timeout_Kept ==
  /\ pc["main"] = "timeout"
  /\ current_count' = 0 /\ current_partner' = Nobody /\ current_wp_id' = None
  /\ current_active_wp_id' = IF size = 0 THEN None ELSE current_active_wp_id
  /\ cut' = (cut \/ pc["rx"] = "switch")
  /\ Go("main", "check")
  /\ UNCHANGED <<current_state, size, rcv_waypoints, waypoints, announced, listed, pos_reached,
                 inside, setpoint, expired, rxVars>>

\* After "Operation timeout switching -> IDLE" has been sent.
Timeout ==
  /\ pc["main"] = "timeout"
  /\ current_state' = "IDLE" /\ current_count' = 0 /\ current_partner' = Nobody
  /\ current_wp_id' = None
  /\ current_active_wp_id' = IF size = 0 THEN None ELSE current_active_wp_id
  /\ cut' = (cut \/ pc["rx"] = "switch")
  /\ Go("main", "check")
  /\ UNCHANGED <<size, rcv_waypoints, waypoints, announced, listed, pos_reached, inside,
                 setpoint, expired, rxVars>>

-----------------------------------------------------------------------------
(* mavlink_wpm_message_handler: one action per message, and one per point  *)
(* at which its handling may be interrupted.                               *)

Receive == pc["rx"] = "wait"

MISSION_ACK(g) ==
  /\ Receive
  /\ expired' = (expired /\ g # current_partner)
  /\ Go("rx", IF /\ g = current_partner
                 /\ current_state \in {"SENDLIST", "SENDLIST_SENDWPS"}
                 /\ current_wp_id = size - 1
              THEN "ack" ELSE "check")
  /\ UNCHANGED <<protocolVars, listVars, navVars, rxVars>>

\* After "Got last WP ACK state -> IDLE".
AckIdle ==
  /\ pc["rx"] = "ack"
  /\ current_state' = "IDLE" /\ current_wp_id' = 0
  /\ Go("rx", "check")
  /\ UNCHANGED <<current_count, current_partner, listVars, navVars, expired, rxVars>>

MISSION_SET_CURRENT(seq) ==
  /\ Receive
  /\ expired' = FALSE
  /\ IF current_state = "IDLE" /\ seq < size
     THEN current_active_wp_id' = seq /\ Go("rx", "set")
     ELSE Go("rx", "check") /\ UNCHANGED current_active_wp_id
  /\ UNCHANGED <<protocolVars, listVars, pos_reached, inside, setpoint, rxVars>>

\* After "NEW WP SET", and after the new current waypoint has been broadcast.
SetReset ==
  /\ pc["rx"] = "set"
  /\ pos_reached' = FALSE
  /\ Go("rx", "set_publish")
  /\ UNCHANGED <<protocolVars, listVars, current_active_wp_id, inside, setpoint, expired, rxVars>>

SetPublish ==
  /\ pc["rx"] = "set_publish"
  /\ send_setpoint
  /\ Go("rx", "set_settle")
  /\ UNCHANGED <<protocolVars, listVars, current_active_wp_id, pos_reached, inside, expired, rxVars>>

SetSettle ==
  /\ pc["rx"] = "set_settle"
  /\ inside' = FALSE
  /\ Go("rx", "check")
  /\ UNCHANGED <<protocolVars, listVars, current_active_wp_id, pos_reached, setpoint, expired, rxVars>>

MISSION_REQUEST_LIST(g) ==
  /\ Receive
  /\ expired' = FALSE
  /\ IF current_state \in {"IDLE", "SENDLIST"}
     THEN /\ current_count' = size
          /\ IF size > 0
             THEN current_state' = "SENDLIST" /\ current_wp_id' = 0 /\ current_partner' = g
             ELSE UNCHANGED <<current_state, current_wp_id, current_partner>>
     ELSE UNCHANGED protocolVars
  /\ Go("rx", "check")
  /\ UNCHANGED <<listVars, navVars, rxVars>>

MISSION_REQUEST(g, seq) ==
  /\ Receive
  /\ expired' = (expired /\ g # current_partner)
  /\ IF /\ g = current_partner
        /\ \/ current_state = "SENDLIST" /\ seq = 0
           \/ /\ current_state = "SENDLIST_SENDWPS"
              /\ seq \in {current_wp_id, current_wp_id + 1} /\ seq < size
     THEN arg' = seq /\ Go("rx", "request")
     ELSE Go("rx", "check") /\ UNCHANGED arg
  /\ UNCHANGED <<protocolVars, listVars, navVars, from>>

\* After "GOT WP REQ": the waypoint is sent.
RequestSend ==
  /\ pc["rx"] = "request"
  /\ current_state' = "SENDLIST_SENDWPS" /\ current_wp_id' = arg
  /\ Go("rx", "check") /\ arg' = 0
  /\ UNCHANGED <<current_count, current_partner, listVars, navVars, expired, from>>

MISSION_COUNT(g, n) ==
  /\ Receive
  /\ expired' = FALSE
  /\ IF \/ current_state = "IDLE"
        \/ current_state = "GETLIST" /\ current_wp_id = 0
     THEN arg' = n /\ from' = g /\ Go("rx", IF n > 0 THEN "count" ELSE "count_zero")
     ELSE Go("rx", "check") /\ UNCHANGED rxVars
  /\ UNCHANGED <<protocolVars, listVars, navVars>>

\* After "COUNT 0": the mission is stopped, but its list is left alone.
CountZero ==
  /\ pc["rx"] = "count_zero"
  /\ current_active_wp_id' = None /\ pos_reached' = FALSE
  /\ Go("rx", "check") /\ from' = Nobody
  /\ UNCHANGED <<protocolVars, listVars, inside, setpoint, expired, arg>>

\* Mutant: a count that comes again does not replace the first one.
CountBegin_First ==
  /\ pc["rx"] = "count"
  /\ current_state' = "GETLIST" /\ current_wp_id' = 0
  /\ current_partner' = from
  /\ current_count' = IF current_state = "GETLIST" THEN current_count ELSE arg
  /\ rcv_waypoints' = [i \in Slots |-> Empty] /\ announced' = arg
  /\ Go("rx", "check") /\ arg' = 0 /\ from' = Nobody
  /\ UNCHANGED <<size, waypoints, listed, cut, navVars, expired>>

\* After "WP CMD OK": the transfer begins, and its first item is requested.
CountBegin ==
  /\ pc["rx"] = "count"
  /\ current_state' = "GETLIST" /\ current_wp_id' = 0
  /\ current_partner' = from /\ current_count' = arg
  /\ rcv_waypoints' = [i \in Slots |-> Empty] /\ announced' = arg
  /\ Go("rx", "check") /\ arg' = 0 /\ from' = Nobody
  /\ UNCHANGED <<size, waypoints, listed, cut, navVars, expired>>

MISSION_ITEM(seq) ==
  /\ Receive
  /\ arg' = seq /\ cut' = FALSE
  /\ Go("rx", "item")
  /\ UNCHANGED <<protocolVars, size, rcv_waypoints, waypoints, announced, listed, navVars,
                 expired, from>>

\* Mutant: an item is taken whatever its place.
Expected_Any(seq) ==
  current_state \in {"GETLIST", "GETLIST_GETWPS"} /\ seq < current_count

\* The item that a transfer is waiting for.
Expected(seq) ==
  \/ current_state = "GETLIST" /\ seq = 0
  \/ current_state = "GETLIST_GETWPS" /\ seq = current_wp_id /\ seq < current_count

\* After "GOT WP": the item is kept; the last one is acknowledged.  An item that is not
\* expected is answered with a request or, in IDLE, with an acknowledgement.
ItemKeep ==
  /\ pc["rx"] = "item" /\ (Expected(arg) => arg \in Slots)
  /\ expired' = FALSE
  /\ IF Expected(arg)
     THEN /\ current_state' = "GETLIST_GETWPS" /\ current_wp_id' = arg + 1
          /\ \E frame \in Frames : rcv_waypoints' = [rcv_waypoints EXCEPT ![arg] = frame]
          /\ Go("rx", IF arg + 1 = current_count THEN "switch" ELSE "check")
     ELSE Go("rx", "check") /\ UNCHANGED <<current_state, current_wp_id, rcv_waypoints>>
  /\ arg' = 0
  /\ UNCHANGED <<current_count, current_partner, size, waypoints, announced, listed, cut,
                 navVars, from>>

\* The count of a transfer is compared with nothing: an item beyond the buffer is
\* copied behind it.
ItemOutside ==
  /\ pc["rx"] = "item" /\ Expected(arg) /\ arg \notin Slots
  /\ Go("rx", "item_outside")
  /\ UNCHANGED <<protocolVars, listVars, navVars, expired, rxVars>>

\* After the acknowledgement: the list is switched, with whatever count is there now.
ListSwitch ==
  /\ pc["rx"] = "switch"
  /\ waypoints' = [i \in Slots |-> IF i < current_count THEN rcv_waypoints[i] ELSE Empty]
  /\ size' = current_count /\ listed' = announced
  /\ \E id \in {None} \cup 0..(current_count - 1) :      \* the item with the current flag
       /\ current_active_wp_id' = id
       /\ IF id # None
          THEN Go("rx", "list_publish") /\ UNCHANGED <<inside, current_state>>
          ELSE Go("rx", "check") /\ inside' = FALSE /\ current_state' = "IDLE"
  /\ pos_reached' = FALSE /\ setpoint' = None
  /\ UNCHANGED <<current_wp_id, current_count, current_partner, rcv_waypoints, announced, cut,
                 expired, rxVars>>

ListPublish ==
  /\ pc["rx"] = "list_publish"
  /\ send_setpoint
  /\ Go("rx", "list_settle")
  /\ UNCHANGED <<protocolVars, listVars, current_active_wp_id, pos_reached, inside, expired, rxVars>>

ListSettle ==
  /\ pc["rx"] = "list_settle"
  /\ inside' = FALSE /\ current_state' = "IDLE"
  /\ Go("rx", "check")
  /\ UNCHANGED <<current_wp_id, current_count, current_partner, listVars, current_active_wp_id,
                 pos_reached, setpoint, expired, rxVars>>

\* Mutant: the active id survives its list.
MISSION_CLEAR_ALL_KeepsActive ==
  /\ Receive
  /\ IF current_state = "IDLE"
     THEN size' = 0 /\ pos_reached' = FALSE /\ expired' = FALSE
     ELSE UNCHANGED <<size, pos_reached, expired>>
  /\ Go("rx", "check")
  /\ UNCHANGED <<protocolVars, current_active_wp_id, rcv_waypoints, waypoints, announced, listed,
                 cut, inside, setpoint, rxVars>>

MISSION_CLEAR_ALL ==
  /\ Receive
  /\ IF current_state = "IDLE"
     THEN /\ size' = 0 /\ current_active_wp_id' = None /\ pos_reached' = FALSE
          /\ expired' = FALSE
     ELSE UNCHANGED <<size, current_active_wp_id, pos_reached, expired>>
  /\ Go("rx", "check")
  /\ UNCHANGED <<protocolVars, rcv_waypoints, waypoints, announced, listed, cut, inside,
                 setpoint, rxVars>>

\* Any other message.
OtherMessage ==
  /\ Receive
  /\ Go("rx", "check")
  /\ UNCHANGED <<protocolVars, listVars, navVars, expired, rxVars>>

-----------------------------------------------------------------------------
Message ==
  /\ Running
  /\ \/ \E g \in GCS : MISSION_ACK(g) \/ MISSION_REQUEST_LIST(g)
     \/ \E g \in GCS, n \in Counts : MISSION_REQUEST(g, n) \/ MISSION_COUNT(g, n)
     \/ \E n \in Counts : MISSION_SET_CURRENT(n) \/ MISSION_ITEM(n)
     \/ MISSION_CLEAR_ALL \/ OtherMessage

RxStep ==
  /\ Running
  /\ \/ AckIdle \/ SetReset \/ SetPublish \/ SetSettle \/ RequestSend \/ CountBegin \/ CountZero
     \/ ItemKeep \/ ItemOutside \/ ListSwitch \/ ListPublish \/ ListSettle \/ CheckStep("rx")

MainStep == Running /\ (EventLoop \/ Timeout \/ CheckStep("main"))

\* After a write outside of the arrays.
Stopped == ~Running /\ UNCHANGED vars

Next == Message \/ RxStep \/ MainStep \/ Expire \/ Stopped

Spec == Init /\ [][Next]_vars

\* A blocked thread goes on once the line has taken its message, and time passes.
FairSpec == Spec /\ WF_vars(RxStep) /\ WF_vars(MainStep) /\ WF_vars(Expire)

-----------------------------------------------------------------------------
Labels == {"wait", "loop", "timeout", "check", "near", "announced", "leave", "publish", "arrive", "ack",
           "set", "set_publish", "set_settle", "request", "count", "count_zero", "item",
           "switch", "list_publish", "list_settle"} \cup Outside

(***************************************************************************)
(* Type correctness.  The size of the list, the active waypoint and the    *)
(* published one are within the arrays; the counters of a transfer are     *)
(* whatever a message carries, which may be more than the arrays hold.     *)
(***************************************************************************)
TypeOK ==
  /\ current_state \in States
  /\ current_wp_id \in {None} \cup Counts /\ current_count \in Counts
  /\ current_partner \in {Nobody} \cup GCS
  /\ size \in Sizes /\ current_active_wp_id \in {None} \cup Slots
  /\ pos_reached \in BOOLEAN /\ expired \in BOOLEAN /\ inside \in BOOLEAN
  /\ pc \in [Threads -> Labels]
  /\ arg \in Counts /\ from \in {Nobody} \cup GCS
  /\ rcv_waypoints \in [Slots -> Frames \cup {Empty}]
  /\ waypoints \in [Slots -> Frames \cup {Empty}]
  /\ announced \in Counts /\ listed \in Counts
  /\ cut \in BOOLEAN /\ setpoint \in {None} \cup Slots

(***************************************************************************)
(* The active list is empty or it is one whole transfer: as many items as  *)
(* were announced, each of them received since then, although items come   *)
(* out of order, transfers are begun again, and the timeout of one falls   *)
(* into the handling of the other (waypoints.c: "switch the waypoints      *)
(* list FIXME CHECK!!!").                                                  *)
(***************************************************************************)
ListIsWhole ==
  size = 0 \/ (size = listed /\ \A i \in 0..(size - 1) : waypoints[i] # Empty)

(***************************************************************************)
(* A transfer whose last item has been acknowledged is the active list,    *)
(* unless the announcement of a timeout was under way just then: the       *)
(* acknowledgement is sent before the switch, and the timeout resets the   *)
(* count that the switch uses.                                             *)
(***************************************************************************)
AckedIsListed ==
  [][pc["rx"] = "switch" /\ pc'["rx"] # "switch" => size' = announced \/ cut]_vars

(***************************************************************************)
(* The waypoint that is flown to is in the list, whichever of the threads  *)
(* advances, clears or replaces it while the other one is in the middle of *)
(* check_waypoints_reached.                                                *)
(***************************************************************************)
ActiveInList == current_active_wp_id = None \/ InList(current_active_wp_id)

\* A thread is about to publish the active waypoint.
Publishing ==
  pc["rx"] \in {"set", "set_publish", "list_publish", "publish"} \/ pc["main"] = "publish"

(***************************************************************************)
(* The controllers follow the active waypoint: once no thread is about to  *)
(* publish, the last published setpoint is that of the active waypoint in  *)
(* the present list, unless the waypoint's frame is one for which there is *)
(* no setpoint topic.                                                      *)
(***************************************************************************)
SetpointIsActive ==
  \/ current_active_wp_id = None
  \/ setpoint = current_active_wp_id
  \/ waypoints[current_active_wp_id] = "other"
  \/ Publishing

(***************************************************************************)
(* When the ground station falls silent, an open transfer is given up and  *)
(* the next one can begin.                                                 *)
(***************************************************************************)
TransferEnds ==
  []Running /\ <>[](pc["rx"] = "wait") => <>[](current_state = "IDLE")

-----------------------------------------------------------------------------
(***************************************************************************)
(* "Waypoint index exceeds list capacity" (waypoints.c:228) is an error:   *)
(* no item beyond MAVLINK_WPM_MAX_WP_COUNT is requested, and none may be   *)
(* kept in the receive buffer.  The code does not keep to this.            *)
(***************************************************************************)
ItemsFit == pc["rx"] # "item_outside"

-----------------------------------------------------------------------------
(***************************************************************************)
(* The parts of the inductive invariant of MissionProofs.                  *)
(***************************************************************************)

\* While a list is received, its count is the announced one, and every item
\* before the one that is waited for has come.
TransferInv ==
  /\ current_state \in {"GETLIST", "GETLIST_GETWPS"} =>
       current_count = announced /\ current_count > 0
  /\ current_state = "GETLIST_GETWPS" =>
       /\ current_wp_id \in 0..current_count
       /\ \A i \in 0..(current_wp_id - 1) : i \in Slots /\ rcv_waypoints[i] # Empty
  /\ pc["rx"] = "count" => arg > 0

\* When the lists are about to be switched all items are there, unless a timeout has
\* come in between: then there is no item to switch to.
SwitchInv ==
  pc["rx"] = "switch" =>
    \/ current_state = "GETLIST_GETWPS" /\ current_wp_id = current_count
    \/ current_count = 0 /\ cut

IInv == TypeOK /\ ActiveInList /\ SetpointIsActive /\ TransferInv /\ SwitchInv /\ ListIsWhole
=============================================================================
