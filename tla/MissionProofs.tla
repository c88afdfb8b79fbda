--------------------------- MODULE MissionProofs ---------------------------
(***************************************************************************)
(* Proofs that the safety properties of the mission protocol hold for any  *)
(* set of ground stations, every length of the waypoint lists and every    *)
(* range of the numbers that messages carry.                               *)
(***************************************************************************)
EXTENDS Mission, TLAPS

-----------------------------------------------------------------------------
\* A thread that moves leaves the other where it is.
LEMMA Moves ==
  ASSUME NEW t \in Threads, NEW l \in Labels, pc \in [Threads -> Labels], Go(t, l)
  PROVE  /\ pc' \in [Threads -> Labels]
         /\ pc'[t] = l
         /\ \A s \in Threads \ {t} : pc'[s] = pc[s]
BY DEF Go

\* The same for each of the two threads.
LEMMA RxMoves ==
  ASSUME NEW l \in Labels, TypeOK, Go("rx", l)
  PROVE  pc' \in [Threads -> Labels] /\ pc'["rx"] = l /\ pc'["main"] = pc["main"]
BY Moves DEF Threads, TypeOK

\* What the labels of the navigation thread are after a move of it.
LEMMA MainMoves ==
  ASSUME NEW l \in Labels, TypeOK, Go("main", l)
  PROVE  pc' \in [Threads -> Labels] /\ pc'["main"] = l /\ pc'["rx"] = pc["rx"]
BY Moves DEF Threads, TypeOK

\* The bounds, as far as the proofs need them.
LEMMA Bounds ==
  /\ MAVLINK_WPM_MAX_WP_COUNT \in Nat /\ MAVLINK_WPM_MAX_WP_COUNT > 0
  /\ MaxCount \in Nat /\ MAVLINK_WPM_MAX_WP_COUNT <= MaxCount
BY MissionAssumption

\* A step that leaves the lists and the transfer alone, or clears the list.
LEMMA ListsKept ==
  ASSUME IInv,
         UNCHANGED <<current_state, current_wp_id, current_count, rcv_waypoints, waypoints,
                     announced, listed>>,
         size' \in {size, 0},
         \/ pc'["rx"] \notin {"switch", "count"}
         \/ pc'["rx"] = pc["rx"] /\ UNCHANGED <<cut, arg>>
  PROVE  TransferInv' /\ SwitchInv' /\ ListIsWhole'
<1>1. TransferInv'
  BY DEF IInv, TransferInv
<1>2. SwitchInv'
  BY DEF IInv, SwitchInv
<1>3. ListIsWhole'
  BY DEF IInv, ListIsWhole
<1> QED
  BY <1>1, <1>2, <1>3

\* A step that leaves the active waypoint alone, and every publication that is due.
LEMMA NavKept ==
  ASSUME IInv, UNCHANGED <<size, waypoints, current_active_wp_id, setpoint>>,
         Publishing => Publishing'
  PROVE  ActiveInList' /\ SetpointIsActive'
BY DEF IInv, ActiveInList, SetpointIsActive, InList

\* A publication settles what is due.
LEMMA NavPublished ==
  ASSUME IInv, UNCHANGED <<size, waypoints, current_active_wp_id>>, send_setpoint
  PROVE  ActiveInList' /\ SetpointIsActive' /\ setpoint' \in {None} \cup Slots
<1>1. setpoint' \in {None} \cup Slots
  BY DEF send_setpoint, IInv, TypeOK
<1>2. ActiveInList'
  BY DEF IInv, ActiveInList, InList
<1>3. SetpointIsActive'
  <2>1. CASE current_active_wp_id = None
    BY <2>1 DEF SetpointIsActive
  <2>2. CASE InList(current_active_wp_id)
    <3>1. current_active_wp_id \in 0..(size - 1) /\ size # 0
      BY <2>2, Bounds DEF InList, IInv, TypeOK, Sizes
    <3>2. current_active_wp_id \in Slots
      BY <3>1, Bounds DEF IInv, TypeOK, Sizes, Slots
    <3>3. waypoints[current_active_wp_id] \in {"nav", "other"}
      BY <3>1, <3>2 DEF IInv, ListIsWhole, TypeOK, Frames, Empty
    <3> QED
      BY <2>2, <3>3 DEF SetpointIsActive, send_setpoint, Publishes
  <2> QED
    BY <2>1, <2>2 DEF IInv, ActiveInList
<1> QED
  BY <1>1, <1>2, <1>3

\* A mission that is stopped has nothing to publish.
LEMMA NavStopped ==
  ASSUME current_active_wp_id' = None
  PROVE  ActiveInList' /\ SetpointIsActive' /\ current_active_wp_id' \in {None} \cup Slots
BY DEF ActiveInList, SetpointIsActive

\* The waypoint that follows one of the list, or none, is of the list, or none.
LEMMA FollowingInList ==
  ASSUME IInv, NEW id, id = Following(current_active_wp_id)
  PROVE  id = None \/ (id \in 0..(size - 1) /\ id \in Slots)
<1>1. size \in Nat /\ size <= MAVLINK_WPM_MAX_WP_COUNT /\ current_active_wp_id \in Int
  BY Bounds DEF IInv, TypeOK, Sizes, Slots, None
<1>2. current_active_wp_id = -1 \/ current_active_wp_id \in 0..(size - 1)
  BY DEF IInv, ActiveInList, InList, None
<1> QED
  BY <1>1, <1>2, Bounds DEF Following, None, Slots

-----------------------------------------------------------------------------
\* The invariant holds of the initial state: no list, no transfer, both threads waiting.
LEMMA InitIInv == Init => IInv
<1> SUFFICES ASSUME Init PROVE IInv
  OBVIOUS
<1>1. pc \in [Threads -> Labels] /\ pc["rx"] = "wait" /\ pc["main"] = "loop"
  BY DEF Init, Threads, Labels, Outside
<1>2. TypeOK
  <2>1. 0 \in Counts /\ 0 \in Sizes
    BY Bounds DEF Counts, Sizes
  <2>2. rcv_waypoints \in [Slots -> Frames \cup {Empty}] /\ waypoints \in [Slots -> Frames \cup {Empty}]
    BY DEF Init
  <2> QED
    BY <1>1, <2>1, <2>2 DEF Init, TypeOK, States
<1>3. ActiveInList /\ SetpointIsActive /\ TransferInv /\ SwitchInv /\ ListIsWhole
  BY <1>1 DEF Init, ActiveInList, SetpointIsActive, TransferInv, SwitchInv, ListIsWhole
<1> QED
  BY <1>2, <1>3 DEF IInv

\* The navigation of either thread.
LEMMA CheckKeeps ==
  ASSUME IInv, NEW t \in Threads, CheckStep(t)
  PROVE  IInv'
<1>1. TypeOK
  BY DEF IInv
<1>2. PICK l \in Labels : Go(t, l) /\ l \notin {"switch", "count"} /\ (Leave(t) \/ l # "publish")
  BY DEF CheckStep, Near, Check, Announced, Leave, Publish, Arrive, ArriveOutside, Done, Labels,
         Outside
<1>3. pc' \in [Threads -> Labels]
  BY <1>1, <1>2, Moves DEF TypeOK
<1>4. \/ t = "rx" /\ pc'["rx"] = l /\ pc'["main"] = pc["main"]
      \/ t = "main" /\ pc'["main"] = l /\ pc'["rx"] = pc["rx"]
  BY <1>1, <1>2, RxMoves, MainMoves DEF Threads
<1>5. UNCHANGED <<protocolVars, listVars, expired, rxVars>>
  BY DEF CheckStep, Near, Check, Announced, Leave, Publish, Arrive, ArriveOutside
<1>6. TransferInv' /\ SwitchInv' /\ ListIsWhole'
  BY <1>2, <1>4, <1>5, ListsKept DEF protocolVars, listVars, rxVars
<1>7. CASE Near(t) \/ Check(t) \/ Announced(t) \/ Arrive(t) \/ ArriveOutside(t)
  <2>1. UNCHANGED <<current_active_wp_id, setpoint>> /\ pos_reached' \in BOOLEAN
        /\ inside' \in BOOLEAN
    BY <1>1, <1>7 DEF Near, Check, Announced, Arrive, ArriveOutside, TypeOK, navVars
  <2>2. TypeOK'
    BY <1>1, <1>3, <1>5, <2>1 DEF TypeOK, protocolVars, listVars, rxVars
  <2>3. pc[t] \in {"check", "near", "announced", "arrive"}
    BY <1>7 DEF Near, Check, Announced, Arrive, ArriveOutside
  <2>4. Publishing => Publishing'
    BY <1>4, <2>3 DEF Publishing
  <2> QED
    BY <1>5, <1>6, <2>1, <2>2, <2>4, NavKept DEF IInv, listVars
<1>8. CASE Publish(t)
  <2>1. send_setpoint /\ UNCHANGED <<size, waypoints, current_active_wp_id, pos_reached, inside>>
    BY <1>8 DEF Publish, listVars
  <2>2. ActiveInList' /\ SetpointIsActive' /\ setpoint' \in {None} \cup Slots
    BY <2>1, NavPublished
  <2>3. TypeOK'
    BY <1>1, <1>3, <1>5, <2>1, <2>2 DEF TypeOK, protocolVars, listVars, rxVars
  <2> QED
    BY <1>6, <2>2, <2>3 DEF IInv
<1>9. CASE Leave(t)
  <2>1. pc[t] = "leave" /\ UNCHANGED <<size, waypoints, pos_reached, setpoint>>
    BY <1>9 DEF Leave, listVars
  <2>2. CASE current_active_wp_id' = Following(current_active_wp_id) /\ inside' = FALSE
             /\ Go(t, "publish")
    <3>1. current_active_wp_id' = None
          \/ (current_active_wp_id' \in 0..(size - 1) /\ current_active_wp_id' \in Slots)
      BY <2>2, FollowingInList
    <3>2. TypeOK'
      BY <1>1, <1>3, <1>5, <2>1, <2>2, <3>1 DEF TypeOK, protocolVars, listVars, rxVars
    <3>3. pc'["rx"] = "publish" \/ pc'["main"] = "publish"
      BY <1>1, <2>2, RxMoves, MainMoves DEF Threads, Labels, Outside
    <3>4. ActiveInList' /\ SetpointIsActive'
      BY <2>1, <3>1, <3>3 DEF ActiveInList, InList, SetpointIsActive, Publishing
    <3> QED
      BY <1>6, <3>2, <3>4 DEF IInv
  <2>3. CASE Done(t) /\ UNCHANGED <<current_active_wp_id, inside>>
    <3>1. TypeOK'
      BY <1>1, <1>3, <1>5, <2>1, <2>3 DEF TypeOK, protocolVars, listVars, rxVars
    <3>2. Publishing => Publishing'
      BY <1>4, <2>1 DEF Publishing
    <3> QED
      BY <1>6, <2>1, <2>3, <3>1, <3>2, NavKept DEF IInv
  <2> QED
    BY <1>9, <2>2, <2>3 DEF Leave
<1> QED
  BY <1>7, <1>8, <1>9 DEF CheckStep

\* Time, and the main loop up to the navigation.
LEMMA ExpireKeeps ==
  ASSUME IInv, Expire
  PROVE  IInv'
<1>1. TypeOK'
  BY DEF Expire, IInv, TypeOK, protocolVars, listVars, navVars, rxVars
<1>2. TransferInv' /\ SwitchInv' /\ ListIsWhole'
  BY ListsKept DEF Expire, protocolVars, listVars, rxVars
<1>3. ActiveInList' /\ SetpointIsActive'
  BY NavKept DEF Expire, listVars, navVars, Publishing
<1> QED
  BY <1>1, <1>2, <1>3 DEF IInv

\* A round of the main loop changes only its own position.
LEMMA EventLoopKeeps ==
  ASSUME IInv, EventLoop
  PROVE  IInv'
<1>1. TypeOK
  BY DEF IInv
<1>2. PICK l \in {"timeout", "check"} : Go("main", l)
  BY DEF EventLoop
<1>3. pc' \in [Threads -> Labels] /\ pc'["main"] = l /\ pc'["rx"] = pc["rx"]
  BY <1>1, <1>2, MainMoves DEF Labels, Outside
<1>4. TypeOK'
  BY <1>1, <1>3 DEF EventLoop, TypeOK, protocolVars, listVars, navVars, rxVars
<1>5. TransferInv' /\ SwitchInv' /\ ListIsWhole'
  BY <1>3, ListsKept DEF EventLoop, protocolVars, listVars, rxVars
<1>6. ActiveInList' /\ SetpointIsActive'
  BY <1>3, NavKept DEF EventLoop, listVars, navVars, Publishing
<1> QED
  BY <1>4, <1>5, <1>6 DEF IInv

\* A timeout ends the transfer and sets its count to zero.
LEMMA TimeoutKeeps ==
  ASSUME IInv, Timeout
  PROVE  IInv'
<1>1. TypeOK /\ pc["main"] = "timeout"
  BY DEF IInv, Timeout
<1>2. pc' \in [Threads -> Labels] /\ pc'["main"] = "check" /\ pc'["rx"] = pc["rx"]
  BY <1>1, MainMoves DEF Timeout, Labels, Outside
<1>3. TypeOK'
  BY <1>1, <1>2, Bounds DEF Timeout, TypeOK, rxVars, States, Counts
<1>4. TransferInv'
  BY <1>2 DEF IInv, Timeout, TransferInv, rxVars
<1>5. SwitchInv' /\ ListIsWhole'
  BY <1>2 DEF IInv, Timeout, SwitchInv, ListIsWhole
<1>6. ActiveInList' /\ SetpointIsActive'
  <2>1. CASE size = 0
    BY <2>1, NavStopped DEF Timeout
  <2>2. CASE size # 0
    BY <1>1, <1>2, <2>2, NavKept DEF Timeout, Publishing
  <2> QED
    BY <2>1, <2>2
<1> QED
  BY <1>3, <1>4, <1>5, <1>6 DEF IInv

-----------------------------------------------------------------------------
(* The messages and what follows them.                                     *)

\* A message that changes nothing but the thread's place and the timestamp.
LEMMA QuietKeeps ==
  ASSUME IInv,
         UNCHANGED <<protocolVars, size, rcv_waypoints, waypoints, announced, listed, navVars>>,
         expired' \in BOOLEAN, cut' \in BOOLEAN, arg' \in Counts, from' \in {Nobody} \cup GCS,
         NEW l \in Labels, Go("rx", l), l # "switch", l = "count" => arg' > 0,
         pc["rx"] \notin {"set", "set_publish", "list_publish", "publish"}
  PROVE  IInv'
<1>1. TypeOK
  BY DEF IInv
<1>2. pc' \in [Threads -> Labels] /\ pc'["rx"] = l /\ pc'["main"] = pc["main"]
  BY <1>1, RxMoves
<1>3. TypeOK'
  BY <1>1, <1>2 DEF TypeOK, protocolVars, navVars
<1>4. TransferInv' /\ SwitchInv' /\ ListIsWhole'
  BY <1>2 DEF IInv, TransferInv, SwitchInv, ListIsWhole, protocolVars
<1>5. ActiveInList' /\ SetpointIsActive'
  BY <1>2, NavKept DEF navVars, Publishing
<1> QED
  BY <1>3, <1>4, <1>5 DEF IInv

\* The dispatch of MISSION_ACK only moves the receiver on.
LEMMA AckKeeps ==
  ASSUME IInv, NEW g \in GCS, MISSION_ACK(g)
  PROVE  IInv'
<1>1. PICK l \in {"ack", "check"} : Go("rx", l)
  BY DEF MISSION_ACK
<1>2. expired' \in BOOLEAN
  BY DEF MISSION_ACK
<1> QED
  BY <1>1, <1>2, QuietKeeps DEF MISSION_ACK, Receive, IInv, TypeOK, Labels, Outside, listVars, rxVars

\* The last acknowledgement of a list that was sent ends that transfer.
LEMMA AckIdleKeeps ==
  ASSUME IInv, AckIdle
  PROVE  IInv'
<1>1. TypeOK /\ pc["rx"] = "ack"
  BY DEF IInv, AckIdle
<1>2. pc' \in [Threads -> Labels] /\ pc'["rx"] = "check" /\ pc'["main"] = pc["main"]
  BY <1>1, RxMoves DEF AckIdle, Labels, Outside
<1>3. TypeOK'
  BY <1>1, <1>2, Bounds DEF AckIdle, TypeOK, States, Counts, listVars, navVars, rxVars
<1>4. TransferInv' /\ SwitchInv' /\ ListIsWhole'
  BY <1>2 DEF IInv, AckIdle, TransferInv, SwitchInv, ListIsWhole, listVars
<1>5. ActiveInList' /\ SetpointIsActive'
  BY <1>1, <1>2, NavKept DEF AckIdle, listVars, navVars, Publishing
<1> QED
  BY <1>3, <1>4, <1>5 DEF IInv

\* MISSION_SET_CURRENT accepts only an item of the list in use.
LEMMA SetCurrentKeeps ==
  ASSUME IInv, NEW seq \in Counts, MISSION_SET_CURRENT(seq)
  PROVE  IInv'
<1>1. TypeOK /\ pc["rx"] = "wait"
  BY DEF IInv, MISSION_SET_CURRENT, Receive
<1>2. CASE current_active_wp_id' = seq /\ seq < size /\ Go("rx", "set")
  <2>1. pc' \in [Threads -> Labels] /\ pc'["rx"] = "set" /\ pc'["main"] = pc["main"]
    BY <1>1, <1>2, RxMoves DEF Labels, Outside
  <2>2. seq \in 0..(size - 1) /\ seq \in Slots
    BY <1>1, <1>2, Bounds DEF TypeOK, Counts, Sizes, Slots
  <2>3. TypeOK'
    BY <1>1, <1>2, <2>1, <2>2 DEF MISSION_SET_CURRENT, TypeOK, protocolVars, listVars, rxVars
  <2>4. TransferInv' /\ SwitchInv' /\ ListIsWhole'
    BY <2>1, ListsKept DEF MISSION_SET_CURRENT, protocolVars, listVars, rxVars
  <2>5. ActiveInList' /\ SetpointIsActive'
    BY <1>2, <2>1, <2>2 DEF MISSION_SET_CURRENT, listVars, ActiveInList, InList, SetpointIsActive,
                            Publishing
  <2> QED
    BY <2>3, <2>4, <2>5 DEF IInv
<1>3. CASE Go("rx", "check") /\ UNCHANGED current_active_wp_id
  BY <1>1, <1>3, QuietKeeps DEF MISSION_SET_CURRENT, TypeOK, Labels, Outside, listVars, navVars, rxVars
<1> QED
  BY <1>2, <1>3 DEF MISSION_SET_CURRENT

\* The steps that publish a waypoint which was set or listed, and the steps around them.
LEMMA SettingKeeps ==
  ASSUME IInv, SetReset \/ SetPublish \/ SetSettle \/ ListPublish
  PROVE  IInv'
<1>1. TypeOK
  BY DEF IInv
<1>2. PICK l \in {"set_publish", "set_settle", "check", "list_settle"} :
        Go("rx", l) /\ (SetReset => l = "set_publish")
  BY DEF SetReset, SetPublish, SetSettle, ListPublish
<1>3. pc' \in [Threads -> Labels] /\ pc'["rx"] = l /\ pc'["main"] = pc["main"]
  BY <1>1, <1>2, RxMoves DEF Labels, Outside
<1>4. /\ UNCHANGED <<protocolVars, listVars, current_active_wp_id, expired, rxVars>>
      /\ pos_reached' \in BOOLEAN /\ inside' \in BOOLEAN
  BY <1>1 DEF SetReset, SetPublish, SetSettle, ListPublish, TypeOK
<1>5. TransferInv' /\ SwitchInv' /\ ListIsWhole'
  BY <1>3, <1>4, ListsKept DEF protocolVars, listVars, rxVars
<1>6. ActiveInList' /\ SetpointIsActive' /\ setpoint' \in {None} \cup Slots
  <2>1. CASE SetPublish \/ ListPublish
    BY <1>4, <2>1, NavPublished DEF SetPublish, ListPublish, listVars
  <2>2. CASE SetReset
    BY <1>1, <1>2, <1>3, <1>4, <2>2, NavKept DEF SetReset, listVars, Publishing, TypeOK
  <2>3. CASE SetSettle
    BY <1>1, <1>3, <1>4, <2>3, NavKept DEF SetSettle, listVars, Publishing, TypeOK
  <2> QED
    BY <2>1, <2>2, <2>3
<1>7. TypeOK'
  BY <1>1, <1>3, <1>4, <1>6 DEF TypeOK, protocolVars, listVars, rxVars
<1> QED
  BY <1>5, <1>6, <1>7 DEF IInv

\* MISSION_REQUEST_LIST starts to send the list, it changes none.
LEMMA RequestListKeeps ==
  ASSUME IInv, NEW g \in GCS, MISSION_REQUEST_LIST(g)
  PROVE  IInv'
<1>1. TypeOK /\ pc["rx"] = "wait"
  BY DEF IInv, MISSION_REQUEST_LIST, Receive
<1>2. pc' \in [Threads -> Labels] /\ pc'["rx"] = "check" /\ pc'["main"] = pc["main"]
  BY <1>1, RxMoves DEF MISSION_REQUEST_LIST, Labels, Outside
<1>3. CASE current_state \in {"IDLE", "SENDLIST"}
  <2>1. /\ current_state' \in {"IDLE", "SENDLIST"} /\ current_count' = size
        /\ current_wp_id' \in {current_wp_id, 0} /\ current_partner' \in {current_partner, g}
    BY <1>3 DEF MISSION_REQUEST_LIST
  <2>2. TypeOK'
    <3>1. current_wp_id' \in {None} \cup Counts /\ current_count' \in Counts
      BY <1>1, <2>1, Bounds DEF TypeOK, Counts, Sizes
    <3> QED
      BY <1>1, <1>2, <2>1, <3>1 DEF MISSION_REQUEST_LIST, TypeOK, States, listVars, navVars, rxVars
  <2>3. TransferInv' /\ SwitchInv' /\ ListIsWhole'
    BY <1>2, <2>1 DEF MISSION_REQUEST_LIST, IInv, TransferInv, SwitchInv, ListIsWhole, listVars
  <2>4. ActiveInList' /\ SetpointIsActive'
    BY <1>1, <1>2, NavKept DEF MISSION_REQUEST_LIST, listVars, navVars, Publishing
  <2> QED
    BY <2>2, <2>3, <2>4 DEF IInv
<1>4. CASE UNCHANGED protocolVars
  BY <1>1, <1>4, QuietKeeps DEF MISSION_REQUEST_LIST, TypeOK, Labels, Outside, listVars, navVars, rxVars
<1> QED
  BY <1>3, <1>4 DEF MISSION_REQUEST_LIST

\* The dispatch of MISSION_REQUEST only moves the receiver on.
LEMMA RequestKeeps ==
  ASSUME IInv, NEW g \in GCS, NEW seq \in Counts, MISSION_REQUEST(g, seq)
  PROVE  IInv'
<1>1. PICK l \in {"request", "check"} : Go("rx", l)
  BY DEF MISSION_REQUEST
<1>2. expired' \in BOOLEAN /\ arg' \in Counts
  BY DEF MISSION_REQUEST, IInv, TypeOK
<1> QED
  BY <1>1, <1>2, QuietKeeps DEF MISSION_REQUEST, Receive, IInv, TypeOK, Labels, Outside, listVars

\* Sending an item moves the transfer to the sending states.
LEMMA RequestSendKeeps ==
  ASSUME IInv, RequestSend
  PROVE  IInv'
<1>1. TypeOK /\ pc["rx"] = "request"
  BY DEF IInv, RequestSend
<1>2. pc' \in [Threads -> Labels] /\ pc'["rx"] = "check" /\ pc'["main"] = pc["main"]
  BY <1>1, RxMoves DEF RequestSend, Labels, Outside
<1>3. TypeOK'
  BY <1>1, <1>2, Bounds DEF RequestSend, TypeOK, States, Counts, listVars, navVars
<1>4. TransferInv' /\ SwitchInv' /\ ListIsWhole'
  BY <1>2 DEF IInv, RequestSend, TransferInv, SwitchInv, ListIsWhole, listVars
<1>5. ActiveInList' /\ SetpointIsActive'
  BY <1>1, <1>2, NavKept DEF RequestSend, listVars, navVars, Publishing
<1> QED
  BY <1>3, <1>4, <1>5 DEF IInv

\* MISSION_COUNT with items moves on to the begin of a transfer.
LEMMA CountKeeps ==
  ASSUME IInv, NEW g \in GCS, NEW n \in Counts, MISSION_COUNT(g, n)
  PROVE  IInv'
<1>1. PICK l \in {"count", "count_zero", "check"} :
        Go("rx", l) /\ (l = "count" => arg' = n /\ n > 0)
  BY DEF MISSION_COUNT
<1>2. arg' \in Counts /\ from' \in {Nobody} \cup GCS
  BY DEF MISSION_COUNT, IInv, TypeOK, rxVars
<1> QED
  BY <1>1, <1>2, QuietKeeps DEF MISSION_COUNT, Receive, IInv, TypeOK, Labels, Outside, listVars

\* MISSION_COUNT of zero items stops the navigation, the list in use stays.
LEMMA CountZeroKeeps ==
  ASSUME IInv, CountZero
  PROVE  IInv'
<1>1. TypeOK /\ pc["rx"] = "count_zero"
  BY DEF IInv, CountZero
<1>2. pc' \in [Threads -> Labels] /\ pc'["rx"] = "check" /\ pc'["main"] = pc["main"]
  BY <1>1, RxMoves DEF CountZero, Labels, Outside
<1>3. TypeOK'
  BY <1>1, <1>2 DEF CountZero, TypeOK, protocolVars, listVars
<1>4. TransferInv' /\ SwitchInv' /\ ListIsWhole'
  BY <1>2, ListsKept DEF CountZero, protocolVars, listVars
<1>5. ActiveInList' /\ SetpointIsActive'
  BY NavStopped DEF CountZero
<1> QED
  BY <1>3, <1>4, <1>5 DEF IInv

\* A transfer begins with the announced count and no items.
LEMMA CountBeginKeeps ==
  ASSUME IInv, CountBegin
  PROVE  IInv'
<1>1. TypeOK /\ pc["rx"] = "count" /\ arg > 0
  BY DEF IInv, CountBegin, TransferInv
<1>2. pc' \in [Threads -> Labels] /\ pc'["rx"] = "check" /\ pc'["main"] = pc["main"]
  BY <1>1, RxMoves DEF CountBegin, Labels, Outside
<1>3. TypeOK'
  <2>1. 0 \in Counts
    BY Bounds DEF Counts
  <2>2. rcv_waypoints' \in [Slots -> Frames \cup {Empty}]
    BY DEF CountBegin
  <2> QED
    BY <1>1, <1>2, <2>1, <2>2 DEF CountBegin, TypeOK, States, navVars
<1>4. TransferInv'
  BY <1>1, <1>2 DEF CountBegin, TransferInv
<1>5. SwitchInv' /\ ListIsWhole'
  BY <1>2 DEF IInv, CountBegin, SwitchInv, ListIsWhole
<1>6. ActiveInList' /\ SetpointIsActive'
  BY <1>1, <1>2, NavKept DEF CountBegin, navVars, Publishing
<1> QED
  BY <1>3, <1>4, <1>5, <1>6 DEF IInv

\* The dispatch of MISSION_ITEM only moves the receiver on.
LEMMA ItemKeeps ==
  ASSUME IInv, NEW seq \in Counts, MISSION_ITEM(seq)
  PROVE  IInv'
<1>1. pc["rx"] = "wait" /\ Go("rx", "item")
  BY DEF MISSION_ITEM, Receive
<1> QED
  BY <1>1, QuietKeeps DEF MISSION_ITEM, IInv, TypeOK, Labels, Outside

\* The item that is expected is the next one, and the last makes the list complete.
LEMMA ItemKeepKeeps ==
  ASSUME IInv, ItemKeep
  PROVE  IInv'
<1>1. TypeOK /\ pc["rx"] = "item"
  BY DEF IInv, ItemKeep
<1>2. CASE Expected(arg)
  <2>1. PICK l \in {"switch", "check"} :
          Go("rx", l) /\ (l = "switch" => arg + 1 = current_count)
    BY <1>2 DEF ItemKeep
  <2>2. pc' \in [Threads -> Labels] /\ pc'["rx"] = l /\ pc'["main"] = pc["main"]
    BY <1>1, <2>1, RxMoves DEF Labels, Outside
  <2>3. /\ current_count = announced /\ arg \in Nat /\ arg < current_count
        /\ current_count <= MaxCount
        /\ current_count \in Nat
    BY <1>1, <1>2, Bounds DEF Expected, IInv, TransferInv, TypeOK, Counts
  <2>4. PICK frame \in Frames :
        /\ current_state' = "GETLIST_GETWPS" /\ current_wp_id' = arg + 1
        /\ rcv_waypoints' = [rcv_waypoints EXCEPT ![arg] = frame]
        /\ UNCHANGED <<current_count, current_partner, size, waypoints, announced, listed, cut,
                       navVars, from>>
        /\ arg' = 0 /\ expired' = FALSE
    BY <1>2 DEF ItemKeep
  <2>5. arg \in Slots /\ arg + 1 \in Counts /\ 0 \in Counts
    BY <1>2, <2>3, Bounds DEF ItemKeep, Counts
  <2>6. TypeOK'
    <3>1. rcv_waypoints' \in [Slots -> Frames \cup {Empty}]
      BY <1>1, <2>4 DEF TypeOK
    <3> QED
      BY <1>1, <2>2, <2>4, <2>5, <3>1 DEF TypeOK, States, navVars
  <2>7. \A i \in 0..arg : i \in Slots /\ rcv_waypoints'[i] # Empty
    <3>1. \A i \in 0..(arg - 1) : rcv_waypoints[i] # Empty
      BY <1>2, <2>3 DEF Expected, IInv, TransferInv
    <3>2. \A i \in 0..arg : i \in Slots /\ (i = arg \/ i \in 0..(arg - 1))
      BY <2>3, <2>5, Bounds DEF Slots
    <3>3. frame # Empty
      BY DEF Frames, Empty
    <3> QED
      BY <1>1, <2>4, <3>1, <3>2, <3>3 DEF TypeOK
  <2>8. TransferInv'
    <3>1. current_wp_id' \in 0..current_count' /\ current_wp_id' - 1 = arg
      BY <2>3, <2>4
    <3> QED
      BY <2>2, <2>3, <2>4, <2>7, <3>1 DEF TransferInv
  <2>9. SwitchInv' /\ ListIsWhole'
    BY <2>1, <2>2, <2>4 DEF IInv, SwitchInv, ListIsWhole
  <2>10. ActiveInList' /\ SetpointIsActive'
    BY <1>1, <2>2, <2>4, NavKept DEF navVars, Publishing
  <2> QED
    BY <2>6, <2>8, <2>9, <2>10 DEF IInv
<1>3. CASE ~Expected(arg)
  <2>1. arg' \in Counts
    BY Bounds DEF ItemKeep, Counts
  <2> QED
    BY <1>1, <1>3, <2>1, QuietKeeps DEF ItemKeep, TypeOK, Labels, Outside, protocolVars
<1> QED
  BY <1>2, <1>3

\* An item outside of the buffer ends what can be said.
LEMMA ItemOutsideKeeps ==
  ASSUME IInv, ItemOutside
  PROVE  IInv'
<1>1. pc["rx"] = "item" /\ Go("rx", "item_outside")
  BY DEF ItemOutside
<1> QED
  BY <1>1, QuietKeeps DEF ItemOutside, IInv, TypeOK, Labels, Outside, listVars, rxVars

\* The switch takes a complete transfer, or none.
LEMMA ListSwitchKeeps ==
  ASSUME IInv, ListSwitch
  PROVE  IInv'
<1>1. TypeOK /\ pc["rx"] = "switch"
  BY DEF IInv, ListSwitch
<1>2. PICK id \in {None} \cup 0..(current_count - 1) :
        /\ current_active_wp_id' = id
        /\ IF id # None
           THEN Go("rx", "list_publish") /\ UNCHANGED <<inside, current_state>>
           ELSE Go("rx", "check") /\ inside' = FALSE /\ current_state' = "IDLE"
  BY DEF ListSwitch
<1>3. /\ pc' \in [Threads -> Labels] /\ pc'["main"] = pc["main"]
      /\ pc'["rx"] = IF id # None THEN "list_publish" ELSE "check"
  BY <1>1, <1>2, RxMoves DEF Labels, Outside
<1>4. current_count \in Nat /\ current_count <= MAVLINK_WPM_MAX_WP_COUNT
  <2>1. current_count \in Nat
    BY <1>1, Bounds DEF TypeOK, Counts
  <2>2. CASE current_count = 0
    BY <2>2, Bounds
  <2>3. CASE current_count # 0
    <3>1. current_count - 1 \in Slots
      BY <1>1, <2>1, <2>3 DEF IInv, SwitchInv, TransferInv
    <3> QED
      BY <2>1, <3>1, Bounds DEF Slots
  <2> QED
    BY <2>2, <2>3
<1>5. TypeOK'
  <2>1. id \in {None} \cup Slots
    BY <1>4, Bounds DEF Slots
  <2>2. waypoints' \in [Slots -> Frames \cup {Empty}] /\ current_count \in Sizes
    BY <1>1, <1>4, Bounds DEF ListSwitch, TypeOK, Sizes
  <2>3. current_state' \in States /\ inside' \in BOOLEAN
    BY <1>1, <1>2 DEF TypeOK, States
  <2> QED
    BY <1>1, <1>2, <1>3, <2>1, <2>2, <2>3 DEF ListSwitch, TypeOK, rxVars
<1>6. TransferInv' /\ SwitchInv'
  BY <1>2, <1>3 DEF IInv, ListSwitch, TransferInv, SwitchInv
<1>7. ListIsWhole'
  <2>1. CASE current_count = 0
    BY <2>1 DEF ListSwitch, ListIsWhole
  <2>2. CASE current_count # 0
    <3>1. current_count = announced /\ \A i \in 0..(current_count - 1) : rcv_waypoints[i] # Empty
      BY <1>1, <2>2 DEF IInv, SwitchInv, TransferInv
    <3>2. \A i \in 0..(current_count - 1) : i \in Slots /\ i < current_count
      BY <1>4, Bounds DEF Slots
    <3>3. \A i \in 0..(current_count - 1) : waypoints'[i] # Empty
      BY <3>1, <3>2 DEF ListSwitch
    <3> QED
      BY <3>1, <3>3 DEF ListSwitch, ListIsWhole
  <2> QED
    BY <2>1, <2>2
<1>8. ActiveInList' /\ SetpointIsActive'
  BY <1>2, <1>3 DEF ListSwitch, ActiveInList, InList, SetpointIsActive, Publishing
<1> QED
  BY <1>5, <1>6, <1>7, <1>8 DEF IInv

\* After the switch the receiver settles the list's first waypoint.
LEMMA ListSettleKeeps ==
  ASSUME IInv, ListSettle
  PROVE  IInv'
<1>1. TypeOK /\ pc["rx"] = "list_settle"
  BY DEF IInv, ListSettle
<1>2. pc' \in [Threads -> Labels] /\ pc'["rx"] = "check" /\ pc'["main"] = pc["main"]
  BY <1>1, RxMoves DEF ListSettle, Labels, Outside
<1>3. TypeOK'
  BY <1>1, <1>2 DEF ListSettle, TypeOK, States, listVars, rxVars
<1>4. TransferInv' /\ SwitchInv' /\ ListIsWhole'
  BY <1>2 DEF IInv, ListSettle, TransferInv, SwitchInv, ListIsWhole, listVars
<1>5. ActiveInList' /\ SetpointIsActive'
  BY <1>1, <1>2, NavKept DEF ListSettle, listVars, Publishing
<1> QED
  BY <1>3, <1>4, <1>5 DEF IInv

\* MISSION_CLEAR_ALL empties the list and forgets its active waypoint.
LEMMA ClearKeeps ==
  ASSUME IInv, MISSION_CLEAR_ALL
  PROVE  IInv'
<1>1. TypeOK /\ pc["rx"] = "wait"
  BY DEF IInv, MISSION_CLEAR_ALL, Receive
<1>2. pc' \in [Threads -> Labels] /\ pc'["rx"] = "check" /\ pc'["main"] = pc["main"]
  BY <1>1, RxMoves DEF MISSION_CLEAR_ALL, Labels, Outside
<1>3. CASE current_state = "IDLE"
  <2>1. size' = 0 /\ current_active_wp_id' = None /\ pos_reached' = FALSE /\ expired' = FALSE
    BY <1>3 DEF MISSION_CLEAR_ALL
  <2>2. 0 \in Sizes
    BY Bounds DEF Sizes
  <2>3. TypeOK'
    BY <1>1, <1>2, <2>1, <2>2 DEF MISSION_CLEAR_ALL, TypeOK, protocolVars, rxVars
  <2>4. TransferInv' /\ SwitchInv' /\ ListIsWhole'
    BY <1>2, <2>1, ListsKept DEF MISSION_CLEAR_ALL, protocolVars
  <2>5. ActiveInList' /\ SetpointIsActive'
    BY <2>1, NavStopped
  <2> QED
    BY <2>3, <2>4, <2>5 DEF IInv
<1>4. CASE current_state # "IDLE"
  BY <1>1, <1>4, QuietKeeps DEF MISSION_CLEAR_ALL, TypeOK, Labels, Outside, navVars, rxVars
<1> QED
  BY <1>3, <1>4

\* Any other message leaves the mission state alone.
LEMMA OtherKeeps ==
  ASSUME IInv, OtherMessage
  PROVE  IInv'
<1>1. pc["rx"] = "wait" /\ Go("rx", "check")
  BY DEF OtherMessage, Receive
<1> QED
  BY <1>1, QuietKeeps DEF OtherMessage, IInv, TypeOK, Labels, Outside, listVars, rxVars

\* Every step keeps the invariant.
LEMMA NextIInv == IInv /\ [Next]_vars => IInv'
<1> SUFFICES ASSUME IInv, [Next]_vars PROVE IInv'
  OBVIOUS
<1>1. CASE Message
  BY <1>1, AckKeeps, RequestListKeeps, RequestKeeps, CountKeeps, SetCurrentKeeps, ItemKeeps,
     ClearKeeps, OtherKeeps DEF Message
<1>2. CASE RxStep
  BY <1>2, AckIdleKeeps, SettingKeeps, RequestSendKeeps, CountBeginKeeps, CountZeroKeeps,
     ItemKeepKeeps, ItemOutsideKeeps, ListSwitchKeeps, ListSettleKeeps, CheckKeeps DEF RxStep, Threads
<1>3. CASE MainStep
  BY <1>3, EventLoopKeeps, TimeoutKeeps, CheckKeeps DEF MainStep, Threads
<1>4. CASE Expire
  BY <1>4, ExpireKeeps
<1>5. CASE UNCHANGED vars \/ Stopped
  BY <1>5 DEF vars, Stopped, IInv, TypeOK, ActiveInList, InList, SetpointIsActive, Publishing, TransferInv,
              SwitchInv, ListIsWhole
<1> QED
  BY <1>1, <1>2, <1>3, <1>4, <1>5 DEF Next

-----------------------------------------------------------------------------
(***************************************************************************)
(* The inductive invariant: what the transfer's state, its count, the      *)
(* items received and the places of both threads say about each other.     *)
(***************************************************************************)
THEOREM MissionInvariance == Spec => []IInv
  BY InitIInv, NextIInv, PTL DEF Spec

(***************************************************************************)
(* The types: until an item is stored outside of the receive buffer, the   *)
(* list in use fits the arrays, however large the counts of messages are.  *)
(***************************************************************************)
THEOREM MissionTypeCorrect == Spec => []TypeOK
<1>1. IInv => TypeOK
  BY DEF IInv
<1> QED
  BY <1>1, MissionInvariance, PTL

(***************************************************************************)
(* The active list is empty or one whole transfer.                         *)
(***************************************************************************)
THEOREM ListsAreWhole == Spec => []ListIsWhole
<1>1. IInv => ListIsWhole
  BY DEF IInv
<1> QED
  BY <1>1, MissionInvariance, PTL

(***************************************************************************)
(* The active waypoint is in the list, whatever the two threads do to it.  *)
(***************************************************************************)
THEOREM ActiveIsInList == Spec => []ActiveInList
<1>1. IInv => ActiveInList
  BY DEF IInv
<1> QED
  BY <1>1, MissionInvariance, PTL

(***************************************************************************)
(* The published setpoint is the active waypoint, or about to be, if the   *)
(* waypoint has a frame for which there is a setpoint topic.               *)
(***************************************************************************)
THEOREM SetpointFollows == Spec => []SetpointIsActive
<1>1. IInv => SetpointIsActive
  BY DEF IInv
<1> QED
  BY <1>1, MissionInvariance, PTL

(***************************************************************************)
(* Every item is kept within the receive buffer if no message announces    *)
(* more items than it holds: what the handler does not test is all that    *)
(* its callers would have to.                                              *)
(***************************************************************************)
THEOREM FittingCountsFit ==
  ASSUME MaxCount <= MAVLINK_WPM_MAX_WP_COUNT
  PROVE  Spec => []ItemsFit
<1>1. Init => ItemsFit
  BY DEF Init, ItemsFit, Threads
<1>2. ASSUME IInv, ItemsFit, [Next]_vars
      PROVE  ItemsFit'
  <2>1. TypeOK
    BY <1>2 DEF IInv
  <2>2. ~ItemOutside
    <3>1. SUFFICES ASSUME Expected(arg) PROVE arg \in Slots
      BY DEF ItemOutside
    <3>2. /\ arg \in Nat /\ current_count \in Nat /\ current_count <= MaxCount
          /\ arg < current_count
      BY <1>2, <2>1, <3>1, Bounds DEF Expected, IInv, TransferInv, TypeOK, Counts
    <3> QED
      BY <3>2, Bounds DEF Slots
  <2>3. CASE \E l \in Labels \ {"item_outside"}, t \in Threads : Go(t, l)
    <3>1. PICK l \in Labels \ {"item_outside"}, t \in Threads : Go(t, l)
      BY <2>3
    <3> QED
      BY <1>2, <2>1, <3>1, RxMoves, MainMoves DEF ItemsFit, Threads
  <2>4. CASE UNCHANGED pc
    BY <1>2, <2>4 DEF ItemsFit
  <2>5. CASE Message
    <3>1. PICK l \in {"ack", "check", "set", "request", "count", "count_zero", "item"} :
            Go("rx", l)
      BY <2>5 DEF Message, MISSION_ACK, MISSION_REQUEST_LIST, MISSION_REQUEST, MISSION_COUNT,
             MISSION_SET_CURRENT, MISSION_ITEM, MISSION_CLEAR_ALL, OtherMessage
    <3> QED
      BY <2>3, <3>1 DEF Labels, Threads
  <2>6. CASE \E t \in Threads : CheckStep(t)
    <3>1. PICK t \in Threads : CheckStep(t)
      BY <2>6
    <3>2. PICK l \in {"near", "announced", "leave", "wait", "loop", "publish", "arrive",
                      "flag_outside"} : Go(t, l)
      BY <3>1 DEF CheckStep, Near, Check, Announced, Leave, Publish, Arrive, ArriveOutside, Done
    <3> QED
      BY <2>3, <3>2 DEF Labels, Outside
  <2>7. CASE RxStep /\ ~CheckStep("rx")
    <3>1. PICK l \in {"check", "set_publish", "set_settle", "switch", "list_publish",
                      "list_settle"} : Go("rx", l)
      BY <2>2, <2>7 DEF RxStep, AckIdle, SetReset, SetPublish, SetSettle, RequestSend, CountBegin,
             CountZero, ItemKeep, ListSwitch, ListPublish, ListSettle
    <3> QED
      BY <2>3, <3>1 DEF Labels, Threads
  <2>8. CASE MainStep /\ ~CheckStep("main")
    <3>1. PICK l \in {"timeout", "check"} : Go("main", l)
      BY <2>8 DEF MainStep, EventLoop, Timeout
    <3> QED
      BY <2>3, <3>1 DEF Labels, Threads
  <2>9. Expire \/ Stopped \/ UNCHANGED vars => UNCHANGED pc
    BY DEF Expire, Stopped, vars
  <2> QED
    BY <1>2, <2>4, <2>5, <2>6, <2>7, <2>8, <2>9 DEF Next, RxStep, MainStep, Threads
<1> QED
  BY <1>1, <1>2, MissionInvariance, PTL DEF Spec

(***************************************************************************)
(* The switch that follows an acknowledged last item makes the announced   *)
(* transfer the active list, unless a timeout fell into it.                *)
(***************************************************************************)
THEOREM AcknowledgedIsListed == Spec => AckedIsListed
<1>1. ASSUME IInv, [Next]_vars, pc["rx"] = "switch", pc'["rx"] # "switch"
      PROVE  size' = announced \/ cut
  <2>1. TypeOK
    BY <1>1 DEF IInv
  <2>2. CASE ListSwitch
    BY <1>1, <2>2 DEF ListSwitch, IInv, SwitchInv, TransferInv
  <2>3. CASE MainStep
    <3>1. PICK l \in Labels : Go("main", l)
      BY <2>3 DEF MainStep, EventLoop, Timeout, CheckStep, Near, Check, Announced, Leave, Publish, Arrive,
             ArriveOutside, Done, Labels, Outside
    <3> QED
      BY <1>1, <2>1, <3>1, MainMoves
  <2>4. CASE UNCHANGED pc
    BY <1>1, <2>4
  <2>5. Next => ListSwitch \/ MainStep \/ UNCHANGED pc
    BY <1>1 DEF Next, Message, RxStep, Expire, Receive, MISSION_ACK, MISSION_REQUEST_LIST,
           MISSION_REQUEST, MISSION_COUNT, MISSION_SET_CURRENT, MISSION_ITEM, MISSION_CLEAR_ALL,
           OtherMessage, AckIdle, SetReset, SetPublish, SetSettle, RequestSend, CountBegin,
           CountZero, ItemKeep, ListPublish, ListSettle, CheckStep, Near, Check, Announced,
           Leave, Publish, Arrive, ArriveOutside, ItemOutside, Stopped, vars
  <2>6. UNCHANGED vars => UNCHANGED pc
    BY DEF vars
  <2> QED
    BY <1>1, <2>2, <2>3, <2>4, <2>5, <2>6
<1>2. IInv /\ [Next]_vars =>
        [pc["rx"] = "switch" /\ pc'["rx"] # "switch" => size' = announced \/ cut]_vars
  BY <1>1
<1> QED
  BY <1>2, MissionInvariance, PTL DEF Spec, AckedIsListed
=============================================================================
