---------------------------- MODULE ParamsProofs ----------------------------
(***************************************************************************)
(* Proofs that the safety properties of the parameter store hold for any   *)
(* finite set of parameters, any values and tasks, and whatever room the   *)
(* array is first given.                                                   *)
(***************************************************************************)
EXTENDS Params, FiniteSetTheorems, TLAPS

-----------------------------------------------------------------------------
(* The array of changed values: slots, and the ranks of the handles.       *)

\* The array is finite.
LEMMA ChangedFinite ==
  /\ IsFiniteSet(Changed) /\ Cardinality(Changed) \in Nat
  /\ \A h \in Changed : IsFiniteSet({g \in Changed : g <= h}) /\ Rank(h) \in Nat
<1>1. IsFiniteSet(Handles) /\ Changed \in SUBSET Handles
  BY ParamsAssumption DEF Changed
<1>2. IsFiniteSet(Changed)
  BY <1>1, FS_Subset
<1>3. ASSUME NEW h \in Changed
      PROVE  IsFiniteSet({g \in Changed : g <= h}) /\ Rank(h) \in Nat
  <2>1. {g \in Changed : g <= h} \in SUBSET Changed
    OBVIOUS
  <2>2. IsFiniteSet({g \in Changed : g <= h})
    BY <1>2, <2>1, FS_Subset
  <2> QED
    BY <2>2, FS_CardinalityType DEF Rank
<1> QED
  BY <1>2, <1>3, FS_CardinalityType

\* The array is sorted by handle.
LEMMA RankLess ==
  ASSUME NEW g \in Changed, NEW h \in Changed, g < h
  PROVE  Rank(g) < Rank(h)
<1> DEFINE S == {x \in Changed : x <= g}
           T == {x \in Changed : x <= h}
<1>1. Changed \subseteq Int
  BY ParamsAssumption DEF Changed
<1>2. S \in SUBSET T /\ h \in T /\ h \notin S
  <2>1. g \in Int /\ h \in Int
    BY <1>1
  <2>2. \A x \in Changed : x <= g => x <= h
    BY <1>1, <2>1
  <2>3. ~(h <= g) /\ h <= h
    BY <2>1
  <2> QED
    BY <2>2, <2>3
<1>3. IsFiniteSet(T) /\ Rank(g) = Cardinality(S) /\ Rank(h) = Cardinality(T)
      /\ Cardinality(S) \in Nat /\ Cardinality(T) \in Nat
  BY ChangedFinite DEF Rank
<1> HIDE DEF S, T
<1>4. Cardinality(S) <= Cardinality(T) /\ Cardinality(S) # Cardinality(T)
  BY <1>2, <1>3, FS_Subset
<1> QED
  BY <1>3, <1>4

\* The slots of the array are numbered from one.
LEMMA RankRange ==
  ASSUME NEW h \in Changed
  PROVE  Rank(h) \in 1..Cardinality(Changed)
<1> DEFINE T == {x \in Changed : x <= h}
<1>1. h \in T /\ T \in SUBSET Changed
  BY ParamsAssumption DEF Changed
<1>2. IsFiniteSet(T) /\ Rank(h) = Cardinality(T) /\ Rank(h) \in Nat
  BY ChangedFinite DEF Rank
<1> HIDE DEF T
<1>3. Cardinality(T) <= Cardinality(Changed)
  BY <1>1, ChangedFinite, FS_Subset
<1>4. Cardinality(T) # 0
  BY <1>1, <1>2, FS_EmptySet
<1> QED
  BY <1>2, <1>3, <1>4, ChangedFinite

\* No two handles share a slot.
LEMMA RankInjective ==
  ASSUME NEW g \in Changed, NEW h \in Changed, Rank(g) = Rank(h)
  PROVE  g = h
<1>1. g \in Int /\ h \in Int
  BY ParamsAssumption DEF Changed
<1>2. Rank(g) \in Nat
  BY ChangedFinite
<1>3. ~(g < h) /\ ~(h < g)
  BY <1>2, RankLess
<1> QED
  BY <1>1, <1>3

\* Every slot up to the array's length holds one handle.
LEMMA SlotHolds ==
  ASSUME NEW i \in 1..Cardinality(Changed)
  PROVE  /\ Slot(i) \in Changed /\ Rank(Slot(i)) = i
         /\ \A h \in Changed : Rank(h) = i => h = Slot(i)
<1> DEFINE n == Cardinality(Changed)
           f == [h \in Changed |-> Rank(h)]
<1>1. n \in Nat /\ IsFiniteSet(1..n) /\ Cardinality(1..n) = n
  BY ChangedFinite, FS_Interval
<1>2. f \in [Changed -> 1..n]
  BY RankRange
<1>3. f \in Injection(Changed, 1..n)
  BY <1>2, RankInjective DEF Injection, IsInjective
<1>4. f \in Surjection(Changed, 1..n)
  BY <1>1, <1>3, FS_Injection
<1>5. \E h \in Changed : Rank(h) = i
  BY <1>4 DEF Surjection
<1>6. Slot(i) \in Changed /\ Rank(Slot(i)) = i
  BY <1>5 DEF Slot
<1> QED
  BY <1>6, RankInjective

-----------------------------------------------------------------------------
(* The document that is written.                                           *)

\* An entry that is written is the last one of its handle.
LEMMA LastAppended ==
  ASSUME NEW q \in Seq(Handles \X Values), NEW h \in Handles, NEW v \in Values
  PROVE  /\ Append(q, <<h, v>>) \in Seq(Handles \X Values)
         /\ LastIs(Append(q, <<h, v>>), h, v)
         /\ \A g \in Handles \ {h}, w \in Values :
              LastIs(q, g, w) => LastIs(Append(q, <<h, v>>), g, w)
<1> DEFINE e == <<h, v>>
           r == Append(q, e)
<1>1. e \in Handles \X Values /\ e[1] = h
  OBVIOUS
<1>2. /\ r \in Seq(Handles \X Values) /\ Len(r) = Len(q) + 1 /\ Len(q) \in Nat
      /\ DOMAIN r = 1..Len(r) /\ DOMAIN q = 1..Len(q)
      /\ r[Len(q) + 1] = e
      /\ \A i \in 1..Len(q) : r[i] = q[i]
  BY <1>1
<1>3. e = <<h, v>>
  OBVIOUS
<1> HIDE DEF r, e
<1>4. LastIs(r, h, v)
  <2>1. Len(q) + 1 \in DOMAIN r /\ \A j \in DOMAIN r : ~(j > Len(q) + 1)
    BY <1>2
  <2> QED
    BY <1>2, <1>3, <2>1 DEF LastIs
<1>5. ASSUME NEW g \in Handles \ {h}, NEW w \in Values, LastIs(q, g, w)
      PROVE  LastIs(r, g, w)
  <2>1. PICK i \in DOMAIN q : q[i] = <<g, w>> /\ \A j \in DOMAIN q : j > i => q[j][1] # g
    BY <1>5 DEF LastIs
  <2>2. i \in DOMAIN r /\ r[i] = <<g, w>>
    BY <1>2, <2>1
  <2>3. ASSUME NEW j \in DOMAIN r, j > i PROVE r[j][1] # g
    <3>1. CASE j \in DOMAIN q
      BY <1>2, <2>1, <2>3, <3>1
    <3>2. CASE j = Len(q) + 1
      BY <1>1, <1>2, <3>2
    <3> QED
      BY <1>2, <3>1, <3>2
  <2> QED
    BY <2>2, <2>3 DEF LastIs
<1> QED
  BY <1>2, <1>4, <1>5 DEF r, e

-----------------------------------------------------------------------------
(* What a step leaves alone.                                               *)

\* A task that moves leaves the others where they are.
LEMMA Moves ==
  ASSUME TypeOK, NEW t \in Tasks, NEW l \in Labels, Go(t, l)
  PROVE  /\ pc' \in [Tasks -> Labels] /\ pc'[t] = l
         /\ \A s \in Tasks \ {t} : pc'[s] = pc[s]
BY DEF TypeOK, Go

\* Nor does it move their positions.
LEMMA Counts ==
  ASSUME TypeOK, NEW t \in Tasks, NEW n \in Nat, At(t, n)
  PROVE  /\ pos' \in [Tasks -> Nat] /\ pos'[t] = n
         /\ \A s \in Tasks \ {t} : pos'[s] = pos[s]
BY DEF TypeOK, At

\* The values and the subscriber, when neither changes.
LEMMA MemoryKept ==
  ASSUME UNCHANGED val
  PROVE  /\ Changed' = Changed /\ Current' = Current
         /\ \A h \in Handles : Rank(h)' = Rank(h)
BY DEF Changed, Current, Rank

\* A value that is set is in the array, which has room for it; if it had to be moved for
\* that, an export goes on where it was or before it, or is known to have skipped slots.
LEMMA SetMoves ==
  ASSUME TypeOK, NEW h \in Handles, NEW v \in Values, NEW saved,
         param_set_internal(h, v, saved)
  PROVE  /\ val' \in [Handles -> Values \cup {Unset}] /\ Changed' = Changed \cup {h}
         /\ HasRoom'
         /\ ptr' \in Nat /\ skipped' \in BOOLEAN
         /\ ~skipped' => ~skipped /\ ptr' <= ptr
         /\ out = << >> => ptr' = ptr
<1>1. v # Unset /\ val' = [val EXCEPT ![h] = v]
  BY ParamsAssumption DEF param_set_internal
<1>2. val' \in [Handles -> Values \cup {Unset}] /\ Changed' = Changed \cup {h}
  BY <1>1 DEF TypeOK, Changed
<1>3. /\ Cardinality(Changed) \in Nat /\ Cardinality(Changed) <= room /\ room \in Nat
      /\ Cardinality(Changed') \in Nat
      /\ Cardinality(Changed') = IF h \in Changed THEN Cardinality(Changed)
                                 ELSE Cardinality(Changed) + 1
  <2>1. IsFiniteSet(Changed) /\ Cardinality(Changed) \in Nat
    BY ChangedFinite
  <2>2. Cardinality(Changed') = IF h \in Changed THEN Cardinality(Changed)
                                ELSE Cardinality(Changed) + 1
    BY <1>2, <2>1, FS_AddElement
  <2>3. Cardinality(Changed) <= room /\ room \in Nat
    BY DEF TypeOK, HasRoom
  <2> QED
    BY <2>1, <2>2, <2>3
<1>4. CASE val[h] = Unset /\ Cardinality(Changed) + 1 > room
  <2>1. Reserve
    BY <1>4 DEF param_set_internal
  <2>2. HasRoom'
    BY <1>3, <1>4, <2>1, ParamsAssumption DEF Reserve, HasRoom
  <2>3. ptr' \in Nat /\ ptr \in Nat
    BY <2>1, ParamsAssumption, FS_CardinalityType DEF Reserve, TypeOK
  <2>4. skipped' \in BOOLEAN /\ (~skipped' => ~skipped /\ ~(ptr' > ptr))
    BY <2>1, Zenon DEF Reserve
  <2>5. ~(ptr' > ptr) => ptr' <= ptr
    BY <2>3
  <2> QED
    BY <1>2, <2>1, <2>2, <2>3, <2>4, <2>5 DEF Reserve
<1>5. CASE ~(val[h] = Unset /\ Cardinality(Changed) + 1 > room)
  <2>1. UNCHANGED <<room, ptr, skipped>>
    BY <1>5 DEF param_set_internal
  <2>2. val[h] = Unset <=> h \notin Changed
    BY DEF Changed
  <2>3. HasRoom'
    BY <1>3, <1>5, <2>1, <2>2 DEF HasRoom
  <2> QED
    BY <1>2, <2>1, <2>3 DEF TypeOK
<1> QED
  BY <1>4, <1>5

\* The export, when none begins or goes on.
LEMMA ExportKept ==
  ASSUME IInv, UNCHANGED <<val, out, ptr, skipped>>, unsaved \subseteq unsaved',
         \A t \in Tasks : pc'[t] = "export" => pc[t] = "export"
  PROVE  ExportInv'
BY MemoryKept DEF IInv, ExportInv, Changed, LastIs

\* The loads that go on undisturbed, when none of them reads.
LEMMA RestoreKept ==
  ASSUME IInv, UNCHANGED <<val, file>>,
         \A t \in Loading' \ disturbed' : t \in Loading \ disturbed /\ pos'[t] = pos[t]
  PROVE  RestoreInv'
BY DEF IInv, RestoreInv

\* What is stored, when no load reads or ends.
LEMMA StoredKept ==
  ASSUME IInv, UNCHANGED <<val, file, cutShort>>, unsaved \subseteq unsaved',
         savedOK' => savedOK, ~skipped' => ~skipped,
         \A t \in Loading : t \in Loading' /\ pos'[t] = pos[t]
  PROVE  StoredInv'
<1>1. Changed' = Changed
  BY DEF Changed
<1> QED
  BY <1>1 DEF IInv, StoredInv, StoredAs, LastIs

\* The subscriber, when no value changes.
LEMMA SubscriberKept ==
  ASSUME IInv, UNCHANGED <<val, seen, notified>>
  PROVE  SubscriberIsCurrent'
BY MemoryKept DEF IInv, SubscriberIsCurrent

-----------------------------------------------------------------------------
(* One lemma per operation.                                                *)

\* Setting a parameter: the value is unsaved, a subscriber will be told, loads are disturbed.
LEMMA SetKeeps ==
  ASSUME IInv, NEW h \in Handles, NEW v \in Values, param_set(h, v)
  PROVE  IInv'
<1>1. /\ val' = [val EXCEPT ![h] = v] /\ unsaved' = unsaved \cup {h} /\ notified' = TRUE
      /\ disturbed' = disturbed \cup Loading
      /\ UNCHANGED <<file, writer, readers, pc, pos, out, seen, savedOK, cutShort>>
  BY DEF param_set, param_set_internal
<1>2. TypeOK
  BY DEF IInv
<1>3. Loading' = Loading
  BY <1>1 DEF Loading
<1>4. /\ val' \in [Handles -> Values \cup {Unset}] /\ Changed' = Changed \cup {h}
      /\ HasRoom'
      /\ ptr' \in Nat /\ skipped' \in BOOLEAN
      /\ ~skipped' => ~skipped /\ ptr' <= ptr
      /\ out = << >> => ptr' = ptr
  BY <1>2, SetMoves DEF param_set
<1>5. TypeOK'
  BY <1>1, <1>2, <1>3, <1>4 DEF TypeOK
<1>6. OpenInv' /\ PosInv'
  BY <1>1, <1>4 DEF IInv, OpenInv, PosInv
<1>7. ExportInv'
  <2> SUFFICES ASSUME NEW t \in Tasks, pc[t] = "export", ~skipped',
                      NEW g \in Changed' \ unsaved', Rank(g)' <= ptr'
               PROVE  LastIs(out, g, val'[g])
    BY <1>1 DEF ExportInv, LastIs
  <2>1. g \in Changed \ unsaved /\ g # h /\ g \in Handles
    BY <1>1, <1>4 DEF Changed
  <2>2. val'[g] = val[g]
    BY <1>1, <1>2, <2>1 DEF TypeOK
  <2>3. Rank(g) <= Rank(g)' /\ Rank(g) \in Nat /\ Rank(g)' \in Nat
    <3> DEFINE S == {x \in Changed : x <= g}
               T == {x \in Changed' : x <= g}
    <3>1. S \in SUBSET T /\ T \in SUBSET Handles
      BY <1>4 DEF Changed
    <3>2. IsFiniteSet(T)
      BY <3>1, ParamsAssumption, FS_Subset
    <3>3. Rank(g) = Cardinality(S) /\ Rank(g)' = Cardinality(T)
      BY DEF Rank
    <3> HIDE DEF S, T
    <3>4. Cardinality(S) <= Cardinality(T) /\ IsFiniteSet(S)
      BY <3>1, <3>2, FS_Subset
    <3>5. Cardinality(S) \in Nat /\ Cardinality(T) \in Nat
      BY <3>2, <3>4, FS_CardinalityType
    <3> QED
      BY <3>3, <3>4, <3>5
  <2>4. ptr \in Nat
    BY <1>2 DEF TypeOK
  <2>5. Rank(g) <= ptr /\ ~skipped
    BY <1>4, <2>3, <2>4
  <2> QED
    BY <2>1, <2>2, <2>5 DEF IInv, ExportInv
<1>8. RestoreInv'
  BY <1>1, <1>3 DEF RestoreInv
<1>9. StoredInv'
  <2>1. ASSUME savedOK, ~cutShort, ~skipped', NEW g \in Changed' \ unsaved'
        PROVE  \/ StoredAs(g, val[g])'
               \/ \E t \in Loading : \E i \in DOMAIN file.entries :
                    i > pos[t] /\ file.entries[i][1] = g
    <3>1. g \in Changed \ unsaved /\ val'[g] = val[g]
      BY <1>1, <1>2, <1>4 DEF Changed, TypeOK
    <3>2. StoredAs(g, val[g]) => StoredAs(g, val[g])'
      BY <1>1, <3>1 DEF StoredAs, LastIs
    <3> QED
      BY <1>4, <2>1, <3>1, <3>2 DEF IInv, StoredInv
  <2> QED
    BY <1>1, <1>3, <2>1 DEF IInv, StoredInv
<1>10. SubscriberIsCurrent'
  BY <1>1 DEF SubscriberIsCurrent
<1> QED
  BY <1>5, <1>6, <1>7, <1>8, <1>9, <1>10 DEF IInv

\* A subscriber that reads its parameters again.
LEMMA RefreshKeeps ==
  ASSUME IInv, Refresh
  PROVE  IInv'
<1>1. /\ notified' = FALSE /\ seen' = Current
      /\ UNCHANGED <<val, unsaved, room, disturbed, file, writer, readers, pc, pos, ptr, out,
                     savedOK, cutShort, skipped>>
  BY DEF Refresh
<1>2. Loading' = Loading /\ Changed' = Changed /\ Current' = Current
  BY <1>1, MemoryKept DEF Loading
<1>3. Current \in [Watched -> Values]
  BY ParamsAssumption DEF IInv, TypeOK, Current
<1>4. TypeOK'
  BY <1>1, <1>2, <1>3 DEF IInv, TypeOK, HasRoom
<1>5. OpenInv' /\ PosInv'
  BY <1>1 DEF IInv, OpenInv, PosInv
<1>6. ExportInv' /\ RestoreInv' /\ StoredInv'
  BY <1>1, <1>2, ExportKept, RestoreKept, StoredKept
<1>7. SubscriberIsCurrent'
  BY <1>1, <1>2 DEF SubscriberIsCurrent
<1> QED
  BY <1>4, <1>5, <1>6, <1>7 DEF IInv

\* unlink leaves an open file, and no load reads a file that it removes.
LEMMA Unlinking ==
  ASSUME IInv, file' = Unlinked, savedOK' = FALSE, NEW t \in Tasks,
         pc[t] \in {"idle", "undo"}, NEW l \in {"open", "idle"}, Go(t, l),
         Forget, UNCHANGED <<memory, writer, readers, pos, ptr, out>>
  PROVE  IInv'
<1>1. /\ UNCHANGED <<val, unsaved, room, seen, notified, disturbed, writer, readers, pos, ptr, out>>
      /\ cutShort' = FALSE /\ skipped' \in BOOLEAN
      /\ writer # NoTask => skipped' = skipped
  BY DEF memory, Forget, IInv, TypeOK
<1>2. /\ TypeOK /\ pc' \in [Tasks -> Labels] /\ pc'[t] = l
      /\ \A s \in Tasks \ {t} : pc'[s] = pc[s]
  BY Moves DEF IInv, Labels
<1>3. Loading' = Loading /\ Changed' = Changed
  BY <1>1, <1>2, MemoryKept DEF Loading
<1>4. file' \in {file, Absent} /\ (writer # NoTask \/ readers # {} => file' = file)
  BY DEF Unlinked, Open
<1>5. TypeOK'
  BY <1>1, <1>2, <1>3, <1>4 DEF TypeOK, HasRoom
<1>6. OpenInv'
  BY <1>1, <1>2, <1>4, ParamsAssumption DEF IInv, OpenInv
<1>7. PosInv'
  <2> SUFFICES ASSUME NEW s \in Tasks
               PROVE  /\ pc'[s] \notin {"load", "import"} => pos'[s] = 0
                      /\ pc'[s] \in {"load", "import"} => pos'[s] <= Len(file'.entries)
    BY <1>1 DEF IInv, PosInv
  <2>1. CASE s = t
    BY <1>1, <1>2, <2>1 DEF IInv, PosInv
  <2>2. CASE s # t
    <3>1. pc[s] \in {"load", "import"} => file' = file
      BY <1>4 DEF IInv, OpenInv
    <3> QED
      BY <1>1, <1>2, <2>2, <3>1 DEF IInv, PosInv
  <2> QED
    BY <2>1, <2>2
<1>8. ExportInv'
  <2>1. CASE writer = NoTask
    <3>1. \A s \in Tasks : pc'[s] # "export"
      BY <1>2, <2>1, ParamsAssumption DEF IInv, OpenInv
    <3> QED
      BY <3>1 DEF ExportInv
  <2>2. CASE writer # NoTask
    BY <1>1, <1>2, <2>2, ExportKept
  <2> QED
    BY <2>1, <2>2
<1>9. RestoreInv'
  <2>1. CASE Loading = {}
    BY <1>3, <2>1 DEF RestoreInv
  <2>2. CASE Loading # {}
    <3>1. readers # {}
      BY <2>2 DEF IInv, OpenInv, Loading
    <3> QED
      BY <1>1, <1>3, <1>4, <3>1, RestoreKept
  <2> QED
    BY <2>1, <2>2
<1>10. StoredInv'
  BY DEF StoredInv
<1>11. SubscriberIsCurrent'
  BY <1>1, SubscriberKept
<1> QED
  BY <1>5, <1>6, <1>7, <1>8, <1>9, <1>10, <1>11 DEF IInv

\* The begin of a save, and the end of one that failed.
LEMMA SaveKeeps ==
  ASSUME IInv, NEW t \in Tasks, Save(t) \/ Undo(t)
  PROVE  IInv'
<1>1. CASE Save(t)
  BY <1>1, Unlinking DEF Save
<1>2. CASE Undo(t)
  BY <1>2, Unlinking DEF Undo
<1> QED
  BY <1>1, <1>2

\* The file is created, or it is there: only the first makes an export begin.
LEMMA SaveOpenKeeps ==
  ASSUME IInv, NEW t \in Tasks, SaveOpen(t)
  PROVE  IInv'
<1>1. /\ TypeOK /\ pc[t] = "open" /\ writer = NoTask
      /\ UNCHANGED <<val, unsaved, room, seen, notified, disturbed, file, readers, pos, ptr, out>>
      /\ cutShort' = FALSE /\ skipped' = FALSE
  BY DEF IInv, SaveOpen, Forget, memory
<1>2. PICK l \in {"export", "idle"} :
        /\ Go(t, l)
        /\ l = "export" => file = Absent /\ writer' = t /\ savedOK' = savedOK
        /\ l = "idle" => writer' = writer /\ savedOK' = FALSE
  BY DEF SaveOpen
<1>3. /\ pc' \in [Tasks -> Labels] /\ pc'[t] = l
      /\ \A s \in Tasks \ {t} : pc'[s] = pc[s]
  BY <1>1, <1>2, Moves DEF Labels
<1>4. Loading' = Loading /\ Changed' = Changed
  BY <1>1, <1>2, <1>3, MemoryKept DEF Loading
<1>5. TypeOK'
  BY <1>1, <1>2, <1>3, <1>4 DEF TypeOK, HasRoom
<1>6. OpenInv'
  BY <1>1, <1>2, <1>3, ParamsAssumption DEF IInv, OpenInv
<1>7. PosInv'
  BY <1>1, <1>2, <1>3 DEF IInv, PosInv
<1>8. ExportInv'
  <2>1. ptr' = 0
    BY <1>1 DEF IInv, PosInv
  <2>2. \A h \in Changed' : h \in Changed /\ Rank(h)' = Rank(h)
    BY <1>1, <1>4, MemoryKept DEF Changed
  <2>3. \A h \in Changed' : ~(Rank(h)' <= ptr')
    BY <2>1, <2>2, RankRange, ChangedFinite
  <2> QED
    BY <2>3 DEF ExportInv
<1>9. ~savedOK'
  BY <1>2 DEF IInv, StoredInv
<1>10. RestoreInv' /\ StoredInv' /\ SubscriberIsCurrent'
  BY <1>1, <1>4, <1>9, RestoreKept, SubscriberKept DEF StoredInv
<1> QED
  BY <1>5, <1>6, <1>7, <1>8, <1>10 DEF IInv

\* The exporter is the only one that has the file open, and so the only exporter.
LEMMA WriterAlone ==
  ASSUME IInv, NEW t \in Tasks, pc[t] \in {"export", "failed"}
  PROVE  /\ writer = t /\ writer # NoTask /\ file = Absent /\ readers = {} /\ Loading = {}
         /\ ~savedOK
         /\ \A s \in Tasks \ {t} : pc[s] \in {"idle", "open", "undo"}
<1>1. writer = t /\ writer # NoTask /\ file = Absent /\ readers = {}
  BY ParamsAssumption DEF IInv, OpenInv
<1>2. ~savedOK
  BY <1>1 DEF IInv, StoredInv
<1>3. \A s \in Tasks \ {t} : pc[s] \in {"idle", "open", "undo"}
  BY <1>1 DEF IInv, OpenInv, TypeOK, Labels
<1>4. Loading = {}
  BY <1>3 DEF Loading
<1> QED
  BY <1>1, <1>2, <1>3, <1>4

\* One slot is exported: its mark goes, and the value is written or the export has failed.
LEMMA ExportKeeps ==
  ASSUME IInv, NEW t \in Tasks, Export(t)
  PROVE  IInv'
<1> DEFINE h == Slot(ptr + 1)
<1>1. /\ TypeOK /\ pc[t] = "export" /\ ptr < Cardinality(Changed) /\ ptr \in Nat
      /\ UNCHANGED <<val, room, seen, notified, disturbed, file, writer, readers, pos, savedOK,
                     cutShort, skipped>>
      /\ unsaved' = unsaved \ {h} /\ ptr' = ptr + 1
  BY DEF IInv, TypeOK, Export
<1>2. PICK l \in {"export", "failed"} :
        /\ pc' \in [Tasks -> Labels] /\ pc'[t] = l
        /\ \A s \in Tasks \ {t} : pc'[s] = pc[s]
        /\ l = "export" => out' = Append(out, <<h, val[h]>>)
        /\ l = "failed" => out' = out
  <2>1. CASE out' = Append(out, <<h, val[h]>>) /\ UNCHANGED pc
    BY <1>1, <2>1 DEF TypeOK
  <2>2. CASE Go(t, "failed") /\ UNCHANGED out
    BY <1>1, <2>2, Moves DEF Labels
  <2> QED
    BY <2>1, <2>2 DEF Export
<1>3. writer # NoTask
  BY <1>1, WriterAlone
<1>4. /\ h \in Changed /\ Rank(h) = ptr + 1
      /\ \A g \in Changed : Rank(g) = ptr + 1 => g = h
  BY <1>1, SlotHolds, ChangedFinite
<1>5. h \in Handles /\ val[h] \in Values /\ out \in Seq(Handles \X Values)
  BY <1>1, <1>4 DEF TypeOK, Changed
<1> HIDE DEF h
<1>6. /\ Append(out, <<h, val[h]>>) \in Seq(Handles \X Values)
      /\ LastIs(Append(out, <<h, val[h]>>), h, val[h])
      /\ \A g \in Handles \ {h}, w \in Values :
           LastIs(out, g, w) => LastIs(Append(out, <<h, val[h]>>), g, w)
  BY <1>5, LastAppended
<1>7. /\ Loading = {} /\ ~savedOK
      /\ \A s \in Tasks \ {t} : pc[s] \in {"idle", "open", "undo"}
  BY <1>1, WriterAlone
<1>8. Loading' = {}
  BY <1>2, <1>7 DEF Loading
<1>9. Changed' = Changed /\ HasRoom' /\ ptr' \in Nat
  BY <1>1, MemoryKept DEF TypeOK, HasRoom
<1>10. TypeOK'
  BY <1>1, <1>2, <1>5, <1>6, <1>7, <1>8, <1>9 DEF TypeOK
<1>11. OpenInv' /\ PosInv'
  BY <1>1, <1>2, <1>3, <1>7 DEF IInv, OpenInv, PosInv
<1>12. ExportInv'
  <2> SUFFICES ASSUME NEW s \in Tasks, pc'[s] = "export", ~skipped,
                      NEW g \in Changed \ unsaved', Rank(g) <= ptr'
               PROVE  LastIs(out', g, val[g])
    BY <1>1, <1>9, MemoryKept DEF ExportInv, LastIs, Changed
  <2>1. s = t /\ l = "export" /\ out' = Append(out, <<h, val[h]>>)
    BY <1>2, <1>7
  <2>2. CASE g = h
    BY <1>6, <2>1, <2>2
  <2>3. CASE g # h
    <3>1. g \in Changed \ unsaved /\ g \in Handles /\ val[g] \in Values
      BY <1>1, <2>3 DEF Changed, TypeOK
    <3>2. Rank(g) <= ptr + 1 /\ Rank(g) # ptr + 1 /\ Rank(g) \in Nat
      BY <1>1, <1>4, <2>3, <3>1, ChangedFinite
    <3>3. Rank(g) <= ptr
      BY <1>1, <3>2
    <3>4. LastIs(out, g, val[g])
      BY <1>1, <3>1, <3>3 DEF IInv, ExportInv
    <3> QED
      BY <1>6, <2>1, <2>3, <3>1, <3>4
  <2> QED
    BY <2>2, <2>3
<1>13. RestoreInv' /\ StoredInv' /\ SubscriberIsCurrent'
  BY <1>1, <1>7, <1>8, SubscriberKept DEF RestoreInv, StoredInv
<1> QED
  BY <1>10, <1>11, <1>12, <1>13 DEF IInv

\* The end of an export: if it is whole, what is called saved is in the file.
LEMMA ExportEndKeeps ==
  ASSUME IInv, NEW t \in Tasks, ExportEnd(t)
  PROVE  IInv'
<1>1. /\ TypeOK /\ pc[t] \in {"export", "failed"}
      /\ pc[t] = "export" => ptr >= Cardinality(Changed)
      /\ UNCHANGED <<val, unsaved, room, seen, notified, disturbed, readers, pos>>
      /\ writer' = NoTask /\ cutShort' = FALSE /\ skipped' = (skipped /\ savedOK')
      /\ out' = << >> /\ ptr' = 0
  BY DEF IInv, ExportEnd, memory
<1>2. PICK whole \in BOOLEAN :
        /\ whole => pc[t] = "export"
        /\ file' \in {[entries |-> out, eoo |-> whole], Absent}
        /\ savedOK' = (whole /\ file' # Absent)
        /\ Go(t, IF whole THEN "idle" ELSE "undo")
  BY DEF ExportEnd
<1>3. /\ pc' \in [Tasks -> Labels] /\ pc'[t] \in {"idle", "undo"}
      /\ \A s \in Tasks \ {t} : pc'[s] = pc[s]
  BY <1>1, <1>2, Moves DEF Labels
<1>4. pos'[t] = 0
  BY <1>1 DEF IInv, PosInv
<1>5. /\ Loading = {} /\ readers = {}
      /\ \A s \in Tasks \ {t} : pc[s] \in {"idle", "open", "undo"}
  BY <1>1, WriterAlone
<1>6. /\ \A s \in Tasks : pc'[s] \in {"idle", "open", "undo"}
      /\ Loading' = {} /\ Changed' = Changed
  BY <1>1, <1>3, <1>5, MemoryKept DEF Loading
<1>7. out \in Seq(Handles \X Values)
  BY <1>1 DEF TypeOK
<1>8. file' # Absent => file'.entries = out /\ file'.eoo = whole
  BY <1>2
<1>9. TypeOK'
  <2>1. << >> \in Seq(Handles \X Values)
    OBVIOUS
  <2>2. savedOK' \in BOOLEAN /\ cutShort' \in BOOLEAN /\ skipped' \in BOOLEAN
    BY <1>1, <1>2
  <2>3. disturbed' \subseteq Loading'
    BY <1>1, <1>5, <1>6 DEF TypeOK
  <2> QED
    BY <1>1, <1>3, <1>4, <1>6, <1>7, <1>8, <2>1, <2>2, <2>3 DEF TypeOK, HasRoom
<1>10. OpenInv' /\ PosInv'
  BY <1>1, <1>3, <1>4, <1>5, <1>6, ParamsAssumption DEF IInv, OpenInv, PosInv
<1>11. ExportInv' /\ RestoreInv'
  BY <1>6 DEF ExportInv, RestoreInv
<1>12. StoredInv'
  <2>1. ASSUME savedOK', ~skipped', NEW h \in Changed' \ unsaved'
        PROVE  StoredAs(h, val[h])'
    <3>1. h \in Changed \ unsaved /\ pc[t] = "export" /\ ptr \in Nat
      BY <1>1, <1>2, <1>6, <2>1 DEF TypeOK
    <3>2. Rank(h) <= ptr
      <4>1. Rank(h) \in 1..Cardinality(Changed) /\ Cardinality(Changed) \in Nat
        BY <3>1, RankRange, ChangedFinite
      <4> QED
        BY <1>1, <3>1, <4>1
    <3>3. LastIs(out, h, val[h])
      BY <1>1, <2>1, <3>1, <3>2 DEF IInv, ExportInv
    <3>4. file'.entries = out
      BY <1>2, <1>8, <2>1
    <3> QED
      BY <1>1, <3>3, <3>4 DEF StoredAs, LastIs
  <2>2. savedOK' => file' # Absent /\ file'.eoo
    BY <1>2, <1>8
  <2> QED
    BY <2>1, <2>2 DEF StoredInv
<1>13. SubscriberIsCurrent'
  BY <1>1, SubscriberKept
<1> QED
  BY <1>9, <1>10, <1>11, <1>12, <1>13 DEF IInv

\* The file is opened for reading: there is no exporter, and the reader is at its begin.
LEMMA ReadOpens ==
  ASSUME IInv, NEW t \in Tasks, ReadOpen(t), NEW l \in {"load", "import"}, Go(t, l),
         UNCHANGED <<file, writer, ptr, out>>
  PROVE  /\ pc' \in [Tasks -> Labels] /\ pc'[t] = l
         /\ \A s \in Tasks \ {t} : pc'[s] = pc[s]
         /\ readers' \subseteq Tasks /\ pos' = pos /\ pos[t] = 0
         /\ Loading' = IF l = "load" THEN Loading \cup {t} ELSE Loading
         /\ t \notin Loading
         /\ \A s \in Tasks : pc[s] # "export" /\ pc'[s] # "export"
         /\ OpenInv' /\ PosInv'
<1>1. /\ TypeOK /\ pc[t] = "idle" /\ file # Absent /\ writer = NoTask
      /\ readers' = readers \cup {t} /\ pos' = pos
  BY DEF IInv, ReadOpen
<1>2. /\ pc' \in [Tasks -> Labels] /\ pc'[t] = l
      /\ \A s \in Tasks \ {t} : pc'[s] = pc[s]
  BY <1>1, Moves DEF Labels
<1>3. readers' \subseteq Tasks /\ pos[t] = 0
  BY <1>1 DEF IInv, TypeOK, PosInv
<1>4. Loading' = (IF l = "load" THEN Loading \cup {t} ELSE Loading) /\ t \notin Loading
  BY <1>1, <1>2 DEF Loading
<1>5. \A s \in Tasks : pc[s] # "export" /\ pc'[s] # "export"
  BY <1>1, <1>2, ParamsAssumption DEF IInv, OpenInv
<1>6. OpenInv'
  BY <1>1, <1>2, ParamsAssumption DEF IInv, OpenInv
<1>7. PosInv'
  <2>1. Len(file.entries) >= 0
    BY <1>1 DEF TypeOK
  <2> QED
    BY <1>1, <1>2, <1>3, <2>1 DEF IInv, PosInv
<1> QED
  BY <1>1, <1>2, <1>3, <1>4, <1>5, <1>6, <1>7

\* A load begins with nothing changed; other loads are disturbed by that.
LEMMA LoadKeeps ==
  ASSUME IInv, NEW t \in Tasks, Load(t)
  PROVE  IInv'
<1>1. /\ TypeOK /\ ReadOpen(t) /\ Go(t, "load")
      /\ val' = [h \in Handles |-> Unset] /\ unsaved' = {} /\ notified' = TRUE
      /\ room' = 0 /\ skipped' = FALSE
      /\ disturbed' = (disturbed \cup Loading) \ {t}
      /\ UNCHANGED <<file, writer, ptr, out, seen, savedOK, cutShort>>
  BY DEF IInv, Load, param_reset_all
<1>2. /\ pc' \in [Tasks -> Labels] /\ readers' \subseteq Tasks /\ pos' = pos /\ pos[t] = 0
      /\ Loading' = Loading \cup {t}
      /\ \A s \in Tasks : pc'[s] # "export"
      /\ OpenInv' /\ PosInv'
  BY <1>1, ReadOpens
<1>3. Changed' = {} /\ HasRoom'
  <2>1. Changed' = {}
    BY <1>1 DEF Changed
  <2> QED
    BY <1>1, <2>1, FS_EmptySet DEF HasRoom
<1>4. TypeOK'
  BY <1>1, <1>2, <1>3 DEF TypeOK
<1>5. ExportInv'
  BY <1>2 DEF ExportInv
<1>6. RestoreInv'
  <2>1. Loading' \ disturbed' = {t}
    BY <1>1, <1>2 DEF TypeOK
  <2>2. \A h \in Handles : val'[h] = Unset
    BY <1>1
  <2>3. 1..pos'[t] = {}
    BY <1>2
  <2> QED
    BY <2>1, <2>2, <2>3 DEF RestoreInv
<1>7. StoredInv'
  BY <1>1, <1>3 DEF IInv, StoredInv
<1>8. SubscriberIsCurrent'
  BY <1>1 DEF SubscriberIsCurrent
<1> QED
  BY <1>2, <1>4, <1>5, <1>6, <1>7, <1>8 DEF IInv

\* An import begins with the values as they are.
LEMMA ImportKeeps ==
  ASSUME IInv, NEW t \in Tasks, Import(t)
  PROVE  IInv'
<1>1. /\ TypeOK /\ ReadOpen(t) /\ Go(t, "import")
      /\ UNCHANGED <<val, unsaved, room, seen, notified, disturbed, file, writer, ptr, out, savedOK,
                     cutShort, skipped>>
  BY DEF IInv, Import, memory
<1>2. /\ pc' \in [Tasks -> Labels] /\ readers' \subseteq Tasks /\ pos' = pos
      /\ Loading' = Loading
      /\ \A s \in Tasks : pc'[s] # "export"
      /\ OpenInv' /\ PosInv'
  BY <1>1, ReadOpens
<1>3. Changed' = Changed
  BY <1>1, MemoryKept
<1>4. TypeOK'
  BY <1>1, <1>2, <1>3 DEF TypeOK, HasRoom
<1>5. ExportInv'
  BY <1>2 DEF ExportInv
<1>6. RestoreInv' /\ StoredInv' /\ SubscriberIsCurrent'
  BY <1>1, <1>2, RestoreKept, StoredKept, SubscriberKept
<1> QED
  BY <1>2, <1>4, <1>5, <1>6 DEF IInv

\* One entry is read: the value is set, as saved by a load and as unsaved by an import.
LEMMA ReadEntryKeeps ==
  ASSUME IInv, NEW t \in Tasks, ReadEntry(t)
  PROVE  IInv'
<1> DEFINE k == pos[t] + 1
           h == file.entries[k][1]
           v == file.entries[k][2]
<1>1. /\ TypeOK /\ pc[t] \in {"load", "import"} /\ pos[t] < Len(file.entries)
      /\ pos[t] \in Nat /\ At(t, k) /\ notified' = TRUE
      /\ val' = [val EXCEPT ![h] = v]
      /\ unsaved' = IF pc[t] = "load" THEN unsaved \ {h} ELSE unsaved \cup {h}
      /\ disturbed' = disturbed \cup (Loading \ {t})
      /\ UNCHANGED <<file, writer, readers, pc, out, seen, savedOK, cutShort>>
  BY DEF IInv, TypeOK, ReadEntry, param_set_internal
<1>2. t \in readers /\ file # Absent
  BY <1>1 DEF IInv, OpenInv
<1>3. /\ file.entries \in Seq(Handles \X Values) /\ k \in 1..Len(file.entries)
      /\ Len(file.entries) \in Nat /\ DOMAIN file.entries = 1..Len(file.entries)
  BY <1>1, <1>2 DEF TypeOK
<1>4. file.entries[k] \in Handles \X Values
  BY <1>3
<1>5. h \in Handles /\ v \in Values /\ v # Unset /\ file.entries[k] = <<h, v>>
  BY <1>4, ParamsAssumption
<1>6. /\ pos' \in [Tasks -> Nat] /\ pos'[t] = k
      /\ \A s \in Tasks \ {t} : pos'[s] = pos[s]
  BY <1>1, Counts
<1> DEFINE es == file.entries
<1> HIDE DEF h, v
<1>7. /\ val' \in [Handles -> Values \cup {Unset}] /\ val'[h] = v
      /\ \A g \in Handles \ {h} : val'[g] = val[g]
      /\ Changed' = Changed \cup {h}
      /\ HasRoom'
      /\ ptr' \in Nat /\ skipped' \in BOOLEAN
      /\ ~skipped' => ~skipped
      /\ out = << >> => ptr' = ptr
  <2>1. param_set_internal(h, v, pc[t] = "load")
    BY DEF ReadEntry, h, v
  <2> QED
    BY <1>1, <1>5, <2>1, SetMoves DEF TypeOK
<1>8. Loading' = Loading
  BY <1>1 DEF Loading
<1>9. TypeOK'
  BY <1>1, <1>6, <1>7, <1>8 DEF TypeOK
<1>10. OpenInv' /\ PosInv'
  <2>1. OpenInv'
    BY <1>1 DEF IInv, OpenInv
  <2>2. k <= Len(file.entries)
    BY <1>3
  <2>3. PosInv'
    BY <1>1, <1>6, <1>7, <2>2 DEF IInv, PosInv
  <2> QED
    BY <2>1, <2>3
<1>11. ExportInv'
  <2>1. \A s \in Tasks : pc[s] # "export"
    BY <1>2, ParamsAssumption DEF IInv, OpenInv
  <2> QED
    BY <1>1, <2>1 DEF ExportInv
<1>12. RestoreInv'
  <2> SUFFICES ASSUME NEW s \in Loading' \ disturbed', NEW g \in Handles
               PROVE  \/ val'[g] = Unset /\ \A i \in 1..pos'[s] : file'.entries[i][1] # g
                      \/ \E i \in 1..pos'[s] :
                           /\ file'.entries[i] = <<g, val'[g]>>
                           /\ \A j \in (i + 1)..pos'[s] : file'.entries[j][1] # g
    BY DEF RestoreInv
  <2> SUFFICES \/ val'[g] = Unset /\ \A i \in 1..pos'[s] : es[i][1] # g
               \/ \E i \in 1..pos'[s] :
                    /\ es[i] = <<g, val'[g]>>
                    /\ \A j \in (i + 1)..pos'[s] : es[j][1] # g
    BY <1>1
  <2>1. s = t /\ t \in Loading \ disturbed /\ pos'[s] = pos[t] + 1
    BY <1>1, <1>6, <1>8
  <2>2. CASE g = h
    <3>1. pos[t] + 1 \in 1..pos'[s] /\ ((pos[t] + 1) + 1)..pos'[s] = {}
      BY <1>1, <2>1
    <3> QED
      BY <1>5, <1>7, <2>2, <3>1
  <2>3. CASE g # h
    <3>1. val'[g] = val[g] /\ es[pos[t] + 1][1] # g
      BY <1>7, <2>3 DEF h
    <3>2. \/ val[g] = Unset /\ \A i \in 1..pos[t] : es[i][1] # g
          \/ \E i \in 1..pos[t] :
               /\ es[i] = <<g, val[g]>>
               /\ \A j \in (i + 1)..pos[t] : es[j][1] # g
      BY <2>1 DEF IInv, RestoreInv
    <3>3. CASE val[g] = Unset /\ \A i \in 1..pos[t] : es[i][1] # g
      <4>1. \A i \in 1..(pos[t] + 1) : i \in 1..pos[t] \/ i = pos[t] + 1
        BY <1>1
      <4> QED
        BY <2>1, <3>1, <3>3, <4>1
    <3>4. CASE \E i \in 1..pos[t] :
                 /\ es[i] = <<g, val[g]>>
                 /\ \A j \in (i + 1)..pos[t] : es[j][1] # g
      <4>1. PICK i \in 1..pos[t] : /\ es[i] = <<g, val[g]>>
                                   /\ \A j \in (i + 1)..pos[t] : es[j][1] # g
        BY <3>4
      <4>2. /\ i \in 1..(pos[t] + 1)
            /\ \A j \in (i + 1)..(pos[t] + 1) : j \in (i + 1)..pos[t] \/ j = pos[t] + 1
        BY <1>1
      <4> QED
        BY <2>1, <3>1, <4>1, <4>2
    <3> QED
      BY <3>2, <3>3, <3>4
  <2> QED
    BY <2>2, <2>3
<1>13. StoredInv'
  <2>1. ASSUME savedOK, ~cutShort, ~skipped', NEW g \in Changed' \ unsaved'
        PROVE  \/ LastIs(es, g, val'[g])
               \/ \E s \in Loading : \E i \in DOMAIN es : i > pos'[s] /\ es[i][1] = g
    <3>1. CASE g = h
      <4>1. pc[t] = "load" /\ t \in Loading
        BY <1>1, <2>1, <3>1 DEF Loading
      <4>2. CASE \E i \in DOMAIN es : i > k /\ es[i][1] = h
        BY <1>6, <3>1, <4>1, <4>2
      <4>3. CASE ~\E i \in DOMAIN es : i > k /\ es[i][1] = h
        BY <1>3, <1>5, <1>7, <3>1, <4>3 DEF LastIs
      <4> QED
        BY <4>2, <4>3
    <3>2. CASE g # h
      <4>1. g \in Changed \ unsaved /\ val'[g] = val[g] /\ g \in Handles
        BY <1>1, <1>7, <2>1, <3>2 DEF Changed
      <4>2. \/ LastIs(es, g, val[g])
            \/ \E s \in Loading : \E i \in DOMAIN es : i > pos[s] /\ es[i][1] = g
        BY <1>7, <2>1, <4>1 DEF IInv, StoredInv, StoredAs
      <4>3. ASSUME NEW s \in Loading, NEW i \in DOMAIN es, i > pos[s], es[i][1] = g
            PROVE  i > pos'[s]
        <5>1. CASE s = t
          <6>1. i # k
            BY <3>2, <4>3 DEF h
          <6> QED
            BY <1>1, <1>3, <1>6, <4>3, <5>1, <6>1
        <5>2. CASE s # t
          BY <1>6, <4>3, <5>2 DEF Loading
        <5> QED
          BY <5>1, <5>2
      <4> QED
        BY <4>1, <4>2, <4>3
    <3> QED
      BY <3>1, <3>2
  <2>2. ASSUME NEW g \in Handles, LastIs(es, g, val'[g]) PROVE StoredAs(g, val[g])'
    BY <1>1, <2>2 DEF StoredAs, LastIs
  <2>3. Changed' \subseteq Handles
    BY DEF Changed
  <2> QED
    BY <1>1, <1>8, <2>1, <2>2, <2>3 DEF IInv, StoredInv
<1>14. SubscriberIsCurrent'
  BY <1>1 DEF SubscriberIsCurrent
<1> QED
  BY <1>9, <1>10, <1>11, <1>12, <1>13, <1>14 DEF IInv

\* The end of a load or an import: a load that leaves entries unread has failed.
LEMMA ReadEndKeeps ==
  ASSUME IInv, NEW t \in Tasks, ReadEnd(t)
  PROVE  IInv'
<1>1. /\ TypeOK /\ pc[t] \in {"load", "import"} /\ readers' = readers \ {t}
      /\ At(t, 0) /\ Go(t, "idle") /\ disturbed' = disturbed \ {t}
      /\ cutShort' = (savedOK /\ (cutShort \/ (pc[t] = "load" /\ ~LoadOK(t))))
      /\ UNCHANGED <<val, unsaved, room, seen, notified, file, writer, ptr, out, savedOK, skipped>>
  BY DEF IInv, ReadEnd
<1>2. /\ pc' \in [Tasks -> Labels] /\ pc'[t] = "idle"
      /\ \A s \in Tasks \ {t} : pc'[s] = pc[s]
  BY <1>1, Moves DEF Labels
<1>3. /\ pos' \in [Tasks -> Nat] /\ pos'[t] = 0
      /\ \A s \in Tasks \ {t} : pos'[s] = pos[s]
  BY <1>1, Counts
<1>4. Loading' = Loading \ {t} /\ Changed' = Changed
  BY <1>1, <1>2, MemoryKept DEF Loading
<1>5. TypeOK'
  <2>1. cutShort' \in BOOLEAN
    BY <1>1
  <2> QED
    BY <1>1, <1>2, <1>3, <1>4, <2>1 DEF TypeOK, HasRoom
<1>6. OpenInv' /\ PosInv'
  BY <1>1, <1>2, <1>3 DEF IInv, OpenInv, PosInv
<1>7. ExportInv'
  BY <1>1, <1>2, <1>3, ExportKept
<1>8. RestoreInv'
  <2>1. \A s \in Loading' \ disturbed' : s \in Loading \ disturbed /\ pos'[s] = pos[s]
    BY <1>1, <1>3, <1>4 DEF Loading
  <2> QED
    BY <1>1, <2>1, RestoreKept
<1>9. StoredInv'
  <2>1. ASSUME savedOK, ~cutShort', ~skipped, NEW g \in Changed \ unsaved
        PROVE  \/ StoredAs(g, val[g])
               \/ \E s \in Loading' : \E i \in DOMAIN file.entries :
                    i > pos'[s] /\ file.entries[i][1] = g
    <3>1. /\ ~cutShort /\ (pc[t] = "load" => LoadOK(t))
          /\ file # Absent
      BY <1>1, <2>1 DEF IInv, StoredInv
    <3>2. DOMAIN file.entries = 1..Len(file.entries) /\ Len(file.entries) \in Nat
      BY <1>1, <3>1 DEF TypeOK
    <3>3. ASSUME NEW s \in Loading, NEW i \in DOMAIN file.entries, i > pos[s]
          PROVE  s \in Loading' /\ i > pos'[s]
      <4>1. s # t
        <5> SUFFICES ASSUME s = t PROVE FALSE
          OBVIOUS
        <5>1. pos[s] = Len(file.entries)
          BY <3>1 DEF Loading, LoadOK
        <5> QED
          BY <3>2, <3>3, <5>1
      <4> QED
        BY <1>3, <1>4, <3>3, <4>1 DEF Loading
    <3> QED
      BY <2>1, <3>1, <3>3 DEF IInv, StoredInv
  <2>2. ASSUME NEW g, StoredAs(g, val[g]) PROVE StoredAs(g, val[g])'
    BY <1>1, <2>2 DEF StoredAs, LastIs
  <2> QED
    BY <1>1, <1>4, <2>1, <2>2 DEF IInv, StoredInv
<1>10. SubscriberIsCurrent'
  BY <1>1, SubscriberKept
<1> QED
  BY <1>5, <1>6, <1>7, <1>8, <1>9, <1>10 DEF IInv

\* After a start nothing is changed and nobody is at work.
LEMMA InitIInv == Init => IInv
<1> SUFFICES ASSUME Init PROVE IInv
  OBVIOUS
<1>1. \A t \in Tasks : pc[t] = "idle" /\ pos[t] = 0
  BY DEF Init
<1>2. Loading = {} /\ Changed = {} /\ HasRoom
  <2>1. Loading = {} /\ Changed = {}
    BY <1>1 DEF Init, Loading, Changed
  <2> QED
    BY <2>1, FS_EmptySet DEF Init, HasRoom
<1>3. Current \in [Watched -> Values]
  BY ParamsAssumption DEF Init, Current
<1>4. TypeOK
  <2>1. << >> \in Seq(Handles \X Values)
    OBVIOUS
  <2> QED
    BY <1>2, <1>3, <2>1 DEF Init, TypeOK, Labels
<1>5. OpenInv /\ PosInv
  BY <1>1, ParamsAssumption DEF Init, OpenInv, PosInv
<1>6. ExportInv /\ RestoreInv /\ StoredInv
  BY <1>1, <1>2 DEF Init, ExportInv, RestoreInv, StoredInv
<1>7. SubscriberIsCurrent
  BY DEF Init, SubscriberIsCurrent
<1> QED
  BY <1>4, <1>5, <1>6, <1>7 DEF IInv

\* A crash leaves the file that was closed, and memory as after a start.
LEMMA CrashKeeps ==
  ASSUME IInv, Crash
  PROVE  IInv'
<1>1. /\ val' = [h \in Handles |-> Unset] /\ unsaved' = {} /\ room' = 0
      /\ writer' = NoTask /\ readers' = {} /\ out' = << >>
      /\ pc' = [t \in Tasks |-> "idle"] /\ pos' = [t \in Tasks |-> 0] /\ ptr' = 0
      /\ seen' = [h \in Watched |-> Default] /\ notified' = FALSE
      /\ disturbed' = {} /\ cutShort' = FALSE /\ skipped' = FALSE
      /\ UNCHANGED <<file, savedOK>>
  BY DEF Crash
<1>2. \A t \in Tasks : pc'[t] = "idle" /\ pos'[t] = 0
  BY <1>1
<1>3. Loading' = {} /\ Changed' = {} /\ HasRoom'
  <2>1. Loading' = {} /\ Changed' = {}
    BY <1>1, <1>2 DEF Loading, Changed
  <2> QED
    BY <1>1, <2>1, FS_EmptySet DEF HasRoom
<1>4. TypeOK'
  <2>1. << >> \in Seq(Handles \X Values)
    OBVIOUS
  <2>2. seen' \in [Watched -> Values]
    BY <1>1, ParamsAssumption
  <2> QED
    BY <1>1, <1>3, <2>1, <2>2 DEF IInv, TypeOK, Labels
<1>5. OpenInv' /\ PosInv'
  BY <1>1, <1>2, ParamsAssumption DEF OpenInv, PosInv
<1>6. ExportInv' /\ RestoreInv' /\ StoredInv'
  BY <1>1, <1>2, <1>3 DEF IInv, ExportInv, RestoreInv, StoredInv
<1>7. SubscriberIsCurrent'
  <2>1. Current' = [h \in Watched |-> Default]
    BY <1>1, ParamsAssumption DEF Current
  <2> QED
    BY <1>1, <2>1 DEF SubscriberIsCurrent
<1> QED
  BY <1>4, <1>5, <1>6, <1>7 DEF IInv

-----------------------------------------------------------------------------
\* Every step of any task keeps the invariant.
LEMMA NextIInv == IInv /\ [Next]_vars => IInv'
<1> SUFFICES ASSUME IInv, [Next]_vars PROVE IInv'
  OBVIOUS
<1>1. CASE \E h \in Handles, v \in Values : param_set(h, v)
  BY <1>1, SetKeeps
<1>2. CASE Refresh
  BY <1>2, RefreshKeeps
<1>3. ASSUME NEW t \in Tasks, Save(t) \/ Load(t) \/ Import(t) PROVE IInv'
  BY <1>3, SaveKeeps, LoadKeeps, ImportKeeps
<1>4. ASSUME NEW t \in Tasks, TaskStep(t) PROVE IInv'
  BY <1>4, SaveKeeps, SaveOpenKeeps, ExportKeeps, ExportEndKeeps, ReadEntryKeeps, ReadEndKeeps
     DEF TaskStep
<1>5. CASE Crash
  BY <1>5, CrashKeeps
<1>6. CASE UNCHANGED vars
  <2>1. UNCHANGED <<val, unsaved, room, file, writer, readers, pc, pos, ptr, out, seen, notified,
                    savedOK, disturbed, cutShort, skipped>>
    BY <1>6 DEF vars
  <2>2. Loading' = Loading /\ Changed' = Changed
    BY <2>1, MemoryKept DEF Loading
  <2>3. TypeOK' /\ OpenInv' /\ PosInv'
    BY <2>1, <2>2 DEF IInv, TypeOK, HasRoom, OpenInv, PosInv
  <2>4. ExportInv' /\ RestoreInv' /\ StoredInv' /\ SubscriberIsCurrent'
    BY <2>1, <2>2, ExportKept, RestoreKept, StoredKept, SubscriberKept
  <2> QED
    BY <2>3, <2>4 DEF IInv
<1> QED
  BY <1>1, <1>2, <1>3, <1>4, <1>5, <1>6 DEF Next

\* The inductive invariant of the parameter store, its file and its tasks.
THEOREM ParamsInvariance == Spec => []IInv
BY InitIInv, NextIInv, PTL DEF Spec

\* Values, marks, file and tasks keep their types; only changed values are unsaved.
THEOREM ParamsTypeCorrect == Spec => []TypeOK
<1>1. IInv => TypeOK
  BY DEF IInv
<1> QED
  BY <1>1, ParamsInvariance, PTL

(***************************************************************************)
(* param_export, which holds a pointer into the array and the file open,   *)
(* never runs together with a load, an import or another export, although  *)
(* param_lock does nothing: exclusive creation keeps them apart.           *)
(***************************************************************************)
THEOREM ExportsAreAlone == Spec => []ExportAlone
<1>1. IInv => ExportAlone
  BY WriterAlone DEF ExportAlone
<1> QED
  BY <1>1, ParamsInvariance, PTL

(***************************************************************************)
(* A save that has succeeded is durable: the file is whole and holds every *)
(* value that is marked as saved, whatever was set during the export, and  *)
(* across crashes and successful loads, unless realloc has carried the     *)
(* exporter's pointer forward in the array.                                *)
(***************************************************************************)
THEOREM SavesAreDurable == Spec => []SavedIsStored
<1>1. IInv => SavedIsStored
  BY DEF IInv, StoredInv, SavedIsStored
<1> QED
  BY <1>1, ParamsInvariance, PTL

(***************************************************************************)
(* A load that succeeds undisturbed leaves exactly the parameters of the   *)
(* file: param_reset_all before it, param_import_callback for each entry.  *)
(***************************************************************************)
THEOREM LoadsRestore == Spec => []LoadRestores
<1>1. IInv => LoadRestores
  <2> SUFFICES ASSUME IInv, NEW t \in Tasks, LoadOK(t), t \notin disturbed
               PROVE  /\ \A h \in Changed : StoredAs(h, val[h])
                      /\ \A h \in Handles \ Changed :
                           \A i \in DOMAIN file.entries : file.entries[i][1] # h
    BY DEF LoadRestores
  <2>1. t \in Loading \ disturbed /\ pos[t] = Len(file.entries) /\ file # Absent
    BY DEF LoadOK, Loading, IInv, OpenInv
  <2>2. DOMAIN file.entries = 1..pos[t] /\ pos[t] \in Nat
    BY <2>1 DEF IInv, TypeOK
  <2>3. ASSUME NEW h \in Handles
        PROVE  \/ /\ val[h] = Unset
                  /\ \A i \in 1..pos[t] : file.entries[i][1] # h
               \/ \E i \in 1..pos[t] :
                    /\ file.entries[i] = <<h, val[h]>>
                    /\ \A j \in (i + 1)..pos[t] : file.entries[j][1] # h
    BY <2>1 DEF IInv, RestoreInv
  <2>4. ASSUME NEW h \in Changed PROVE StoredAs(h, val[h])
    <3>1. h \in Handles /\ val[h] # Unset
      BY DEF Changed
    <3>2. PICK i \in 1..pos[t] : /\ file.entries[i] = <<h, val[h]>>
                                 /\ \A j \in (i + 1)..pos[t] : file.entries[j][1] # h
      BY <2>3, <3>1
    <3>3. \A j \in 1..pos[t] : j > i => j \in (i + 1)..pos[t]
      BY <2>2
    <3> QED
      BY <2>2, <3>2, <3>3 DEF StoredAs, LastIs
  <2>5. ASSUME NEW h \in Handles \ Changed, NEW i \in DOMAIN file.entries
        PROVE  file.entries[i][1] # h
    <3>1. val[h] = Unset /\ h \in Handles
      BY DEF Changed
    <3>2. \A k \in 1..pos[t] : file.entries[k] # <<h, Unset>>
      <4>1. \A k \in 1..pos[t] : file.entries[k] \in Handles \X Values
        BY <2>1, <2>2 DEF IInv, TypeOK
      <4> QED
        BY <4>1, ParamsAssumption
    <3> QED
      BY <2>2, <2>3, <3>1, <3>2
  <2> QED
    BY <2>4, <2>5
<1> QED
  BY <1>1, ParamsInvariance, PTL

(***************************************************************************)
(* No update is missed: every change of a value, by whichever task, is     *)
(* followed by a notification (param_notify_changes).                      *)
(***************************************************************************)
THEOREM SubscribersAreCurrent == Spec => []SubscriberIsCurrent
<1>1. IInv => SubscriberIsCurrent
  BY DEF IInv
<1> QED
  BY <1>1, ParamsInvariance, PTL
=============================================================================
