------------------------------- MODULE Params -------------------------------
(***************************************************************************)
(* The parameter store (src/apps/systemlib/param/param.c), the file that   *)
(* it is saved to and loaded from, and the tasks that use it: the MAVLink  *)
(* receive thread, the commander's calibrations and the param command.     *)
(*                                                                         *)
(* param_lock does nothing, so the tasks share the store freely.  What is  *)
(* done in memory is one step (the tasks do not preempt one another in it); *)
(* a task that reads or writes the file blocks, and others run.            *)
(*                                                                         *)
(* The file system is NXFFS: a file is open to one writer or to readers,   *)
(* an open file is not removed, and a file appears when its writer closes  *)
(* it.  A crash therefore leaves what was closed.  A document (tinybson.c) *)
(* is its entries and, if it was finished, an end mark.                    *)
(*                                                                         *)
(* The array of changed values (utarray.h) is sorted by handle; a task     *)
(* that exports holds a pointer to a slot of it.  A value that the array   *)
(* has no room for makes it be moved under that pointer.                   *)
(***************************************************************************)
EXTENDS Integers, Sequences, FiniteSets

CONSTANTS
  Handles,       \* param_t: a set of integers
  Watched,       \* the parameters that the subscriber uses
  FirstRoom,     \* the room that the array is first given, 8 in the code
  Values, Default,
  Unset,         \* of a parameter that has not been changed
  Tasks, NoTask,
  Absent         \* a file that does not exist

ASSUME ParamsAssumption ==
  /\ Handles \subseteq Int /\ IsFiniteSet(Handles) /\ Watched \subseteq Handles
  /\ FirstRoom \in Nat \ {0}
  /\ Default \in Values /\ Unset \notin Values /\ NoTask \notin Tasks
  /\ Absent \notin [entries : Seq(Handles \X Values), eoo : BOOLEAN]

VARIABLES
  val, unsaved,      \* param_values: the changed values, and which are unsaved
  room,              \* how many values the array is allocated for
  file,              \* /eeprom/parameters
  writer, readers,   \* who has the file open
  pc,                \* where each task is
  pos,               \* the entries that each task has read so far
  ptr,               \* the slot that the exporter's pointer is at; 0: the front is next
  out,               \* the document being written
  seen, notified,    \* a subscriber of parameter_update: its values; an update waits
  savedOK,           \* history: the last save to begin or end has ended well
  disturbed,         \* history: loads during which something else changed a value
  cutShort,          \* history: a load has failed since the last good save
  skipped            \* history: the array has moved so that the last export went on further
                     \* along in it

vars == <<val, unsaved, room, file, writer, readers, pc, pos, ptr, out, seen, notified, savedOK,
          disturbed, cutShort, skipped>>
memory == <<val, unsaved, room, seen, notified, disturbed>>

Changed == {h \in Handles : val[h] # Unset}
Rank(h) == Cardinality({g \in Changed : g <= h})
Slot(i) == CHOOSE h \in Changed : Rank(h) = i

\* param_get, of what the subscriber uses.
Current == [h \in Watched |-> IF val[h] = Unset THEN Default ELSE val[h]]

Init ==
  /\ val = [h \in Handles |-> Unset] /\ unsaved = {} /\ room = 0
  /\ file = Absent /\ writer = NoTask /\ readers = {}
  /\ pc = [t \in Tasks |-> "idle"] /\ pos = [t \in Tasks |-> 0] /\ ptr = 0 /\ out = << >>
  /\ seen = Current /\ notified = FALSE
  /\ savedOK = FALSE /\ disturbed = {} /\ cutShort = FALSE /\ skipped = FALSE

Go(t, l) == pc' = [pc EXCEPT ![t] = l]
At(t, n) == pos' = [pos EXCEPT ![t] = n]

-----------------------------------------------------------------------------
(* param_set_internal, param_reset_all and their notification.             *)

\* utarray_reserve: the array is moved to wherever realloc finds room.  The exporter's
\* pointer, which utarray_next takes for one into the new array, is then below it and the
\* front is next, or at any slot of it or beyond; before the first slot there is none.
Reserve ==
  /\ room' = IF room = 0 THEN FirstRoom ELSE 2 * room
  /\ ptr' \in IF out = << >> THEN {ptr} ELSE 0..Cardinality(Handles)
  /\ skipped' = (skipped \/ ptr' > ptr)

param_set_internal(h, v, mark_saved) ==
  /\ IF val[h] = Unset /\ Cardinality(Changed) + 1 > room
     THEN Reserve ELSE UNCHANGED <<room, ptr, skipped>>
  /\ val' = [val EXCEPT ![h] = v]
  /\ unsaved' = IF mark_saved THEN unsaved \ {h} ELSE unsaved \cup {h}
  /\ notified' = TRUE

\* Mutant: nobody is told of a reset.
param_reset_all_Silent ==
  /\ val' = [h \in Handles |-> Unset] /\ unsaved' = {} /\ room' = 0 /\ skipped' = FALSE
  /\ UNCHANGED notified

\* Mutant: the marks of the values survive them.
param_reset_all_KeepsMarks ==
  /\ val' = [h \in Handles |-> Unset] /\ room' = 0 /\ skipped' = FALSE /\ UNCHANGED unsaved
  /\ notified' = TRUE

param_reset_all ==
  /\ val' = [h \in Handles |-> Unset] /\ unsaved' = {} /\ room' = 0 /\ skipped' = FALSE
  /\ notified' = TRUE

Loading == {t \in Tasks : pc[t] = "load"}

\* param_set, by a calibration or a PARAM_SET message.
param_set(h, v) ==
  /\ param_set_internal(h, v, FALSE)
  /\ disturbed' = disturbed \cup Loading
  /\ UNCHANGED <<file, writer, readers, pc, pos, out, seen, savedOK, cutShort>>

\* A subscriber of parameter_update reads its parameters again.
Refresh ==
  /\ notified /\ notified' = FALSE
  /\ seen' = Current
  /\ UNCHANGED <<val, unsaved, room, disturbed, file, writer, readers, pc, pos, ptr, out>>
  /\ UNCHANGED <<savedOK, cutShort, skipped>>

-----------------------------------------------------------------------------
(* Saving: mavlink_pm_save_eeprom, pm_save_eeprom, do_save, eeprom_save.   *)

Open == writer # NoTask \/ readers # {}

\* unlink: an open file stays.
Unlinked == IF Open THEN file ELSE Absent

\* History: no good save stands any more; what is known of an export under way is kept.
Forget == cutShort' = FALSE /\ skipped' = (skipped /\ writer # NoTask)

Save(t) ==
  /\ pc[t] = "idle"
  /\ file' = Unlinked /\ savedOK' = FALSE
  /\ Go(t, "open") /\ Forget
  /\ UNCHANGED <<memory, writer, readers, pos, ptr, out>>

\* Mutant: open(O_CREAT | O_TRUNC), which takes a file that is there.
SaveOpen_NotExclusive(t) ==
  /\ pc[t] = "open" /\ writer = NoTask
  /\ \/ writer' = t /\ Go(t, "export") /\ UNCHANGED savedOK
     \/ Go(t, "idle") /\ savedOK' = FALSE /\ UNCHANGED writer
  /\ Forget
  /\ UNCHANGED <<memory, file, readers, pos, ptr, out>>

\* open(O_CREAT | O_EXCL) waits for another writer, and may fail.
SaveOpen(t) ==
  /\ pc[t] = "open" /\ writer = NoTask
  /\ \/ /\ file = Absent
        /\ writer' = t /\ Go(t, "export") /\ UNCHANGED savedOK
     \/ /\ Go(t, "idle") /\ savedOK' = FALSE
        /\ UNCHANGED writer
  /\ Forget
  /\ UNCHANGED <<memory, file, readers, pos, ptr, out>>

\* Mutant: param_export(fd, true), which skips what is saved.
Export_OnlyUnsaved(t) ==
  /\ pc[t] = "export" /\ ptr < Cardinality(Changed)
  /\ LET h == Slot(ptr + 1)
     IN  /\ unsaved' = unsaved \ {h}
         /\ ptr' = ptr + 1
         /\ \/ /\ out' = IF h \in unsaved THEN Append(out, <<h, val[h]>>) ELSE out
               /\ UNCHANGED pc
            \/ Go(t, "failed") /\ UNCHANGED out
  /\ UNCHANGED <<val, room, seen, notified, disturbed, file, writer, readers, pos, savedOK,
                 cutShort, skipped>>

\* param_export: the next slot is marked and its value written, or the write fails.
Export(t) ==
  /\ pc[t] = "export" /\ ptr < Cardinality(Changed)
  /\ LET h == Slot(ptr + 1)
     IN  /\ unsaved' = unsaved \ {h}
         /\ ptr' = ptr + 1
         /\ \/ out' = Append(out, <<h, val[h]>>) /\ UNCHANGED pc
            \/ Go(t, "failed") /\ UNCHANGED out
  /\ UNCHANGED <<val, room, seen, notified, disturbed, file, writer, readers, pos, savedOK,
                 cutShort, skipped>>

\* Mutant: an export that fails returns before it closes the file.
ExportEnd_NotClosed(t) ==
  /\ pc[t] \in {"export", "failed"}
  /\ pc[t] = "export" => ptr >= Cardinality(Changed)
  /\ \/ /\ pc[t] = "export"
        /\ file' = [entries |-> out, eoo |-> TRUE]
        /\ savedOK' = TRUE /\ writer' = NoTask
     \/ /\ savedOK' = FALSE /\ UNCHANGED <<file, writer>>
  /\ cutShort' = FALSE /\ skipped' = (skipped /\ savedOK')
  /\ out' = << >> /\ ptr' = 0 /\ Go(t, "idle")
  /\ UNCHANGED <<memory, readers, pos>>

\* The end mark (bson_encoder_fini) and close, or close after a failure.  The file
\* appears unless close fails, which no saver looks at.
ExportEnd(t) ==
  /\ pc[t] \in {"export", "failed"}
  /\ pc[t] = "export" => ptr >= Cardinality(Changed)
  /\ \E whole \in BOOLEAN :
       /\ whole => pc[t] = "export"
       /\ file' \in {[entries |-> out, eoo |-> whole], Absent}
       /\ savedOK' = (whole /\ file' # Absent)
       /\ Go(t, IF whole THEN "idle" ELSE "undo")
  /\ writer' = NoTask
  /\ cutShort' = FALSE /\ skipped' = (skipped /\ savedOK')
  /\ out' = << >> /\ ptr' = 0
  /\ UNCHANGED <<memory, readers, pos>>

\* A failed save removes its file.
Undo(t) ==
  /\ pc[t] = "undo"
  /\ file' = Unlinked /\ savedOK' = FALSE
  /\ Go(t, "idle") /\ Forget
  /\ UNCHANGED <<memory, writer, readers, pos, ptr, out>>

-----------------------------------------------------------------------------
(* Loading: param_load (mavlink_pm_load_eeprom, do_load, eeprom_load) and   *)
(* param_import (do_import).                                                *)

ReadOpen(t) ==
  /\ pc[t] = "idle" /\ file # Absent /\ writer = NoTask
  /\ readers' = readers \cup {t} /\ UNCHANGED pos

\* Mutant: a load keeps what the file does not mention.
Load_NoReset(t) ==
  /\ ReadOpen(t)
  /\ Go(t, "load") /\ disturbed' = (disturbed \cup Loading) \ {t}
  /\ UNCHANGED <<val, unsaved, room, notified, file, writer, ptr, out, seen, savedOK, cutShort,
                 skipped>>

Load(t) ==
  /\ ReadOpen(t)
  /\ param_reset_all
  /\ Go(t, "load") /\ disturbed' = (disturbed \cup Loading) \ {t}
  /\ UNCHANGED <<file, writer, ptr, out, seen, savedOK, cutShort>>

Import(t) ==
  /\ ReadOpen(t)
  /\ Go(t, "import")
  /\ UNCHANGED <<memory, file, writer, ptr, out, savedOK, cutShort, skipped>>

\* One entry: param_import_callback.
ReadEntry(t) ==
  /\ pc[t] \in {"load", "import"} /\ pos[t] < Len(file.entries)
  /\ At(t, pos[t] + 1)
  /\ LET e == file.entries[pos[t] + 1]
     IN  param_set_internal(e[1], e[2], pc[t] = "load")
  /\ disturbed' = disturbed \cup (Loading \ {t})
  /\ UNCHANGED <<file, writer, readers, pc, out, seen, savedOK, cutShort>>

\* The end: an end mark, or an error there or at any entry.
LoadOK(t) ==
  pc[t] = "load" /\ pos[t] = Len(file.entries) /\ file.eoo

ReadEnd(t) ==
  /\ pc[t] \in {"load", "import"}
  /\ readers' = readers \ {t} /\ At(t, 0)
  /\ Go(t, "idle")
  /\ disturbed' = disturbed \ {t}
  /\ cutShort' = (savedOK /\ (cutShort \/ (pc[t] = "load" /\ ~LoadOK(t))))
  /\ UNCHANGED <<val, unsaved, room, seen, notified, file, writer, ptr, out, savedOK, skipped>>

\* Memory is lost, and a file that is not closed.
Crash ==
  /\ val' = [h \in Handles |-> Unset] /\ unsaved' = {} /\ room' = 0
  /\ writer' = NoTask /\ readers' = {} /\ out' = << >>
  /\ pc' = [t \in Tasks |-> "idle"] /\ pos' = [t \in Tasks |-> 0] /\ ptr' = 0
  /\ seen' = [h \in Watched |-> Default] /\ notified' = FALSE
  /\ disturbed' = {} /\ cutShort' = FALSE /\ skipped' = FALSE
  /\ UNCHANGED <<file, savedOK>>

-----------------------------------------------------------------------------
TaskStep(t) == SaveOpen(t) \/ ExportEnd(t) \/ Undo(t) \/ ReadEnd(t) \/ Export(t) \/ ReadEntry(t)

Next ==
  \/ \E h \in Handles, v \in Values : param_set(h, v)
  \/ Refresh
  \/ \E t \in Tasks : Save(t) \/ Load(t) \/ Import(t) \/ TaskStep(t)
  \/ Crash

Spec == Init /\ [][Next]_vars

\* A task whose I/O is done goes on; the semaphore of the writer is handed on.
FairSpec == Spec /\ \A t \in Tasks : WF_vars(TaskStep(t)) /\ SF_vars(SaveOpen(t))

-----------------------------------------------------------------------------
Labels == {"idle", "open", "export", "failed", "undo", "load", "import"}

\* The array is allocated for the values that are in it.
HasRoom == room \in Nat /\ Cardinality(Changed) <= room

\* Type correctness; in particular, the array has room for the values that are set, only
\* these are marked unsaved, and only a load that is under way counts as disturbed.
TypeOK ==
  /\ val \in [Handles -> Values \cup {Unset}] /\ unsaved \subseteq Changed
  /\ HasRoom
  /\ file # Absent => /\ file.entries \in Seq(Handles \X Values)
                      /\ file.eoo \in BOOLEAN
  /\ writer \in Tasks \cup {NoTask} /\ readers \subseteq Tasks
  /\ pc \in [Tasks -> Labels]
  /\ pos \in [Tasks -> Nat] /\ ptr \in Nat /\ out \in Seq(Handles \X Values)
  /\ seen \in [Watched -> Values] /\ notified \in BOOLEAN
  /\ savedOK \in BOOLEAN /\ disturbed \subseteq Loading /\ cutShort \in BOOLEAN
  /\ skipped \in BOOLEAN

(***************************************************************************)
(* The file is never written while it is read or written by another, and a *)
(* load, which frees the array, never meets an export, which holds a       *)
(* pointer into it; only the file system keeps them apart.                 *)
(***************************************************************************)
ExportAlone ==
  \A t \in Tasks :
    pc[t] \in {"export", "failed"} =>
      writer = t /\ readers = {} /\ \A s \in Tasks \ {t} : pc[s] \in {"idle", "open", "undo"}

Saving == {t \in Tasks : pc[t] \in {"open", "export", "failed", "undo"}}

\* What a document holds for h: its last entry.
LastIs(entries, h, v) ==
  \E i \in DOMAIN entries :
    /\ entries[i] = <<h, v>>
    /\ \A j \in DOMAIN entries : j > i => entries[j][1] # h

StoredAs(h, v) == LastIs(file.entries, h, v)

(***************************************************************************)
(* A save that has succeeded is durable: until the next one begins the     *)
(* file is whole and holds every value that `param show' calls saved,      *)
(* whatever was set while it was being written, and across a crash, unless *)
(* the array was moved and the export taken forward in it by that.  (A     *)
(* move that takes it back is harmless.  A file may hold a parameter twice, *)
(* so a load that stops half way may leave the earlier of its values.)     *)
(***************************************************************************)
SavedIsStored ==
  savedOK /\ Saving = {} =>
    /\ file # Absent /\ file.eoo
    /\ Loading = {} /\ ~cutShort /\ ~skipped =>
         \A h \in Changed \ unsaved : StoredAs(h, val[h])

(***************************************************************************)
(* "Export changed parameters to a file" (param.h:192): once a save has    *)
(* ended well, a value that is called saved is in the file.  The export    *)
(* does not keep this when the array is moved under its pointer.           *)
(***************************************************************************)
ExportIsComplete ==
  savedOK /\ Saving = {} /\ Loading = {} /\ ~cutShort =>
    \A h \in Changed \ unsaved : StoredAs(h, val[h])

(***************************************************************************)
(* A load that succeeds, and during which nothing else changed a value,    *)
(* leaves exactly the parameters of the file, the defaults for the rest.   *)
(***************************************************************************)
LoadRestores ==
  \A t \in Tasks :
    LoadOK(t) /\ t \notin disturbed =>
      /\ \A h \in Changed : StoredAs(h, val[h])
      /\ \A h \in Handles \ Changed : \A i \in DOMAIN file.entries : file.entries[i][1] # h

(***************************************************************************)
(* No update is missed: a subscriber that has acted on every notification  *)
(* uses the current values.                                                *)
(***************************************************************************)
SubscriberIsCurrent == ~notified => seen = Current

\* Every save comes to an end, although saves wait for one another.
SaveEnds == \A t \in Tasks : pc[t] = "open" ~> pc[t] = "idle"

-----------------------------------------------------------------------------
(***************************************************************************)
(* The parts of the inductive invariant of ParamsProofs.                   *)
(***************************************************************************)

\* Who has the file open; it is absent while it is written and there while it is read.
OpenInv ==
  /\ \A t \in Tasks : pc[t] \in {"export", "failed"} <=> writer = t
  /\ \A t \in Tasks : pc[t] \in {"load", "import"} <=> t \in readers
  /\ writer # NoTask => file = Absent
  /\ readers # {} => file # Absent

\* A task that does not read has no position, and a reader is within the document; the
\* pointer belongs to the exporter.
PosInv ==
  /\ \A t \in Tasks :
       /\ pc[t] \notin {"load", "import"} => pos[t] = 0
       /\ pc[t] \in {"load", "import"} => pos[t] <= Len(file.entries)
  /\ writer = NoTask => ptr = 0 /\ out = << >>

\* An export has written what is called saved, as far as it has come: a value that is
\* set meanwhile is unsaved, and if it is inserted the ones after it only move on.
ExportInv ==
  (\E t \in Tasks : pc[t] = "export") /\ ~skipped =>
    \A h \in Changed \ unsaved : Rank(h) <= ptr => LastIs(out, h, val[h])

\* A load that is not disturbed has set exactly what it has read.
RestoreInv ==
  \A t \in Loading \ disturbed : \A h \in Handles :
    \/ /\ val[h] = Unset
       /\ \A i \in 1..pos[t] : file.entries[i][1] # h
    \/ \E i \in 1..pos[t] :
         /\ file.entries[i] = <<h, val[h]>>
         /\ \A j \in (i + 1)..pos[t] : file.entries[j][1] # h

\* What is called saved is stored, or a load has still to come to it.
StoredInv ==
  savedOK =>
    /\ file # Absent /\ file.eoo
    /\ ~cutShort /\ ~skipped =>
         \A h \in Changed \ unsaved :
           \/ StoredAs(h, val[h])
           \/ \E t \in Loading : \E i \in DOMAIN file.entries :
                i > pos[t] /\ file.entries[i][1] = h

IInv ==
  TypeOK /\ OpenInv /\ PosInv /\ ExportInv /\ RestoreInv /\ StoredInv /\ SubscriberIsCurrent
=============================================================================
