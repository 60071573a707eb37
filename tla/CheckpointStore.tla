--------------------------- MODULE CheckpointStore ---------------------------
(***************************************************************************)
(* The store of suspended tasks (runtime/checkpoint_store.py): an index in *)
(* memory and a JSONL file to which every change appends a whole record.   *)
(* At start-up the index is read back from the file, the last record of a  *)
(* checkpoint winning and unreadable lines skipped.                        *)
(*                                                                         *)
(* The checkpoint <<t, k>> holds the k-th question of task t.  A section   *)
(* under the store's lock never suspends, so each method is one operator.  *)
(***************************************************************************)
EXTENDS Naturals

CONSTANTS
  Tasks,     \* the intents that run on the node
  MaxAsks,   \* bound: how often a task suspends (the code has no such limit)
  MaxFaults  \* bound: crashes of the node and failed writes in all

ASSUME StoreAssumption == MaxAsks \in Nat /\ MaxFaults \in Nat

Checkpoints == Tasks \X (1 .. MaxAsks)

VARIABLES
  index,   \* _index: the status of a checkpoint, "none" when there is no entry
  file,    \* the status a load of the file would find
  torn,    \* the file ends in half a line, cut off by a crash
  lost,    \* history: checkpoints of which a record did not reach the file
  faults   \* history: faults injected so far

storeVars == <<index, file, torn, lost, faults>>

CPStatus == {"none", "suspended", "answered", "resumed", "timed_out"}

StoreTypeOK ==
  /\ index \in [Checkpoints -> CPStatus]
  /\ file \in [Checkpoints -> CPStatus]
  /\ torn \in BOOLEAN
  /\ lost \in SUBSET Checkpoints
  /\ faults \in Nat

StoreInit ==
  /\ index = [c \in Checkpoints |-> "none"]
  /\ file = [c \in Checkpoints |-> "none"]
  /\ torn = FALSE
  /\ lost = {}
  /\ faults = 0

Fault == faults < MaxFaults /\ faults' = faults + 1

\* _append_line: a record that follows half a line is read as part of it, and
\* an error of the write is logged and otherwise ignored.
AppendLine(c, s) ==
  \/ ~torn /\ file' = [file EXCEPT ![c] = s] /\ UNCHANGED <<torn, lost, faults>>
  \/ torn /\ torn' = FALSE /\ lost' = lost \cup {c} /\ UNCHANGED <<file, faults>>
  \/ Fault /\ lost' = lost \cup {c} /\ UNCHANGED <<file, torn>>

\* _compact: the file is replaced by one written from the index.
Compact == file' = index' /\ torn' = FALSE /\ UNCHANGED <<lost, faults>>

\* save: a new checkpoint; with enough records in the file it is compacted.
Save(c) ==
  /\ index' = [index EXCEPT ![c] = "suspended"]
  /\ AppendLine(c, "suspended") \/ Compact

\* Mutant of UpdateStatus: the changed copy is written but not kept.
UpdateCopyOnly(c, s) == UNCHANGED index /\ AppendLine(c, s)

\* update_status of a checkpoint the index knows.
UpdateStatus(c, s) ==
  /\ index' = [index EXCEPT ![c] = s]
  /\ AppendLine(c, s)

\* Mutant of Reload: what was answered is taken for suspended.
ReloadReopens ==
  /\ Fault
  /\ index' = [c \in Checkpoints |-> IF file[c] = "answered" THEN "suspended" ELSE file[c]]
  /\ torn' \in {torn, TRUE}
  /\ UNCHANGED <<file, lost>>

\* The process dies and startup_load reads the file.  The crash may hit the
\* write of a record, of which only the first half remains.
Reload ==
  /\ Fault
  /\ index' = file
  /\ torn' \in {torn, TRUE}
  /\ UNCHANGED <<file, lost>>

\* get_by_task_id: the newest checkpoint of a task.
IsLatest(c) ==
  /\ index[c] # "none"
  /\ \A k \in (c[2] + 1) .. MaxAsks : index[<<c[1], k>>] = "none"
=============================================================================
