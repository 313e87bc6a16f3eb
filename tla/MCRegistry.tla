----------------------------- MODULE MCRegistry -----------------------------
(***************************************************************************)
(* Instances of Registry for TLC: the whole level manager with tables over *)
(* two keys, and, on its own, the algorithm that applies batches to the    *)
(* segments of a level, with tables over five keys.                        *)
(***************************************************************************)
EXTENDS Registry

VARIABLE mode

Ranges == {{a, b} : a, b \in 1..5}
WideTables == {{1, 2}}
NoFaults == {}

MCInit == Init /\ mode \in {"manager", "segments"}
MCNext ==
  /\ \/ mode = "manager" /\ Next
     \/ mode = "segments" /\ SegmentNext
  /\ UNCHANGED mode
MCSpec == MCInit /\ [][MCNext]_<<vars, mode>>

\* After any sequence of batches the segments hold exactly the registered tables: splitting
\* a full segment, moving its last table to the next one and dropping empty segments
\* (levels/level_manager.go, applyChanges) neither loses nor repeats a table.
SegmentsHoldTables ==
  mode = "segments" => /\ ToSet(TablesAt(lm, 1)) = done.tables
                       /\ lm.toAdd = SegIds(lm.mr)

\* What was answered is never lost, whatever compactions, flushes, failovers and restarts
\* follow: when the level manager is active every key of a registered table is in some
\* table of the registry, every table of the registry is in the object store and does not
\* wait to be deleted from it (not one that was moved to the next level, and not one whose
\* registration a store has repeated), and LoadLastFlushedVersion returns the version
\* stored last.
AnsweredSurvives ==
  mode = "manager" =>
  /\ lm.state = "active" =>
       /\ UNION {t.keys : t \in done.tables} \subseteq UNION {t.keys : t \in Tables(lm)}
       /\ \A t \in Tables(lm) : t.id \in obj.tables
       /\ lm.mr.lastFlushed = done.version
  /\ \A t \in Tables(lm), entry \in lm.tablesToDelete : t.id # entry.id

=============================================================================
