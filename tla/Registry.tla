------------------------------ MODULE Registry ------------------------------
(***************************************************************************)
(* The table registry of the level manager (levels/level_manager.go): the  *)
(* master record with its segments of table entries, the application of    *)
(* registration batches, the flush of the registry to the object store,    *)
(* the loss of the node that runs the level manager and the recovery on    *)
(* the next leader, which loads the stored master record and reprocesses   *)
(* the replicated level manager commands.                                  *)
(*                                                                         *)
(* Keys are numbers and a table is the set of the keys it holds; versions  *)
(* are left out, since levels above 0 never split a key (module            *)
(* MergingIterator).  Segments are immutable: segs maps a segment id to    *)
(* its tables, and the caches and the object store are sets of ids.        *)
(***************************************************************************)
EXTENDS Integers, Sequences, FiniteSets, SequencesExt, FiniteSetsExt, Functions, TLC

CONSTANTS
  NewTables,     \* the key sets of the tables the stores flush
  SegmentTables, \* the key sets of the tables of SegmentNext
  LastLevel,     \* the last level of the tree
  MaxEntries,    \* MaxRegistrySegmentTableEntries
  Versions,      \* the flushed versions the version manager stores
  MaxCommands,   \* bound: commands sent to the level manager
  MaxQueued,     \* bound: commands replicated and not yet handled
  MaxAttempts,   \* bound: workers that process one compaction job
  MaxCrashes,    \* bound: losses of the level manager's node
  MaxFlushes,    \* bound: flushes begun
  Faults         \* timing assumptions that are dropped, a subset of FaultKinds

(***************************************************************************)
(* The timing that the code relies on and does not enforce:                *)
(*   torn_push      a push is not interrupted, by an error or the loss of  *)
(*                  the node, once it has deleted segments                 *)
(*   torn_apply     a segment is not unavailable in the middle of a batch  *)
(*   small_cache    the LRU cache holds the segments made during a push    *)
(*   early_delete   a registry change is flushed within SSTableDeleteDelay *)
(*   late_resubmit  a store repeats a registration before its table has    *)
(*                  been compacted                                         *)
(***************************************************************************)
FaultKinds == {"torn_push", "torn_apply", "small_cache", "early_delete", "late_resubmit"}

ASSUME RegistryAssumption ==
  /\ Faults \subseteq FaultKinds
  /\ MaxEntries \in Nat \ {0}
  /\ \A ks \in NewTables \cup SegmentTables : ks # {} /\ ks \subseteq Nat

VARIABLES
  lm,      \* the LevelManager of the current leader
  obj,     \* the object store: master record, segments and tables
  push,    \* the flush in progress, if any
  log,     \* replicated level manager commands, not yet flushed
  pos,     \* how many commands of log the current leader has handled
  repl,    \* the replicator's sequences and the flush callback
  sending, \* the table that the store is registering: it sends one at a time
  used,    \* counters for the bounds
  done     \* history: the tables and the version whose command was answered

vars == <<lm, obj, push, log, pos, repl, sending, used, done>>

Levels == 0..LastLevel
NoPush == [stage |-> "none"]
NoTable == [id |-> 0, keys |-> {}]
None == -1
NoCallback == -2

Start(t) == Min(t.keys)
End(t) == Max(t.keys)

-----------------------------------------------------------------------------
(* Segments. *)

EmptyMaster == [levels |-> [l \in Levels |-> <<>>], counts |-> [l \in Levels |-> 0],
                lastFlushed |-> None, lastSeq |-> None]

NewLevelManager == [state |-> "created", mr |-> EmptyMaster, segs |-> <<>>, toAdd |-> {},
  toDelete |-> {}, pre |-> {}, lru |-> {}, hasChanges |-> FALSE, jobs |-> {},
  tablesToDelete |-> {}, fault |-> "none"]

SegIds(mr) == UNION {{mr.levels[l][i].id : i \in DOMAIN mr.levels[l]} : l \in Levels}

\* getSegment: a segment is found in the cache or in the object store, and cached
Cached(r) == r.pre \union r.lru
Found(r, id) == id \in Cached(r) \union obj.segs
Load(r, id) ==
  IF id \in Cached(r) \/ id \notin obj.segs THEN r
  ELSE [r EXCEPT !.pre = @ \union {id}, !.lru = @ \union {id}]

FreshIds(r, n) ==
  LET used0 == DOMAIN r.segs
  IN  SubSeq(SetToSortSeq((1..(Cardinality(used0) + n)) \ used0, <), 1, n)

SegmentToAdd(r, id, tables) ==
  [r EXCEPT !.segs = @ @@ (id :> tables), !.toAdd = @ \union {id},
            !.pre = @ \union {id}, !.lru = @ \union {id}]

SegmentToRemove(r, id) ==
  [r EXCEPT !.pre = @ \ {id}, !.lru = @ \ {id}, !.toAdd = @ \ {id},
            !.toDelete = IF id \in r.toAdd THEN @ ELSE @ \union {id}]

\* Level 0 is not ordered by key, the other levels are
EntryOf(l, id, tables) ==
  IF l = 0
  THEN [id |-> id, start |-> Min({Start(t) : t \in ToSet(tables)}),
        end |-> Max({End(t) : t \in ToSet(tables)})]
  ELSE [id |-> id, start |-> Start(tables[1]), end |-> End(Last(tables))]

\* Replaces the n segments from position i of level l by segments with the given tables
Rewrite(r, l, i, n, parts, delta) ==
  LET es == r.mr.levels[l]
      ids == FreshIds(r, Len(parts))
      old == [k \in 1..n |-> es[i + k - 1].id]
      removed == FoldLeft(SegmentToRemove, r, old)
      added == FoldLeft(LAMBDA q, k : SegmentToAdd(q, ids[k], parts[k]), removed,
                        [k \in DOMAIN parts |-> k])
      new == [k \in DOMAIN parts |-> EntryOf(l, ids[k], parts[k])]
  IN  [added EXCEPT !.mr.levels[l] = SubSeq(es, 1, i - 1) \o new \o SubSeq(es, i + n, Len(es)),
                    !.mr.counts[l] = @ + delta]

TablesAt(r, l) == FlattenSeq([i \in DOMAIN r.mr.levels[l] |-> r.segs[r.mr.levels[l][i].id]])
Tables(r) == UNION {ToSet(TablesAt(r, l)) : l \in Levels}

HasTable(tables, t) == \E i \in DOMAIN tables : tables[i].id = t.id

-----------------------------------------------------------------------------
(* Applying registration batches. *)

\* The segment of level l that holds the range of t
HoldingPos(r, l, t) ==
  LET es == r.mr.levels[l]
  IN  IF l = 0 THEN DOMAIN es
      ELSE {i \in DOMAIN es : Start(t) >= es[i].start /\ End(t) <= es[i].end}

\* applyDeRegistrations, for one table: idempotent, a table not found is skipped
DeRegister(r, l, t) ==
  LET ps == HoldingPos(r, l, t) IN
  IF ps = {} THEN r
  ELSE LET i == Min(ps)
           id == r.mr.levels[l][i].id
           q == Load(r, id)
       IN  IF ~Found(r, id) \/ ~HasTable(q.segs[id], t) THEN q
           ELSE LET rest == SelectSeq(q.segs[id], LAMBDA u : u.id # t.id)
                IN  Rewrite(q, l, i, 1, IF rest = <<>> THEN <<>> ELSE <<rest>>, -1)

\* The segment of level l > 0 that t is added to: after the previous one, before the next
RoomPos(r, l, t) ==
  LET es == r.mr.levels[l]
  IN  {i \in DOMAIN es : /\ i = 1 \/ Start(t) > es[i - 1].end
                         /\ i = Len(es) \/ End(t) < es[i + 1].start}

\* Mutant: the next segment is replaced and its tables are forgotten
PartsDropNext(r, l, i, tables) ==
  LET es == r.mr.levels[l] IN
  IF Len(tables) <= MaxEntries THEN [n |-> 1, parts |-> <<tables>>]
  ELSE [n |-> IF i < Len(es) THEN 2 ELSE 1, parts |-> <<Front(tables), <<Last(tables)>>>>]

\* The segments that replace segment i (and the next one) when it grows to tables
Parts(r, l, i, tables) ==
  LET es == r.mr.levels[l]
      n == Len(tables)
      next == r.segs[es[i + 1].id]
  IN  IF n <= MaxEntries THEN [n |-> 1, parts |-> <<tables>>]
      ELSE IF i < Len(es) /\ Len(next) < MaxEntries
      THEN [n |-> 2, parts |-> <<Front(tables), <<Last(tables)>> \o next>>]
      ELSE [n |-> 1, parts |-> <<Front(tables), <<Last(tables)>>>>]

\* applyRegistrations, for one table of a level above 0
RegisterSorted(r, l, t) ==
  LET es == r.mr.levels[l]
      ps == RoomPos(r, l, t)
      i == Min(ps)
      q == Load(r, es[i].id)
      tables == q.segs[es[i].id]
      after == {k \in DOMAIN tables : End(t) < Start(tables[k])}
      at == IF after = {} THEN Len(tables) + 1 ELSE Min(after)
      grown == InsertAt(tables, at, t)
      full == Len(grown) > MaxEntries /\ i < Len(es)
      q2 == IF full THEN Load(q, es[i + 1].id) ELSE q
      p == Parts(q2, l, i, grown)
  IN  IF es = <<>> THEN Rewrite(r, l, 1, 0, <<<<t>>>>, 1)
      ELSE IF ps = {} \/ ~Found(r, es[i].id) THEN [r EXCEPT !.fault = "panic"]
      ELSE IF HasTable(tables, t) THEN q
      ELSE IF after # {} /\ at > 1 /\ End(tables[at - 1]) >= Start(t)
      THEN [q EXCEPT !.fault = "error"]
      ELSE IF full /\ ~Found(q, es[i + 1].id) THEN [q EXCEPT !.fault = "panic"]
      ELSE Rewrite(q2, l, i, p.n, p.parts, 1)

\* applyRegistrations, for one table of level 0: appended to the only segment
RegisterL0(r, t) ==
  LET es == r.mr.levels[0]
      q == Load(r, es[1].id)
      tables == q.segs[es[1].id]
  IN  IF es = <<>> THEN Rewrite(r, 0, 1, 0, <<<<t>>>>, 1)
      ELSE IF ~Found(r, es[1].id) THEN [r EXCEPT !.fault = "panic"]
      ELSE IF HasTable(tables, t) THEN q
      ELSE Rewrite(q, 0, 1, 1, <<Append(tables, t)>>, 1)

Register(r, l, t) == IF l = 0 THEN RegisterL0(r, t) ELSE RegisterSorted(r, l, t)

ApplyOne(r, c) ==
  IF r.fault # "none" THEN r
  ELSE IF c.reg THEN Register(r, c.level, c.table) ELSE DeRegister(r, c.level, c.table)

\* Segments that applying c reads from the object store
Reads(r, c) ==
  LET es == r.mr.levels[c.level]
      ps == IF ~c.reg \/ c.level = 0 THEN HoldingPos(r, c.level, c.table)
            ELSE RoomPos(r, c.level, c.table)
      i == Min(ps)
      next == IF c.reg /\ c.level > 0 /\ i < Len(es) THEN {es[i + 1].id} ELSE {}
  IN  IF ps = {} THEN {}
      ELSE ({es[i].id} \union IF Len(r.segs[es[i].id]) = MaxEntries THEN next ELSE {}) \ Cached(r)

\* An error restores the master record and the pending segments, not the segment cache
RollBack(r, q) == [r EXCEPT !.pre = q.pre, !.lru = q.lru, !.segs = q.segs]

\* doApplyChanges: every outcome; the changes are the deregistrations, then the registrations
DoApplyChanges(r, changes) ==
  LET After(n) == FoldLeft(ApplyOne, r, SubSeq(changes, 1, n))
      all == After(Len(changes))
  IN  {IF all.fault = "error" THEN [ok |-> FALSE, r |-> RollBack(r, all)]
       ELSE [ok |-> TRUE, r |-> [all EXCEPT !.hasChanges = TRUE]]}
      \union {[ok |-> FALSE, r |-> RollBack(r, After(n - 1))] :
                n \in {m \in DOMAIN changes :
                         /\ Reads(After(m - 1), changes[m]) # {}
                         /\ "torn_apply" \in Faults \/ After(m - 1).mr = r.mr}}

-----------------------------------------------------------------------------
(* The commands, replicated and handled in order by the leader's processor. *)

Init ==
  /\ lm = [NewLevelManager EXCEPT !.state = "active"]
  /\ obj = [master |-> EmptyMaster, segs |-> {}, tables |-> {}]
  /\ push = NoPush
  /\ log = <<>>
  /\ pos = 0
  /\ repl = [next |-> 0, callback |-> NoCallback, timer |-> TRUE]
  /\ sending = NoTable
  /\ used = [commands |-> 0, tables |-> 0, crashes |-> 0, flushes |-> 0]
  /\ done = [tables |-> {}, version |-> None]

\* Segment ids no state component refers to any more may be used again
Collect(r, o, p) ==
  LET live == SegIds(r.mr) \union SegIds(o.master) \union o.segs \union Cached(r)
              \union r.toAdd \union r.toDelete
              \union IF p = NoPush THEN {} ELSE p.add \union p.delete \union SegIds(p.mr)
  IN  [r EXCEPT !.segs = Restrict(@, DOMAIN @ \intersect live)]

Ingest(cmd) ==
  /\ used.commands < MaxCommands
  /\ Len(log) - pos < MaxQueued
  /\ log' = Append(log, [seq |-> repl.next, cmd |-> cmd])
  /\ repl' = [repl EXCEPT !.next = @ + 1]

\* RegisterL0Tables: the store has pushed a table and registers it
RegisterL0Tables(ks) ==
  LET t == [id |-> used.tables + 1, keys |-> ks] IN
  /\ lm.state = "active"
  /\ sending = NoTable
  /\ sending' = t
  /\ Ingest([op |-> "add", table |-> t])
  /\ obj' = [obj EXCEPT !.tables = @ \union {t.id}]
  /\ used' = [used EXCEPT !.commands = @ + 1, !.tables = @ + 1]
  /\ UNCHANGED <<lm, push, pos, done>>

\* The registration failed or its answer was lost, and the store sends it again
ResubmitL0Table ==
  /\ lm.state = "active"
  /\ sending # NoTable
  /\ \/ sending \notin done.tables
     \/ HasTable(TablesAt(lm, 0), sending)
     \/ "late_resubmit" \in Faults
  /\ Ingest([op |-> "add", table |-> sending])
  /\ used' = [used EXCEPT !.commands = @ + 1]
  /\ UNCHANGED <<lm, obj, push, pos, sending, done>>

SendLastFlushedVersion(v) ==
  /\ lm.state = "active"
  /\ v > done.version
  /\ \A i \in DOMAIN log : log[i].cmd.op = "version" => v > log[i].cmd.version
  /\ Ingest([op |-> "version", version |-> v])
  /\ used' = [used EXCEPT !.commands = @ + 1]
  /\ UNCHANGED <<sending, lm, obj, push, pos, done>>

\* A worker has processed a job in progress: its output covers the keys of its input
Outputs(ks) ==
  {<<ks>>} \union {<<{k \in ks : k <= c}, {k \in ks : k > c}>> : c \in ks \ {Max(ks)}}

Change(reg, l, t) == [reg |-> reg, level |-> l, table |-> t]

DeRegistrations(job) == [i \in DOMAIN job.tables |-> Change(FALSE, job.tables[i].level, job.tables[i].table)]

ApplyJob(job, regs) ==
  Ingest([op |-> "compact", job |-> job.id, changes |-> DeRegistrations(job) \o regs])

CompactionProcessed(job) ==
  LET keys == UNION {job.tables[i].table.keys : i \in DOMAIN job.tables} IN
  /\ lm.state = "active"
  /\ job \in lm.jobs
  /\ job.attempts < MaxAttempts
  /\ \A i \in DOMAIN job.tables : job.tables[i].table.id \in obj.tables
  /\ IF job.move
     THEN /\ ApplyJob(job, <<Change(TRUE, job.from + 1, job.tables[1].table)>>)
          /\ used' = [used EXCEPT !.commands = @ + 1]
          /\ UNCHANGED obj
     ELSE \E out \in Outputs(keys) :
            LET new == [i \in DOMAIN out |-> [id |-> used.tables + i, keys |-> out[i]]] IN
            /\ ApplyJob(job, [i \in DOMAIN new |-> Change(TRUE, job.from + 1, new[i])])
            /\ obj' = [obj EXCEPT !.tables = @ \union {new[i].id : i \in DOMAIN new}]
            /\ used' = [used EXCEPT !.commands = @ + 1, !.tables = @ + Len(new)]
  /\ lm' = [lm EXCEPT !.jobs = (@ \ {job}) \union {[job EXCEPT !.attempts = @ + 1]}]
  /\ UNCHANGED <<sending, push, pos, done>>

Locked(r) == UNION {{j.tables[i].table.id : i \in DOMAIN j.tables} : j \in r.jobs}

\* A job id no job or command has
FreshJob ==
  Min(0..(Cardinality(lm.jobs) + Len(log)) \ ({j.id : j \in lm.jobs} \union
      {log[i].cmd.job : i \in {k \in DOMAIN log : log[k].cmd.op = "compact"}}))

\* getOverlappingTables: a table of the level overlaps the whole range of the sources
Overlapping(r, l, src) ==
  LET lo == Min({Start(t) : t \in ToSet(src)})
      hi == Max({End(t) : t \in ToSet(src)})
  IN  SelectSeq(TablesAt(r, l), LAMBDA t : Start(t) <= hi /\ End(t) >= lo)

\* scheduleCompaction of the tables src of level l, and a worker polls for the job
ScheduleCompaction(l, src) ==
  LET over == Overlapping(lm, l + 1, src)
      At(lv, s) == [i \in DOMAIN s |-> [level |-> lv, table |-> s[i]]]
      inputs == At(l, Reverse(src)) \o At(l + 1, over)
  IN  /\ lm.state \in {"loaded", "active"}
      /\ \A i \in DOMAIN inputs : inputs[i].table.id \notin Locked(lm)
      /\ lm' = [lm EXCEPT !.jobs = @ \union
                  {[id |-> FreshJob, from |-> l, tables |-> inputs, attempts |-> 0,
                    move |-> l > 0 /\ over = <<>>]}]
      /\ UNCHANGED <<sending, obj, push, log, pos, repl, used, done>>

\* Level 0 is compacted as a whole, a higher level by a job per table
Compact ==
  \/ TablesAt(lm, 0) # <<>> /\ ScheduleCompaction(0, TablesAt(lm, 0))
  \/ \E l \in Levels \ {0, LastLevel} : \E t \in ToSet(TablesAt(lm, l)) :
       ScheduleCompaction(l, <<t>>)

-----------------------------------------------------------------------------
(* Handling a command: checkDuplicate, then the command, then updateReplSeq. *)

Handled(r, entry) == [r EXCEPT !.mr.lastSeq = entry.seq, !.hasChanges = TRUE]

\* Mutant: a job that is no longer in progress is applied
ApplyUnknownJob(r, cmd, seq) == DoApplyChanges(r, cmd.changes)

\* applyCompactionChanges: all outcomes
ApplyCompactionChanges(r, cmd, seq) ==
  LET jobs == {j \in r.jobs : j.id = cmd.job}
      kept == {cmd.changes[i].table.id : i \in {k \in DOMAIN cmd.changes : cmd.changes[k].reg}}
      gone == {[id |-> cmd.changes[i].table.id, seq |-> seq] :
                 i \in {k \in DOMAIN cmd.changes : cmd.changes[k].table.id \notin kept}}
  IN  IF jobs = {} THEN {[ok |-> FALSE, r |-> r]}
      ELSE {IF o.ok THEN [o EXCEPT !.r.jobs = @ \ jobs, !.r.tablesToDelete = @ \union gone]
            ELSE o : o \in DoApplyChanges(r, cmd.changes)}

Outcomes(r, cmd, seq) ==
  CASE cmd.op = "add" -> DoApplyChanges(r, <<Change(TRUE, 0, cmd.table)>>)
    [] cmd.op = "compact" -> ApplyCompactionChanges(r, cmd, seq)
    [] cmd.op = "version" ->
         {[ok |-> TRUE, r |-> [r EXCEPT !.mr.lastFlushed = cmd.version, !.hasChanges = TRUE]]}

Answered(d, cmd) ==
  CASE cmd.op = "add" -> [d EXCEPT !.tables = @ \union {cmd.table}]
    [] cmd.op = "version" -> [d EXCEPT !.version = cmd.version]
    [] cmd.op = "compact" -> d

\* The answer to a registration may be lost
HandleCommand ==
  /\ lm.state = "active"
  /\ lm.fault = "none"
  /\ pos < Len(log)
  /\ LET cmd == log[pos + 1].cmd IN
     \E o \in Outcomes(lm, cmd, log[pos + 1].seq) :
       /\ lm' = Collect(Handled(o.r, log[pos + 1]), obj, push)
       /\ done' = IF o.ok THEN Answered(done, cmd) ELSE done
       /\ \/ UNCHANGED sending
          \/ o.ok /\ cmd.op = "add" /\ cmd.table = sending /\ sending' = NoTable
  /\ pos' = pos + 1
  /\ UNCHANGED <<obj, push, log, repl, used>>

\* A new leader reprocesses the replicated commands that its master record does not cover
ReprocessCommand ==
  /\ lm.state = "loaded"
  /\ lm.fault = "none"
  /\ pos < Len(log)
  /\ IF log[pos + 1].seq <= lm.mr.lastSeq
     THEN UNCHANGED <<lm, done>>
     ELSE \E o \in Outcomes(lm, log[pos + 1].cmd, log[pos + 1].seq) :
            /\ lm' = Collect(Handled(o.r, log[pos + 1]), obj, push)
            /\ done' = IF o.ok THEN Answered(done, log[pos + 1].cmd) ELSE done
  /\ pos' = pos + 1
  /\ UNCHANGED <<sending, obj, push, log, repl, used>>

Activate ==
  /\ lm.state = "loaded"
  /\ pos = Len(log)
  /\ lm' = [lm EXCEPT !.state = "active"]
  /\ UNCHANGED <<sending, obj, push, log, pos, repl, used, done>>

-----------------------------------------------------------------------------
(* Flush: the state is copied under the lock and pushed outside it. *)

\* checkFlushLevelManagerBatches: marks the checkpoint and asks for a callback
AddFlushedCallback ==
  /\ lm.state = "active"
  /\ repl.timer
  /\ repl' = [repl EXCEPT !.timer = FALSE, !.callback = IF pos = 0 THEN None ELSE log[pos].seq]
  /\ UNCHANGED <<sending, lm, obj, push, log, pos, used, done>>

FlushBegin(shutdown) ==
  /\ push = NoPush
  /\ used.flushes < MaxFlushes
  /\ IF shutdown THEN lm.state = "active" /\ pos = Len(log) /\ sending = NoTable
     ELSE lm.state \in {"loaded", "active"} /\ lm.hasChanges
  /\ LET mr == IF shutdown THEN [lm.mr EXCEPT !.lastSeq = None] ELSE lm.mr IN
     /\ push' = [stage |-> "delete", mr |-> mr, add |-> lm.toAdd, delete |-> lm.toDelete,
                 callback |-> repl.callback, shutdown |-> shutdown]
     /\ lm' = [lm EXCEPT !.mr = mr, !.toAdd = {}, !.toDelete = {}, !.hasChanges = FALSE,
                         !.state = IF shutdown THEN "shutdown" ELSE @]
  /\ used' = [used EXCEPT !.flushes = @ + 1]
  /\ UNCHANGED <<sending, obj, log, pos, repl, done>>

\* pushSegmentsAndMasterRecord: deletes segments, adds segments, puts the master record
PushStage ==
  /\ \/ /\ push.stage = "delete"
        /\ push' = [push EXCEPT !.stage = "add"]
        /\ obj' = [obj EXCEPT !.segs = @ \ push.delete]
     \/ /\ push.stage = "add"
        /\ push' = [push EXCEPT !.stage = "master"]
        /\ obj' = [obj EXCEPT !.segs = @ \union push.add]
     \/ /\ push.stage = "master"
        /\ push' = [push EXCEPT !.stage = "pushed"]
        /\ obj' = [obj EXCEPT !.master = push.mr]
  /\ UNCHANGED <<sending, lm, log, pos, repl, used, done>>

\* Mutant: the segments are not put back
PushFailsForgets ==
  /\ push.stage = "delete"
  /\ push' = NoPush
  /\ lm' = [lm EXCEPT !.hasChanges = TRUE]
  /\ UNCHANGED <<sending, obj, log, pos, repl, used, done>>

\* The object store is unavailable: the segments are put back and the flush is retried
PushFails ==
  /\ push.stage = "delete" \/ (push.stage \in {"add", "master"} /\ "torn_push" \in Faults)
  /\ ~push.shutdown
  /\ push' = NoPush
  /\ lm' = [lm EXCEPT !.toAdd = @ \union push.add, !.toDelete = @ \union push.delete,
                      !.hasChanges = TRUE]
  /\ UNCHANGED <<sending, obj, log, pos, repl, used, done>>

\* Mutant: all commands handled so far are dropped
FlushedHandled == pos

\* The number of commands the replicator drops on the flushed callback: those up to the
\* checkpoint that was marked before the flush
FlushedCommands == Cardinality({i \in DOMAIN log : log[i].seq <= push.callback})

\* segmentCache.flush
FlushCache(r) == [r EXCEPT !.pre = {}]

FlushEnd ==
  /\ push.stage = "pushed"
  /\ push' = NoPush
  /\ IF push.shutdown
     THEN /\ lm' = [NewLevelManager EXCEPT !.segs = lm.segs]
          /\ log' = <<>> /\ pos' = 0
          /\ repl' = [next |-> 0, callback |-> NoCallback, timer |-> TRUE]
     ELSE /\ lm' = Collect(FlushCache(lm), obj, NoPush)
          /\ log' = SubSeq(log, FlushedCommands + 1, Len(log))
          /\ pos' = pos - FlushedCommands
          /\ repl' = [repl EXCEPT !.callback = NoCallback, !.timer = @ \/ push.callback # NoCallback]
  /\ UNCHANGED <<sending, obj, used, done>>

\* maybeDeleteTables, after SSTableDeleteDelay.  Unless "early_delete" is a fault the
\* delay is long enough for the compaction that replaced the table to have been flushed.
MaybeDeleteTable(entry) ==
  /\ lm.state \in {"loaded", "active"}
  /\ "early_delete" \in Faults \/ entry.seq <= obj.master.lastSeq
  /\ obj' = [obj EXCEPT !.tables = @ \ {entry.id}]
  /\ lm' = [lm EXCEPT !.tablesToDelete = @ \ {entry}]
  /\ UNCHANGED <<sending, push, log, pos, repl, used, done>>

\* The least recently used segments leave the LRU cache
Evict(id) ==
  /\ \/ id \in obj.segs
     \/ id \in lm.pre /\ push = NoPush
     \/ "small_cache" \in Faults
  /\ lm' = Collect([lm EXCEPT !.lru = @ \ {id}], obj, push)
  /\ UNCHANGED <<sending, obj, push, log, pos, repl, used, done>>

-----------------------------------------------------------------------------
(* The leader's node is lost; the next leader starts a level manager. *)

Crash ==
  /\ lm.state \in {"loaded", "active"}
  /\ used.crashes < MaxCrashes
  /\ push.stage \in {"none", "delete", "pushed"} \/ "torn_push" \in Faults
  /\ lm' = [NewLevelManager EXCEPT !.segs = lm.segs]
  /\ push' = NoPush
  /\ pos' = 0
  /\ repl' = [repl EXCEPT !.callback = NoCallback, !.timer = TRUE]
  /\ used' = [used EXCEPT !.crashes = @ + 1]
  /\ UNCHANGED <<sending, obj, log, done>>

\* Start: the stored master record is loaded
StartLevelManager ==
  /\ lm.state = "created"
  /\ lm' = Collect([lm EXCEPT !.state = "loaded", !.mr = obj.master], obj, NoPush)
  /\ UNCHANGED <<sending, obj, push, log, pos, repl, used, done>>

Next ==
  \/ \E ks \in NewTables : RegisterL0Tables(ks)
  \/ ResubmitL0Table
  \/ \E v \in Versions : SendLastFlushedVersion(v)
  \/ \E job \in lm.jobs : CompactionProcessed(job)
  \/ Compact
  \/ HandleCommand \/ ReprocessCommand \/ Activate
  \/ AddFlushedCallback
  \/ \E shutdown \in BOOLEAN : FlushBegin(shutdown)
  \/ PushStage \/ PushFails \/ FlushEnd
  \/ \E entry \in lm.tablesToDelete : MaybeDeleteTable(entry)
  \/ \E id \in lm.lru : Evict(id)
  \/ Crash \/ StartLevelManager

Spec == Init /\ [][Next]_vars

-----------------------------------------------------------------------------
(* The registry alone: batches applied directly to level 1, in any order of keys. *)

ApplyChangesNoCheck(changes) ==
  /\ lm.fault = "none"
  /\ \E o \in DoApplyChanges(lm, changes) : lm' = Collect(o.r, obj, push)
  /\ UNCHANGED <<sending, obj, push, log, pos, repl, used>>

Disjoint(S) == \A t, u \in S : t = u \/ End(t) < Start(u) \/ End(u) < Start(t)

\* A batch that deregisters at most two tables and registers at most one, in their place
\* or elsewhere; done.tables is what must be registered
SegmentNext ==
  \E ks \in SegmentTables \union {{}}, gone \in {D \in SUBSET done.tables : Cardinality(D) <= 2} :
    LET new == IF ks = {} THEN {} ELSE {[id |-> ks, keys |-> ks]}
        all == (done.tables \ gone) \union new
        dereg == SetToSeq({Change(FALSE, 1, t) : t \in gone})
        reg == SetToSeq({Change(TRUE, 1, t) : t \in new})
    IN  /\ new \intersect done.tables = {}
        /\ Disjoint(all)
        /\ ApplyChangesNoCheck(dereg \o reg)
        /\ done' = [done EXCEPT !.tables = all]

-----------------------------------------------------------------------------
(* Properties. *)

Running == lm.state \in {"loaded", "active"}

\* What Validate (levels/validate.go) checks of every level after each state change: in
\* levels above 0 the segments, and the tables in a segment, are in key order without
\* overlap, no segment is empty or has more than MaxEntries tables, an entry of the
\* master record has the exact range of its segment, and the table counts, on which
\* compaction and the blocking of level 0 rest, count the tables.  Level 0 stays in the
\* order of registration, which readers and compaction take for the order of age, also
\* when commands are reprocessed after a failover.
Valid(r) ==
  \A l \in Levels :
    LET es == r.mr.levels[l]
        ts == TablesAt(r, l)
    IN  /\ r.mr.counts[l] = Len(ts)
        /\ \A i \in DOMAIN es :
             LET tables == r.segs[es[i].id] IN
             /\ tables # <<>>
             /\ l > 0 => Len(tables) <= MaxEntries
             /\ es[i].start = Min({Start(t) : t \in ToSet(tables)})
             /\ es[i].end = Max({End(t) : t \in ToSet(tables)})
        /\ l > 0 => \A i, j \in DOMAIN ts : i < j => End(ts[i]) < Start(ts[j])
RegistryValid ==
  /\ Valid(lm) /\ lm.fault = "none"
  /\ LET ts == TablesAt(lm, 0) IN \A i, j \in DOMAIN ts : i < j => ts[i].id < ts[j].id

\* The registry can always be read and recovered.  Every segment that the level manager's
\* master record names is cached or stored: one that cannot be read is taken for one
\* already deregistered, or ends the process.  And whenever its node may be lost, a new
\* leader finds every segment that the stored master record names.
RegistryRecoverable ==
  /\ Running => \A id \in SegIds(lm.mr) : Found(lm, id)
  /\ push.stage \in {"none", "pushed"} => SegIds(obj.master) \subseteq obj.segs

=============================================================================
