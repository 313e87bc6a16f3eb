----------------------------- MODULE Compaction -----------------------------
(***************************************************************************)
(* Scheduling of compaction by the level manager                           *)
(* (levels/compaction.go, level_manager.go) and the workers that run the   *)
(* jobs (levels/compaction_worker.go): jobs and the tables they lock, the  *)
(* job queue and the polling workers, job and poll timeouts, closed        *)
(* connections, level 0 registrations that block while level 0 is full,    *)
(* and the removal of dead version ranges after a failure.                 *)
(*                                                                         *)
(* lm is the LevelManager with its master record.  A method of it is an    *)
(* operator from lm to the lm it leaves behind (or to the set of them,     *)
(* where the code depends on the order of a map or on scores).  A table is *)
(* its id and its entries; an entry's value is the number of the write     *)
(* that made it.  How the segments hold the tables is in Registry; how the *)
(* merge drops old versions, tombstones and expired prefixes is in         *)
(* MergingIterator, so here all versions are to be kept, there are no      *)
(* tombstones and no prefix expires.                                       *)
(***************************************************************************)
EXTENDS Integers, Sequences, FiniteSets, FiniteSetsExt, Functions

CONSTANTS
    Workers,        \* compaction workers, each with a connection of its own
    NumKeys,        \* keys are 1..NumKeys
    KeySets,        \* sets of keys a store's table may have
    TableKeys,      \* keys that fit into a table (CompactionMaxSSTableSize)
    Trigger(_),     \* levelMaxTablesTrigger
    MaxL0,          \* L0MaxTablesBeforeBlocking
    MaxLevels,      \* bound: levels compaction may open
    MaxTables,      \* bound: tables the stores write
    MaxFailures,    \* bound: failures of the cluster
    MaxFaults,      \* bound: timeouts, failed jobs and lost workers
    Faults          \* faults the code does not cope with, see README

ASSUME BoundsAssumption ==
    /\ NumKeys \in Nat \ {0} /\ TableKeys \in Nat \ {0} /\ MaxL0 \in Nat \ {0}
    /\ KeySets \subseteq (SUBSET (1..NumKeys)) \ {{}}
    /\ {MaxLevels, MaxTables, MaxFailures, MaxFaults} \subseteq Nat
    /\ \A l \in 0..MaxLevels : Trigger(l) \in Nat
    /\ Faults \subseteq {"rewrite", "late_add", "apply_error", "send_error"}

VARIABLES
    lm,          \* the level manager
    commands,    \* ApplyChanges commands of level 0 tables being replicated
    cluster,     \* the cluster's version
    rollback,    \* the dead range a failure must still register, at most one
    tables,      \* number of tables written
    version,     \* the version of the last write
    acked,       \* entries of the tables registered so far
    registered,  \* dead ranges registered so far
    faults

vars == <<lm, commands, cluster, rollback, tables, version, acked, registered, faults>>

NoRange == [from |-> 0, to |-> 0]

Init ==
    /\ lm = [levels |-> <<<<>>>>, dead |-> <<>>, locked |-> {}, queue |-> <<>>,
             running |-> {}, handed |-> {}, pollers |-> <<>>, pending |-> <<0>>,
             removing |-> FALSE, all |-> TRUE, left |-> 0, inner |-> <<0>>, many |-> FALSE,
             inflight |-> 0, adds |-> <<>>, cluster |-> 0, next |-> MaxTables + 1]
    /\ commands = <<>> /\ cluster = 1 /\ rollback = NoRange
    /\ tables = 0 /\ version = 0 /\ acked = {} /\ registered = {} /\ faults = 0

-----------------------------------------------------------------------------
(* Tables and levels *)

\* A level beyond the last one is empty.
Level(m, l) == IF l < Len(m.levels) THEN m.levels[l + 1] ELSE <<>>

\* The elements of s that are in T, in their order.
Kept(s, T) ==
    LET kept[i \in 0..Len(s)] ==
            IF i = 0 THEN <<>>
            ELSE IF s[i] \in T THEN Append(kept[i - 1], s[i]) ELSE kept[i - 1]
    IN  kept[Len(s)]

\* The sequences with the elements of S, each once.
Orders(S) == {s \in [1..Cardinality(S) -> S] : IsInjective(s)}
SetToSeq(S) == CHOOSE s \in Orders(S) : TRUE

Reverse(s) == [i \in 1..Len(s) |-> s[Len(s) - i + 1]]

At(s, l) == IF l < Len(s) THEN s[l + 1] ELSE 0

Put(s, l, x) == [i \in 1..(IF l < Len(s) THEN Len(s) ELSE l + 1) |->
                    IF i = l + 1 THEN x ELSE At(s, i - 1)]

SmallestKey(T) == CHOOSE k \in {e.key : e \in UNION {t.data : t \in T}} :
    \A e \in UNION {t.data : t \in T} : k <= e.key

LargestKey(T) == CHOOSE k \in {e.key : e \in UNION {t.data : t \in T}} :
    \A e \in UNION {t.data : t \in T} : k >= e.key

\* getOverlappingTables for the overall range of the tables, versions excluded.
GetOverlappingTables(m, level, T) ==
    Kept(Level(m, level), {t \in Range(Level(m, level)) : /\ SmallestKey({t}) <= LargestKey(T)
                                                          /\ LargestKey({t}) >= SmallestKey(T)})

InRange(r, e) == e.ver \in r.from..r.to

\* A table may hold data of the range: its MinVersion..MaxVersion meets it.
Matches(r, t) ==
    /\ \E e \in t.data : e.ver >= r.from
    /\ \E e \in t.data : e.ver <= r.to

Ids(job) == {t.id : t \in Range(job.src) \cup Range(job.over)}

-----------------------------------------------------------------------------
(* Jobs *)

\* A job goes to the poller that came last, if any, else into the queue.
QueueOrDespatchJob(m, job) ==
    LET n == Len(m.pollers)
        p == m.pollers[n]
        counted == [m EXCEPT !.pending = Put(m.pending, job.from, At(m.pending, job.from) + 1)]
    IN  IF n = 0
        THEN [counted EXCEPT !.queue = Append(@, job)]
        ELSE [counted EXCEPT !.pollers = SubSeq(@, 1, n - 1),
                             !.running = @ \cup {[job |-> job, conn |-> p]},
                             !.handed = IF p.up THEN @ \cup {[to |-> p.worker, job |-> job]} ELSE @]

NewJob(m, level, src, over, dead) ==
    [id |-> m.next, from |-> level, src |-> src, over |-> over, dead |-> dead,
     move |-> level > 0 /\ over = <<>> /\ dead = <<>>]

LockTablesForJob(m, job) == [m EXCEPT !.next = @ + 1, !.locked = @ \cup Ids(job)]

\* A job is made, locks its tables and is queued or dispatched.  The code makes all the
\* jobs before it dispatches the first one; the one does not depend on the other.
AddJob(m, job) == QueueOrDespatchJob(LockTablesForJob(m, job), job)

AnyLocked(m, T) == \E t \in T : t.id \in m.locked

\* One table of a level above 0; a is the result so far: the level manager, the number
\* of jobs, and whether a table had to be left out because it is locked.
ScheduleTable(a, level, dead, t) ==
    LET over == GetOverlappingTables(a.lm, level + 1, {t})
    IN  IF AnyLocked(a.lm, {t} \cup Range(over)) THEN [a EXCEPT !.locked = TRUE]
        ELSE [a EXCEPT !.lm = AddJob(a.lm, NewJob(a.lm, level, <<t>>, over, dead)), !.count = @ + 1]

\* Variant of ScheduleL0: the tables stay in the order in which they come.
ScheduleL0InOrder(a, dead, T) ==
    LET over == GetOverlappingTables(a.lm, 1, Range(T))
    IN  IF AnyLocked(a.lm, Range(T) \cup Range(over)) THEN [a EXCEPT !.locked = TRUE]
        ELSE [a EXCEPT !.lm = AddJob(a.lm, NewJob(a.lm, 0, T, over, dead)), !.count = @ + 1]

\* Level 0: all the tables in one job, newest first; the tables come oldest first.
ScheduleL0(a, dead, T) ==
    LET over == GetOverlappingTables(a.lm, 1, Range(T))
    IN  IF AnyLocked(a.lm, Range(T) \cup Range(over)) THEN [a EXCEPT !.locked = TRUE]
        ELSE [a EXCEPT !.lm = AddJob(a.lm, NewJob(a.lm, 0, Reverse(T), over, dead)), !.count = @ + 1]

\* A job per table for a level above 0.
ScheduleTables(a, level, dead, T) ==
    LET made[i \in 0..Len(T)] ==
            IF i = 0 THEN a ELSE ScheduleTable(made[i - 1], level, dead, T[i])
    IN  made[Len(T)]

\* The completions of the jobs of a removal are counted by a future of the level.
CountLevel(s, level, dead) ==
    IF dead = <<>> THEN s ELSE [s EXCEPT !.lm.inner = Put(@, level, s.count)]

ScheduleCompaction(m, level, T, dead) ==
    LET none == [lm |-> m, count |-> 0, locked |-> FALSE]
    IN  CountLevel(IF level = 0 THEN ScheduleL0(none, dead, T)
                   ELSE ScheduleTables(none, level, dead, T), level, dead)

\* The tables of a level to be rewritten to remove range r.  All of level 0 if one of
\* its tables matches, and then from newest to oldest.
TablesToRemove(m, level, r) ==
    LET T == Level(m, level)
    IN  IF level > 0 THEN Kept(T, {t \in Range(T) : Matches(r, t)})
        ELSE IF \E t \in Range(T) : Matches(r, t) THEN Reverse(T) ELSE <<>>

LevelsToRemove(m, r) ==
    Kept([i \in 1..Len(m.levels) |-> i - 1],
         {l \in 0..(Len(m.levels) - 1) : TablesToRemove(m, l, r) # <<>>})

\* One more level of a removal.
AddRemoval(a, s) ==
    [lm |-> s.lm, count |-> a.count + s.count, locked |-> a.locked \/ s.locked,
     many |-> a.many \/ s.count > 1]

ScheduleLevel(a, m, l, range) ==
    AddRemoval(a, ScheduleCompaction(a.lm, l, TablesToRemove(m, l, range), <<range>>))

\* The jobs that remove range from the tables of m.
ScheduleRemoval(m, range) ==
    LET levels == LevelsToRemove(m, range)
        done[i \in 0..Len(levels)] ==
            IF i = 0 THEN [lm |-> m, count |-> 0, locked |-> FALSE, many |-> FALSE]
            ELSE ScheduleLevel(done[i - 1], m, levels[i], range)
    IN  done[Len(levels)]

\* The first dead range that tables have data of, 0 if there is none.
FirstToRemove(m) ==
    LET found == {i \in 1..Len(m.dead) : LevelsToRemove(m, m.dead[i]) # <<>>}
    IN  IF found = {} THEN 0 ELSE Min(found)

Removing(done) ==
    [done.lm EXCEPT !.all = ~done.locked, !.left = done.count, !.removing = done.count > 0,
                    !.many = done.many]

\* maybeScheduleRemoveDeadVersionEntries: ranges no table has data of are dropped;
\* the first one left is removed by compacting every table that may hold its data.
\* left is the count of the outer CountDownFuture, inner[level + 1] of the one that
\* scheduleCompaction wraps around it for the jobs of a level.  many records, for the
\* properties, that a level got more than one job.
MaybeScheduleRemoveDeadVersionEntries(m) ==
    LET first == FirstToRemove(m)
    IN  IF m.removing THEN m
        ELSE IF first = 0 THEN [m EXCEPT !.dead = <<>>]
        ELSE Removing(ScheduleRemoval([m EXCEPT !.dead = SubSeq(@, first, Len(@))], m.dead[first]))

Available(m, l) == Len(Level(m, l)) - At(m.pending, l)

\* chooseLevelToCompact: a level with the largest ratio of tables to trigger; the
\* level counts are a map, so any of several such levels.
ChooseLevelToCompact(m) ==
    LET over == {l \in 0..(Len(m.levels) - 1) : Available(m, l) > Trigger(l)}
    IN  {l \in over : \A k \in over :
            Available(m, l) * Trigger(k) >= Available(m, k) * Trigger(l)}

\* chooseTablesToCompact: all of level 0, else the tables with the best scores, in
\* the order of the scores, which come from data that is not modelled.
ChooseTablesToCompact(m, l) ==
    LET n == Available(m, l) - Trigger(l)
    IN  IF l = 0 THEN {Level(m, 0)}
        ELSE {s \in [1..n -> Range(Level(m, l))] : Cardinality(Range(s)) = n}

ScheduleChosen(m) ==
    LET levels == ChooseLevelToCompact(m)
    IN  IF levels = {} THEN {m}
        ELSE UNION {{ScheduleCompaction(m, l, T, <<>>).lm : T \in ChooseTablesToCompact(m, l)} :
                        l \in levels}

MaybeScheduleCompaction(m) ==
    ScheduleChosen(IF m.dead = <<>> THEN m ELSE MaybeScheduleRemoveDeadVersionEntries(m))

\* Variant of CountDown: the range is dropped also when tables were locked.
CountDownDrops(m, job) ==
    LET i == At(m.inner, job.from) - 1
        n == [m EXCEPT !.inner = Put(m.inner, job.from, i)]
    IN  IF job.dead = <<>> THEN m
        ELSE IF i > 0 THEN n
        ELSE IF m.left > 1 THEN [n EXCEPT !.left = @ - 1]
        ELSE [n EXCEPT !.left = 0, !.removing = FALSE, !.dead = Tail(@)]

\* Variant of CountDown: removeDeadVersionsInProgress is reset with the range only.
CountDownKeeps(m, job) ==
    LET i == At(m.inner, job.from) - 1
        n == [m EXCEPT !.inner = Put(m.inner, job.from, i)]
    IN  IF job.dead = <<>> THEN m
        ELSE IF i > 0 THEN n
        ELSE IF m.left > 1 THEN [n EXCEPT !.left = @ - 1]
        ELSE [n EXCEPT !.left = 0, !.removing = ~m.all, !.dead = IF m.all THEN Tail(@) ELSE @]

\* The two CountDownFutures of a removal, when a job of it completes.
CountDown(m, job) ==
    LET i == At(m.inner, job.from) - 1
        n == [m EXCEPT !.inner = Put(m.inner, job.from, i)]
    IN  IF job.dead = <<>> THEN m
        ELSE IF i > 0 THEN n
        ELSE IF m.left > 1 THEN [n EXCEPT !.left = @ - 1]
        ELSE [n EXCEPT !.left = 0, !.removing = FALSE, !.dead = IF m.all THEN Tail(@) ELSE @]

Running(m, id) == CHOOSE r \in m.running : r.job.id = id

\* compactionComplete
CompactionComplete(m, id) ==
    LET r == Running(m, id)
        n == [m EXCEPT !.running = @ \ {r}, !.locked = @ \ Ids(r.job),
                       !.pending = Put(@, r.job.from, At(@, r.job.from) - 1)]
    IN  MaybeScheduleCompaction(CountDown(n, r.job))

\* Variant of CancelInProgressJob: pendingCompactions is not lowered.
CancelInProgressJobCounts(m, r) == QueueOrDespatchJob([m EXCEPT !.running = @ \ {r}], r.job)

\* cancelInProgressJob: the job is offered again under the same id.
CancelInProgressJob(m, r) ==
    QueueOrDespatchJob(
        [m EXCEPT !.running = @ \ {r}, !.pending = Put(@, r.job.from, At(@, r.job.from) - 1)], r.job)

CancelInProgressJobs(m, jobs) ==
    LET left[i \in 0..Len(jobs)] ==
            IF i = 0 THEN m ELSE CancelInProgressJob(left[i - 1], jobs[i])
    IN  left[Len(jobs)]

-----------------------------------------------------------------------------
(* Level 0 registrations *)

\* Variant of GetL0FreeSpace: registrations under way take no space.
GetL0FreeSpaceNow(m) == MaxL0 - Len(Level(m, 0))

GetL0FreeSpace(m) == MaxL0 - Len(Level(m, 0)) - m.inflight

\* maybeDespatchPendingL0Adds; the adds sent are the first of m.adds.
ToDespatch(m) ==
    LET free == GetL0FreeSpace(m)
    IN  IF free <= 0 THEN 0 ELSE IF Len(m.adds) < free THEN Len(m.adds) ELSE free

Despatched(m) == SubSeq(m.adds, 1, ToDespatch(m))

MaybeDespatchPendingL0Adds(m) ==
    [m EXCEPT !.inflight = @ + ToDespatch(m),
              !.adds = SubSeq(@, ToDespatch(m) + 1, Len(@))]

\* RegisterL0Tables: store of cluster version c registers a table.  A version too
\* low is refused; a full level 0 makes the registration wait.
RegisterL0Tables(c, t) ==
    LET m == [lm EXCEPT !.cluster = c]
    IN  /\ c >= lm.cluster
        /\ IF GetL0FreeSpace(lm) >= 1
           THEN /\ lm' = [m EXCEPT !.inflight = @ + 1]
                /\ commands' = Append(commands, t)
           ELSE /\ lm' = [m EXCEPT !.adds = Append(@, t)]
                /\ UNCHANGED commands

\* A store writes a table, of a new version or of the version it wrote before (if no dead
\* range is registered, unless "rewrite" \in Faults), with the current cluster version
\* unless it has not noticed the failure yet ("late_add": the registration is under way,
\* or queued for lack of space in level 0, when the range is registered).
Write(K, c, v) ==
    /\ tables < MaxTables
    /\ \/ /\ c = cluster /\ rollback = NoRange
          /\ \/ v = version + 1
             \/ /\ v = version /\ v > 0 /\ \A r \in registered : v \notin r.from..r.to
                /\ "rewrite" \in Faults \/ lm.dead = <<>>
       \/ c = cluster - 1 /\ rollback # NoRange /\ v = version /\ "late_add" \in Faults
    /\ RegisterL0Tables(c, [id |-> tables + 1,
                            data |-> {[key |-> k, ver |-> v, write |-> tables + 1] : k \in K}])
    /\ tables' = tables + 1 /\ version' = v
    /\ UNCHANGED <<cluster, rollback, acked, registered, faults>>

\* ApplyChanges of a level 0 table, once the command is replicated.
ApplyL0 ==
    /\ commands # <<>>
    /\ LET t == Head(commands)
           m == [lm EXCEPT !.inflight = @ - 1, !.levels[1] = Append(@, t)]
       IN  /\ lm' \in MaybeScheduleCompaction(m)
           /\ acked' = acked \cup t.data
    /\ commands' = Tail(commands)
    /\ UNCHANGED <<cluster, rollback, tables, version, registered, faults>>

\* The command fails to replicate ("send_error"), or its application fails
\* ("apply_error"): ApplyChanges has then already lowered the count that the
\* completion of sendApplyChangesReliably lowers.
ApplyL0Fails ==
    /\ commands # <<>> /\ faults < MaxFaults
    /\ \E f \in {"send_error", "apply_error"} \cap Faults :
           lm' = [lm EXCEPT !.inflight = @ - (IF f = "apply_error" THEN 2 ELSE 1)]
    /\ commands' = Tail(commands) /\ faults' = faults + 1
    /\ UNCHANGED <<cluster, rollback, tables, version, acked, registered>>

-----------------------------------------------------------------------------
(* Failures of the cluster and dead versions *)

\* The cluster rolls back to version v: all later versions are dead.
ClusterFails(v) ==
    /\ cluster <= MaxFailures /\ rollback = NoRange
    /\ \A r \in registered : v >= r.to
    /\ v < version
    /\ cluster' = cluster + 1
    /\ rollback' = [from |-> v + 1, to |-> version]
    /\ UNCHANGED <<lm, commands, tables, version, acked, registered, faults>>

\* Level 0, or what is on its way to it, has two entries of the same key and version.
Rewritten ==
    LET T == Range(Level(lm, 0)) \cup Range(commands) \cup Range(lm.adds)
    IN  \E s, t \in T : s # t /\ \E e \in s.data, f \in t.data : <<e.key, e.ver>> = <<f.key, f.ver>>

\* RegisterDeadVersionRange.  Without "late_add" no registration of the range is under
\* way or waiting; without "rewrite" level 0 has no entry twice.
RegisterDeadVersionRange ==
    /\ rollback # NoRange
    /\ \/ "late_add" \in Faults
       \/ \A t \in Range(commands) \cup Range(lm.adds) : \A e \in t.data : ~InRange(rollback, e)
    /\ "rewrite" \in Faults \/ ~Rewritten
    /\ LET m == [lm EXCEPT !.cluster = cluster, !.dead = Append(@, rollback)]
       IN  lm' = MaybeScheduleRemoveDeadVersionEntries(m)
    /\ registered' = registered \cup {rollback}
    /\ rollback' = NoRange
    /\ UNCHANGED <<commands, cluster, tables, version, acked, faults>>

-----------------------------------------------------------------------------
(* Workers *)

Idle(w) ==
    /\ \A h \in lm.handed : h.to # w
    /\ [worker |-> w, up |-> TRUE] \notin Range(lm.pollers)

\* pollForJob: the first job of the queue, or the worker waits.
PollForJob(w) ==
    /\ Idle(w)
    /\ LET conn == [worker |-> w, up |-> TRUE]
           job == Head(lm.queue)
       IN  lm' = IF lm.queue = <<>> THEN [lm EXCEPT !.pollers = Append(@, conn)]
                 ELSE [lm EXCEPT !.queue = Tail(@),
                                 !.running = @ \cup {[job |-> job, conn |-> conn]},
                                 !.handed = @ \cup {[to |-> w, job |-> job]}]
    /\ UNCHANGED <<commands, cluster, rollback, tables, version, acked, registered, faults>>

\* The data a job leaves: of several entries of a key and version the leftmost
\* table's.  Dead ranges are given for the tables of the source level only.
MergeSSTables(job) ==
    LET runs == [i \in 1..Len(job.src) |->
                    {e \in job.src[i].data : \A r \in Range(job.dead) : ~InRange(r, e)}]
                \o <<UNION {t.data : t \in Range(job.over)}>>
    IN  UNION {{e \in runs[i] : \A j \in 1..(i - 1) :
                    \A f \in runs[j] : <<f.key, f.ver>> # <<e.key, e.ver>>} : i \in 1..Len(runs)}

\* The number of the new table that has entry e, and that table.
Part(e) == (e.key - 1) \div TableKeys
NewTable(data, next, p) == [id |-> next + p, data |-> {e \in data : Part(e) = p}]

\* processJob: a move keeps the table, a merge makes new ones of at most TableKeys keys.
ProcessJob(job, next) ==
    LET data == MergeSSTables(job)
    IN  IF job.move THEN Range(job.src)
        ELSE {NewTable(data, next, p) : p \in {Part(e) : e \in data}}

SortedByKey(T) ==
    LET sorted[k \in 0..NumKeys] ==
            IF k = 0 THEN <<>>
            ELSE sorted[k - 1] \o SetToSeq({t \in T : SmallestKey({t}) = k})
    IN  sorted[NumKeys]

\* The tables of level l that are not the job's.
Others(m, l, job) == Kept(Level(m, l), {t \in Range(Level(m, l)) : t.id \notin Ids(job)})

\* doApplyChanges of a job's result: the level below stays sorted by key.
DoApplyChanges(m, job) ==
    LET dest == SortedByKey(Range(Others(m, job.from + 1, job)) \cup ProcessJob(job, m.next))
        n == IF job.from + 2 > Len(m.levels) THEN job.from + 2 ELSE Len(m.levels)
    IN  [m EXCEPT !.next = @ + NumKeys,
                  !.levels = [i \in 1..n |-> IF i = job.from + 1 THEN Others(m, job.from, job)
                                             ELSE IF i = job.from + 2 THEN dest
                                             ELSE Level(m, i - 1)]]

\* The worker is done and sends the result: applyCompactionChanges, which refuses
\* the result of a job that is not in progress.
ApplyChanges(w) ==
    /\ \E h \in lm.handed :
        /\ h.to = w /\ h.job.from + 2 <= MaxLevels
        /\ LET m == [lm EXCEPT !.handed = @ \ {h}]
           IN  IF \E r \in lm.running : r.job.id = h.job.id
               THEN \E n \in CompactionComplete(DoApplyChanges(m, h.job), h.job.id) :
                        /\ lm' = MaybeDespatchPendingL0Adds(n)
                        /\ commands' = commands \o Despatched(n)
               ELSE lm' = m /\ UNCHANGED commands
    /\ UNCHANGED <<cluster, rollback, tables, version, acked, registered, faults>>

\* processJob, or the application of its result, fails: the worker polls again and
\* the job is left to its timeout.
JobFails(w) ==
    /\ faults < MaxFaults /\ faults' = faults + 1
    /\ \E h \in lm.handed : h.to = w /\ lm' = [lm EXCEPT !.handed = @ \ {h}]
    /\ UNCHANGED <<commands, cluster, rollback, tables, version, acked, registered>>

\* No job came within the poll timeout.
PollerTimeout(w) ==
    /\ \E i \in 1..Len(lm.pollers) : /\ lm.pollers[i].worker = w
                                      /\ lm' = [lm EXCEPT !.pollers = SubSeq(@, 1, i - 1) \o SubSeq(@, i + 1, Len(@))]
    /\ UNCHANGED <<commands, cluster, rollback, tables, version, acked, registered, faults>>

\* The job timer fires, be it that nobody works on the job any more (always possible)
\* or that the worker is slow.
JobTimeout ==
    /\ \E r \in lm.running :
        /\ IF \E h \in lm.handed : h.job.id = r.job.id
           THEN faults < MaxFaults /\ faults' = faults + 1
           ELSE UNCHANGED faults
        /\ lm' = CancelInProgressJob(lm, r)
    /\ UNCHANGED <<commands, cluster, rollback, tables, version, acked, registered>>

\* A worker's node dies.  connectionClosed cancels its jobs; its poll stays queued, and
\* a job given to it waits for the job timeout.
WorkerLost(w) ==
    LET conn == [worker |-> w, up |-> TRUE]
        gone == [conn EXCEPT !.up = FALSE]
        m == [lm EXCEPT !.pollers = [i \in DOMAIN @ |-> IF @[i] = conn THEN gone ELSE @[i]],
                        !.handed = {h \in @ : h.to # w}]
    IN  /\ faults < MaxFaults /\ faults' = faults + 1
        /\ ~Idle(w)
        /\ \E jobs \in Orders({r \in lm.running : r.conn = conn}) :
               lm' = CancelInProgressJobs(m, jobs)
        /\ UNCHANGED <<commands, cluster, rollback, tables, version, acked, registered>>

Next ==
    \/ \E K \in KeySets, c \in 1..cluster, v \in 1..(version + 1) : Write(K, c, v)
    \/ ApplyL0 \/ ApplyL0Fails
    \/ \E v \in 0..version : ClusterFails(v)
    \/ RegisterDeadVersionRange
    \/ JobTimeout
    \/ \E w \in Workers : PollForJob(w) \/ ApplyChanges(w) \/ JobFails(w)
                          \/ PollerTimeout(w) \/ WorkerLost(w)

Spec == Init /\ [][Next]_vars

-----------------------------------------------------------------------------
(* Properties *)

Jobs == Range(lm.queue) \cup {r.job : r \in lm.running}

AllTables == UNION {Range(lm.levels[i]) : i \in DOMAIN lm.levels}

\* Newest first: level 0 from its end, then the levels in order.
Newest(k, v) ==
    LET has(l) == {i \in DOMAIN lm.levels[l] : \E e \in lm.levels[l][i].data : e.key = k /\ e.ver = v}
        found == {l \in DOMAIN lm.levels : has(l) # {}}
        l == Min(found)
        t == lm.levels[l][IF l = 1 THEN Max(has(l)) ELSE Min(has(l))]
    IN  IF found = {} THEN 0
        ELSE (CHOOSE e \in t.data : e.key = k /\ e.ver = v).write

Doomed(v) == \E r \in registered \cup {rollback} : v \in r.from..r.to

\* Whatever the order in which jobs are scheduled, lost, timed out, offered again and
\* completed by more than one worker, a read of a version that was not rolled back
\* finds the last write of it (doApplyChanges, mergeSSTables, lockTablesForJob).
ReadsKept ==
    \A e \in acked : ~Doomed(e.ver) /\ (\A f \in acked : <<f.key, f.ver>> = <<e.key, e.ver>>
                                                               => f.write <= e.write)
                         => Newest(e.key, e.ver) = e.write

\* The level manager forgets a dead version range only when no table has data of the
\* range any more: what is forgotten too early can be read again
\* (maybeScheduleRemoveDeadVersionEntries, scheduledAll).
DeadDataCovered ==
    \A r \in registered, t \in AllTables : (\E e \in t.data : InRange(r, e)) => r \in Range(lm.dead)

\* A table is locked exactly while a job that is queued or in progress has it, is in no
\* two jobs, and stays registered until that job is done; pendingCompactions counts
\* the jobs of each level (lockTablesForJob, compactionComplete, cancelInProgressJob).
JobsOwnTheirTables ==
    /\ lm.locked = UNION {Ids(j) : j \in Jobs}
    /\ lm.locked \subseteq {t.id : t \in AllTables}
    /\ \A i, j \in Jobs : i # j => Ids(i) \cap Ids(j) = {}
    /\ \A l \in 0..Len(lm.pending) : At(lm.pending, l) = Cardinality({j \in Jobs : j.from = l})

\* Level 0 and the registrations under way never exceed L0MaxTablesBeforeBlocking
\* (getL0FreeSpace, maybeDespatchPendingL0Adds).
L0Bounded == Len(lm.levels[1]) + Len(commands) <= MaxL0

Quiet == Jobs = {} /\ commands = <<>>

\* RegisterDeadVersionRange promises that the versions of the range are removed
\* asynchronously: when no job is left, no range is left and none is being removed
\* (removeDeadVersionsInProgress is reset).  Not so: the outer future counts the jobs of
\* the removal, but is counted down once a level.
RemovalEnds == Jobs = {} => ~lm.removing /\ lm.dead = <<>>

\* Compaction does not stop early.  When no job is left, no level is over its trigger,
\* no registration waits for space in level 0 unless one under way failed
\* (compactionComplete triggers the next compaction, applyCompactionChanges the waiting
\* registrations, but a failed one does not), and dead versions are removed, also when
\* tables were locked at first and jobs were lost, if no level had more than one job.
NothingLeftToDo ==
    LET failed == tables - Cardinality({e.write : e \in acked}) - Len(lm.adds)
    IN  /\ Quiet => /\ \A l \in 0..(Len(lm.levels) - 1) : Len(Level(lm, l)) <= Trigger(l)
                    /\ lm.adds # <<>> => failed > 0
        /\ ~lm.many => RemovalEnds
=============================================================================
