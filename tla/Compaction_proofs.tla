------------------------- MODULE Compaction_proofs -------------------------
(***************************************************************************)
(* The results of jobs, the steps of the level manager and its workers,    *)
(* and the theorems.                                                       *)
(***************************************************************************)
EXTENDS Compaction_lemmas

-----------------------------------------------------------------------------
(* Results of jobs *)

LEMMA SmallestKeyIs ==
  ASSUME NEW t \in Table
  PROVE  SmallestKey({t}) \in 1..NumKeys
<1> DEFINE D == UNION {s.data : s \in {t}}
           K == {e.key : e \in D}
<1>1. t.data \in (SUBSET Entry) \ {{}}
  BY DEF Table
<1>2. D = t.data
  OBVIOUS
<1>3. \A e \in Entry : e.key \in 1..NumKeys
  BY DEF Entry
<1>4. K # {} /\ K \subseteq 1..NumKeys
  BY <1>1, <1>2, <1>3
<1>5. 1..NumKeys \subseteq Nat
  BY BoundsAssumption
<1>6. PICK k \in K : \A j \in K : k <= j
  BY <1>4, <1>5, Smallest
<1>7. \E i \in K : \A e \in D : i <= e.key
  BY <1>6
<1>8. SmallestKey({t}) \in K
  BY <1>7 DEF SmallestKey
<1> QED
  BY <1>4, <1>8

LEMMA MergeIs ==
  ASSUME NEW job, IsJob(job)
  PROVE  MergeSSTables(job) \subseteq Entry
<1> DEFINE first == [i \in 1..Len(job.src) |->
                        {e \in job.src[i].data : \A r \in Range(job.dead) : ~InRange(r, e)}]
           last == UNION {t.data : t \in Range(job.over)}
           runs == first \o <<last>>
<1>1. Len(job.src) \in Nat /\ \A i \in 1..Len(job.src) : job.src[i] \in Table
  BY DEF IsJob
<1>2. \A t \in Table : t.data \subseteq Entry
  BY DEF Table
<1>3. first \in Seq(SUBSET Entry)
  <2>1. first \in [1..Len(job.src) -> SUBSET Entry]
    BY <1>1, <1>2
  <2> HIDE DEF first
  <2> QED
    BY <1>1, <2>1
<1>4. last \in SUBSET Entry
  <2>1. Range(job.over) \subseteq Table
    BY SeqIsSeq DEF IsJob
  <2> QED
    BY <1>2, <2>1
<1>5. MergeSSTables(job) = UNION {{e \in runs[i] : \A j \in 1..(i - 1) :
                    \A f \in runs[j] : <<f.key, f.ver>> # <<e.key, e.ver>>} : i \in 1..Len(runs)}
  BY DEF MergeSSTables
<1> HIDE DEF first, last
<1>6. runs \in Seq(SUBSET Entry)
  BY <1>3, <1>4
<1> HIDE DEF runs
<1>7. \A i \in 1..Len(runs) : runs[i] \subseteq Entry
  BY <1>6
<1> QED
  BY <1>5, <1>7

LEMMA PartIs ==
  ASSUME NEW k \in 1..NumKeys
  PROVE  (k - 1) \div TableKeys \in Nat
<1>1. k - 1 \in Nat /\ TableKeys \in Nat /\ TableKeys > 0
  BY BoundsAssumption
<1> QED
  BY <1>1

\* The result of a job: finitely many tables.
LEMMA ProcessJobIs ==
  ASSUME NEW job, IsJob(job), NEW next \in Nat
  PROVE  ProcessJob(job, next) \subseteq Table /\ IsFiniteSet(ProcessJob(job, next))
<1> DEFINE data == MergeSSTables(job)
           parts == {Part(e) : e \in data}
<1>1. CASE job.move
  <2>1. IsSeq(job.src) /\ Range(job.src) \subseteq Table
    BY SeqIsSeq DEF IsJob
  <2> QED
    BY <1>1, <2>1, RangeFinite DEF ProcessJob
<1>2. CASE ~ job.move
  <2>1. data \subseteq Entry
    BY MergeIs
  <2>2. ProcessJob(job, next) = {NewTable(data, next, p) : p \in parts}
    BY <1>2 DEF ProcessJob
  <2> HIDE DEF data
  <2>3. \A e \in data : e.key \in 1..NumKeys
    BY <2>1 DEF Entry
  <2>4. \A e \in data : Part(e) \in Nat
    BY <2>3, PartIs DEF Part
  <2>5. ASSUME NEW p \in parts PROVE NewTable(data, next, p) \in Table
    <3>1. p \in Nat
      BY <2>4
    <3>2. {e \in data : Part(e) = p} \in (SUBSET Entry) \ {{}}
      BY <2>1
    <3> QED
      BY <3>1, <3>2 DEF NewTable, Table
  <2>6. IsFiniteSet(ProcessJob(job, next))
    <3> DEFINE K == {e.key : e \in data}
               f == [k \in K |-> NewTable(data, next, (k - 1) \div TableKeys)]
    <3>1. IsFiniteSet(K)
      <4>1. IsFiniteSet(1..NumKeys)
        BY BoundsAssumption, FS_Interval
      <4>2. K \subseteq 1..NumKeys
        BY <2>3
      <4> HIDE DEF K
      <4> QED
        BY <4>1, <4>2, FS_Subset
    <3>2. ProcessJob(job, next) = {f[k] : k \in K}
      BY <2>2 DEF Part
    <3>3. f \in Surjection(K, ProcessJob(job, next))
      <4>1. DOMAIN f = K /\ f \in [K -> ProcessJob(job, next)]
        BY <3>2
      <4> HIDE DEF f
      <4> QED
        BY <4>1, <3>2 DEF Surjection
    <3> QED
      BY <3>1, <3>3, FS_Surjection
  <2> QED
    BY <2>2, <2>5, <2>6
<1> QED
  BY <1>1, <1>2

LEMMA OthersIs ==
  ASSUME NEW m, Typed(m), NEW l \in Nat, NEW job
  PROVE  /\ Others(m, l, job) \in Seq(Table)
         /\ \A t \in Range(Level(m, l)) : t.id \notin Ids(job) => t \in Range(Others(m, l, job))
         /\ Len(Others(m, l, job)) <= Len(Level(m, l))
<1> DEFINE T == {t \in Range(Level(m, l)) : t.id \notin Ids(job)}
<1>1. Level(m, l) \in Seq(Table)
  BY LevelIs
<1>2. Others(m, l, job) = Kept(Level(m, l), T)
  BY DEF Others
<1>3. \A t \in Range(Level(m, l)) : t.id \notin Ids(job) => t \in T
  OBVIOUS
<1> HIDE DEF T
<1>4. /\ Kept(Level(m, l), T) \in Seq(Table) /\ Range(Kept(Level(m, l), T)) = Range(Level(m, l)) \cap T
      /\ Len(Kept(Level(m, l), T)) <= Len(Level(m, l))
  BY <1>1, KeptIs
<1> QED
  BY <1>2, <1>3, <1>4

\* doApplyChanges leaves the tables that the job does not have, and level 0 does not grow.
LEMMA DoApplyChangesIs ==
  ASSUME NEW m, Typed(m), NEW job, IsJob(job), job.from + 2 <= MaxLevels
  PROVE  LET d == DoApplyChanges(m, job)
         IN  /\ DOMAIN d = Fields /\ \A x \in Fields \ {"levels", "next"} : d[x] = m[x]
             /\ d.levels \in Seq(Seq(Table)) /\ Len(d.levels) \in 1..(MaxLevels + 1)
             /\ d.next \in Nat /\ d.next >= m.next
             /\ TableIds(m) \ Ids(job) \subseteq TableIds(d)
             /\ Len(d.levels[1]) <= Len(m.levels[1])
<1> DEFINE from == job.from
           T == Range(Others(m, from + 1, job)) \cup ProcessJob(job, m.next)
           dest == SortedByKey(T)
           n == IF from + 2 > Len(m.levels) THEN from + 2 ELSE Len(m.levels)
           L == [i \in 1..n |-> IF i = from + 1 THEN Others(m, from, job)
                                ELSE IF i = from + 2 THEN dest
                                ELSE Level(m, i - 1)]
           d == DoApplyChanges(m, job)
<1>0. /\ DOMAIN m = Fields /\ from \in Nat /\ from + 1 \in Nat /\ m.next \in Nat
      /\ m.levels \in Seq(Seq(Table)) /\ Len(m.levels) \in 1..(MaxLevels + 1)
      /\ MaxLevels \in Nat /\ NumKeys \in Nat /\ from + 2 <= MaxLevels
  <2>1. DOMAIN m = Fields /\ m.levels \in Seq(Seq(Table)) /\ Len(m.levels) \in 1..(MaxLevels + 1) /\ m.next \in Nat
    BY DEF Typed
  <2>2. from \in Nat /\ from + 2 <= MaxLevels
    BY DEF IsJob
  <2>3. MaxLevels \in Nat /\ NumKeys \in Nat
    BY BoundsAssumption
  <2> HIDE DEF from
  <2> QED
    BY <2>1, <2>2, <2>3
<1>1. d = [m EXCEPT !.next = m.next + NumKeys, !.levels = L]
  BY <1>0 DEF DoApplyChanges, Fields
<1>2. dest \in Seq(Table) /\ Range(dest) = T
  <2>1. Others(m, from + 1, job) \in Seq(Table)
    BY <1>0, OthersIs
  <2>2. IsFiniteSet(Range(Others(m, from + 1, job))) /\ Range(Others(m, from + 1, job)) \subseteq Table
    BY <2>1, SeqIsSeq, RangeFinite
  <2>3. ProcessJob(job, m.next) \subseteq Table /\ IsFiniteSet(ProcessJob(job, m.next))
    BY <1>0, ProcessJobIs
  <2>4. T \subseteq Table /\ IsFiniteSet(T)
    BY <2>2, <2>3, FS_Union
  <2> HIDE DEF T
  <2>5. \A t \in T : SmallestKey({t}) \in 1..NumKeys
    BY <2>4, SmallestKeyIs
  <2>6. IsSeq(dest) /\ Range(dest) = T
    BY <2>4, <2>5, SortedIs
  <2> HIDE DEF dest
  <2> QED
    BY <2>4, <2>6 DEF IsSeq
<1> HIDE DEF dest
<1>3. Range(Others(m, from + 1, job)) \subseteq Range(dest)
  BY <1>2
<1> HIDE DEF T
<1>4. n \in 1..(MaxLevels + 1) /\ from + 2 <= n /\ Len(m.levels) <= n
  <2> HIDE DEF from
  <2> DEFINE k == Len(m.levels)
  <2>1. k \in 1..(MaxLevels + 1) /\ from \in Nat /\ from + 2 <= MaxLevels /\ MaxLevels \in Nat
    BY <1>0
  <2>2. n = IF from + 2 > k THEN from + 2 ELSE k
    OBVIOUS
  <2> HIDE DEF n, k
  <2>3. n \in 1..(MaxLevels + 1) /\ from + 2 <= n /\ k <= n
    BY ONLY <2>1, <2>2
  <2> QED
    BY <2>3 DEF k
<1> HIDE DEF n
<1>5. \A i \in 1..n : L[i] \in Seq(Table)
  <2> SUFFICES ASSUME NEW i \in 1..n PROVE L[i] \in Seq(Table)
    OBVIOUS
  <2>1. i - 1 \in Nat
    OBVIOUS
  <2>2. Level(m, i - 1) \in Seq(Table) /\ Others(m, from, job) \in Seq(Table)
    BY <2>1, <1>0, LevelIs, OthersIs
  <2> QED
    BY <2>2, <1>2
<1>6. L \in Seq(Seq(Table)) /\ Len(L) = n
  <2>1. L \in [1..n -> Seq(Table)]
    BY <1>5
  <2> HIDE DEF L
  <2> QED
    BY <1>4, <2>1
<1>7. Len(L[1]) <= Len(m.levels[1])
  <2>1. Level(m, 0) = m.levels[1] /\ m.levels[1] \in Seq(Table)
    BY <1>0 DEF Level
  <2>2. CASE from = 0
    <3>1. L[1] = Others(m, 0, job)
      BY <1>4, <2>2
    <3> QED
      BY <3>1, <2>1, OthersIs
  <2>3. CASE from # 0
    <3>1. L[1] = Level(m, 0)
      BY <1>0, <1>4, <2>3
    <3> QED
      BY <3>1, <2>1
  <2> QED
    BY <2>2, <2>3
<1>8. ASSUME NEW i \in DOMAIN m.levels, NEW t \in Range(m.levels[i]), t.id \notin Ids(job)
      PROVE  i \in 1..n /\ t \in Range(L[i])
  <2>0. DOMAIN m.levels = 1..Len(m.levels)
    BY <1>0
  <2>1. i \in 1..Len(m.levels) /\ i \in 1..n /\ i - 1 \in Nat
    <3>1. i \in 1..Len(m.levels) /\ Len(m.levels) <= n /\ Len(m.levels) \in Nat /\ n \in Nat
      BY <2>0, <1>0, <1>4
    <3> QED
      BY ONLY <3>1
  <2>2. Level(m, i - 1) = m.levels[i]
    BY <2>1, <1>0 DEF Level
  <2>3. CASE i = from + 1
    <3>1. L[i] = Others(m, from, job) /\ i - 1 = from
      BY <2>1, <2>3, <1>0
    <3> QED
      BY <3>1, <2>1, <2>2, <1>0, <1>8, OthersIs
  <2>4. CASE i = from + 2
    <3>0. i # from + 1 /\ i - 1 = from + 1
      <4>1. from \in Nat
        BY <1>0
      <4> HIDE DEF from
      <4> QED
        BY <2>4, <4>1
    <3>1. L[i] = dest /\ i - 1 = from + 1
      BY <2>1, <2>4, <3>0
    <3>2. t \in Range(Others(m, from + 1, job))
      BY <3>1, <2>1, <2>2, <1>0, <1>8, OthersIs
    <3> QED
      BY <3>1, <3>2, <2>1, <1>3
  <2>5. CASE i # from + 1 /\ i # from + 2
    BY <2>1, <2>2, <2>5, <1>8
  <2> QED
    BY <2>3, <2>4, <2>5
<1>9. DOMAIN L = 1..n
  OBVIOUS
<1> HIDE DEF L
<1>10. /\ DOMAIN d = Fields /\ \A x \in Fields \ {"levels", "next"} : d[x] = m[x]
       /\ d.levels = L /\ d.next = m.next + NumKeys
  BY <1>0, <1>1 DEF Fields
<1> HIDE DEF d
<1>11. TableIds(m) \ Ids(job) \subseteq TableIds(d)
  <2> SUFFICES ASSUME NEW x \in TableIds(m) \ Ids(job) PROVE x \in TableIds(d)
    OBVIOUS
  <2>1. PICK i \in DOMAIN m.levels : \E t \in Range(m.levels[i]) : t.id = x
    BY DEF TableIds
  <2>2. PICK t \in Range(m.levels[i]) : t.id = x
    BY <2>1
  <2>3. i \in DOMAIN d.levels /\ t \in Range(d.levels[i])
    BY <2>2, <1>8, <1>9, <1>10
  <2> QED
    BY <2>2, <2>3 DEF TableIds
<1>12. d.next \in Nat /\ d.next >= m.next
  <2>1. d.next = m.next + NumKeys /\ m.next \in Nat /\ NumKeys \in Nat
    BY <1>0, <1>10
  <2> QED
    BY ONLY <2>1
<1> QED
  BY <1>4, <1>6, <1>7, <1>10, <1>11, <1>12 DEF d

\* compactionComplete, after doApplyChanges: the job's tables and locks are gone together.
LEMMA CompleteOwned ==
  ASSUME NEW m, Owned(m, {}), NEW job, IsJob(job), job.from + 2 <= MaxLevels,
         \E r \in m.running : r.job.id = job.id,
         \A r \in m.running : r.job.id = job.id => r.job = job,
         NEW n \in CompactionComplete(DoApplyChanges(m, job), job.id)
  PROVE  /\ Owned(n, {}) /\ n.inflight = m.inflight /\ n.adds = m.adds
         /\ Len(n.levels[1]) <= Len(m.levels[1])
<1> DEFINE d == DoApplyChanges(m, job)
           r == Running(d, job.id)
           pending == Put(m.pending, job.from, At(m.pending, job.from) - 1)
           c == [d EXCEPT !.running = m.running \ {r}, !.locked = m.locked \ Ids(job),
                          !.pending = pending]
<1>0. Typed(m) /\ Once(m) /\ Known(JobsOf(m), HandedJobs(m), m.next)
      /\ Locks(JobsOf(m), m.locked, TableIds(m))
  BY DEF Owned
<1>1. /\ DOMAIN d = Fields /\ \A x \in Fields \ {"levels", "next"} : d[x] = m[x]
      /\ d.levels \in Seq(Seq(Table)) /\ Len(d.levels) \in 1..(MaxLevels + 1)
      /\ d.next \in Nat /\ d.next >= m.next
      /\ TableIds(m) \ Ids(job) \subseteq TableIds(d)
      /\ Len(d.levels[1]) <= Len(m.levels[1])
  BY <1>0, DoApplyChangesIs
<1>2. /\ d.running = m.running /\ d.locked = m.locked /\ d.pending = m.pending
      /\ d.queue = m.queue /\ d.handed = m.handed /\ d.pollers = m.pollers
      /\ d.inflight = m.inflight /\ d.adds = m.adds
  BY <1>1 DEF Fields
<1> HIDE DEF d
<1>3. r \in m.running /\ r.job = job
  BY <1>2 DEF Running
<1>4. CompactionComplete(d, job.id) = MaybeScheduleCompaction(CountDown(c, job))
  BY <1>1, <1>2, <1>3 DEF CompactionComplete
<1>5. pending \in Seq(Int) /\ Counted(JobsOf(m) \ {job}, pending)
  BY <1>3, EndedCount
<1> HIDE DEF r, pending
<1>6. /\ DOMAIN c = Fields /\ c.levels = d.levels /\ c.queue = m.queue /\ c.handed = m.handed
      /\ c.running = m.running \ {r} /\ c.pending = pending /\ c.locked = m.locked \ Ids(job)
      /\ c.next = d.next /\ c.pollers = m.pollers /\ c.inflight = m.inflight /\ c.adds = m.adds
  BY <1>1, <1>2 DEF Fields
<1> HIDE DEF c
<1>7. /\ JobsOf(c) = JobsOf(m) \ {job} /\ job \in JobsOf(m)
      /\ Once(c) /\ IsFiniteSet(c.running)
  <2>1. /\ JobsOf(c) = JobsOf(m) \ {r.job} /\ r.job \in JobsOf(m)
        /\ Once(c) /\ IsFiniteSet(c.running)
    BY <1>0, <1>3, <1>6, EndedJob
  <2> QED
    BY <1>3, <2>1
<1>8. HandedJobs(c) = HandedJobs(m) /\ TableIds(c) = TableIds(d)
  BY <1>6 DEF HandedJobs, TableIds
<1>9. Typed(c)
  BY <1>0, <1>1, <1>5, <1>6, <1>7 DEF Typed
<1>10. Known(JobsOf(c), HandedJobs(c), c.next)
  <2>1. \A j \in JobsOf(m) \cup HandedJobs(m) : j.id \in Nat /\ j.id < m.next
    BY <1>0 DEF Known, IsJob
  <2>2. m.next \in Nat
    BY <1>0 DEF Typed
  <2>3. \A j \in JobsOf(m) \cup HandedJobs(m) : j.id < c.next
    BY <2>1, <2>2, <1>1, <1>6
  <2> QED
    BY <2>3, <1>0, <1>7, <1>8 DEF Known
<1>11. Locks(JobsOf(c), c.locked, TableIds(c))
  <2>1. \A j \in JobsOf(m) : j # job => Ids(j) \cap Ids(job) = {}
    BY <1>0, <1>7 DEF Locks
  <2>2. c.locked = UNION {Ids(j) : j \in JobsOf(c)}
    <3>1. m.locked = UNION {Ids(j) : j \in JobsOf(m)}
      BY <1>0 DEF Locks
    <3> QED
      BY <3>1, <2>1, <1>6, <1>7
  <2>3. c.locked \subseteq TableIds(c)
    BY <1>0, <1>1, <1>6, <1>8 DEF Locks
  <2>4. \A i, j \in JobsOf(c) : i # j => Ids(i) \cap Ids(j) = {}
    BY <1>0, <1>7 DEF Locks
  <2> QED
    BY <2>2, <2>3, <2>4 DEF Locks
<1>12. JobsOf(c) \cup {} = JobsOf(c)
  OBVIOUS
<1>13. Owned(c, {})
  BY <1>5, <1>6, <1>7, <1>9, <1>10, <1>11, <1>12 DEF Owned
<1>14. Keeps(c, CountDown(c, job))
  BY <1>13, CountDownOwned
<1>15. n \in MaybeScheduleCompaction(CountDown(c, job))
  BY <1>4 DEF d
<1>16. Keeps(CountDown(c, job), n)
  BY <1>14, <1>15, MaybeScheduleCompactionOwned DEF Keeps
<1> QED
  BY <1>1, <1>6, <1>14, <1>16 DEF Keeps, SameStock

-----------------------------------------------------------------------------
(* Steps *)

LEMMA Level0Is ==
  ASSUME NEW m, Typed(m)
  PROVE  /\ Level(m, 0) = m.levels[1] /\ m.levels[1] \in Seq(Table) /\ Len(m.levels[1]) \in Nat
         /\ 1 \in DOMAIN m.levels
<1>1. m.levels \in Seq(Seq(Table)) /\ Len(m.levels) \in 1..(MaxLevels + 1) /\ MaxLevels \in Nat
  BY BoundsAssumption DEF Typed
<1>2. 0 < Len(m.levels) /\ 1 \in DOMAIN m.levels
  BY <1>1
<1>3. Level(m, 0) = m.levels[1]
  BY <1>2 DEF Level
<1> QED
  BY <1>1, <1>2, <1>3

\* A table that is added disturbs no lock.
LEMMA MoreTables ==
  ASSUME NEW m, NEW n, NEW X, Owned(m, X), DOMAIN n = Fields,
         n.levels \in Seq(Seq(Table)), Len(n.levels) = Len(m.levels), TableIds(m) \subseteq TableIds(n),
         n.queue = m.queue, n.running = m.running, n.handed = m.handed,
         n.locked = m.locked, n.next = m.next, n.pending = m.pending, n.pollers = m.pollers
  PROVE  Owned(n, X)
<1>1. JobsOf(n) = JobsOf(m) /\ HandedJobs(n) = HandedJobs(m)
  BY DEF JobsOf, HandedJobs
<1>2. Typed(n)
  BY DEF Owned, Typed
<1>3. Once(n)
  BY DEF Owned, Once
<1>4. Locks(JobsOf(n) \cup X, n.locked, TableIds(n))
  BY <1>1 DEF Owned, Locks
<1> QED
  BY <1>1, <1>2, <1>3, <1>4 DEF Owned

LEMMA WriteStep ==
  ASSUME Inv, NEW K \in KeySets, NEW c \in 1..cluster, NEW v \in 1..(version + 1), Write(K, c, v)
  PROVE  Inv' /\ (L0Inv => L0Inv')
<1> DEFINE w == tables + 1
           D == {[key |-> k, ver |-> v, write |-> w] : k \in K}
           t == [id |-> w, data |-> D]
<1>0. /\ Owned(lm, {}) /\ Typed(lm) /\ DOMAIN lm = Fields /\ version \in Nat /\ tables \in Nat /\ v \in Nat
      /\ commands \in Seq(Table) /\ lm.adds \in Seq(Table) /\ lm.inflight \in Int /\ MaxTables \in Nat
      /\ MaxL0 \in Nat /\ cluster \in Nat
  <2>1. Typing /\ Owned(lm, {}) /\ Typed(lm)
    BY DEF Inv, Owned
  <2>2. /\ version \in Nat /\ tables \in Nat /\ cluster \in Nat /\ v \in Nat
        /\ commands \in Seq(Table) /\ lm.adds \in Seq(Table) /\ lm.inflight \in Int
    BY <2>1 DEF Typing
  <2>3. MaxTables \in Nat /\ MaxL0 \in Nat
    BY BoundsAssumption
  <2> QED
    BY <2>1, <2>2, <2>3 DEF Typed
<1>1. t \in Table
  <2>1. K # {} /\ K \subseteq 1..NumKeys
    BY BoundsAssumption
  <2>2. w \in Nat
    BY <1>0
  <2> HIDE DEF w
  <2>3. D \in (SUBSET Entry) \ {{}}
    <3>1. \A k \in K : [key |-> k, ver |-> v, write |-> w] \in Entry
      BY <2>1, <2>2, <1>0 DEF Entry
    <3>2. PICK k \in K : TRUE
      BY <2>1
    <3>3. [key |-> k, ver |-> v, write |-> w] \in D
      OBVIOUS
    <3> QED
      BY <3>1, <3>3
  <2> HIDE DEF D
  <2> QED
    BY <2>2, <2>3 DEF Table
<1>2. /\ tables < MaxTables /\ RegisterL0Tables(c, t) /\ tables' = tables + 1 /\ version' = v
      /\ cluster' = cluster
  BY DEF Write
<1> HIDE DEF t
<1>3. tables' \in 0..MaxTables /\ version' \in Nat /\ cluster' \in Nat
  BY <1>0, <1>2
<1>4. Level(lm, 0) = lm.levels[1] /\ Len(lm.levels[1]) \in Nat /\ IsSeq(lm.pollers)
  BY <1>0, Level0Is DEF Typed
<1>5. CASE GetL0FreeSpace(lm) >= 1
  <2>1. lm' = [lm EXCEPT !.cluster = c, !.inflight = lm.inflight + 1] /\ commands' = Append(commands, t)
    BY <1>0, <1>2, <1>5 DEF RegisterL0Tables, Fields
  <2>2. /\ DOMAIN lm' = Fields /\ lm'.levels = lm.levels /\ lm'.queue = lm.queue
        /\ lm'.running = lm.running /\ lm'.handed = lm.handed /\ lm'.locked = lm.locked
        /\ lm'.next = lm.next /\ lm'.pending = lm.pending /\ lm'.pollers = lm.pollers
        /\ lm'.adds = lm.adds /\ lm'.inflight = lm.inflight + 1
    BY <2>1, <1>0 DEF Fields
  <2>3. Owned(lm', {})
    BY <2>2, <1>0, <1>4, OwnedFields
  <2>4. commands' \in Seq(Table) /\ Len(commands') = Len(commands) + 1 /\ Len(commands) \in Nat
    BY <2>1, <1>0, <1>1
  <2>5. Inv'
    BY <2>2, <2>3, <2>4, <1>0, <1>3 DEF Inv, Typing
  <2>6. L0Inv => L0Inv'
    <3>1. MaxL0 - Len(lm.levels[1]) - lm.inflight >= 1
      BY <1>4, <1>5 DEF GetL0FreeSpace
    <3>2. Len(lm'.levels[1]) = Len(lm.levels[1]) /\ lm'.inflight = lm.inflight + 1
      BY <2>2
    <3>3. Len(lm'.levels[1]) + lm'.inflight <= MaxL0
      <4>1. MaxL0 \in Nat /\ Len(lm.levels[1]) \in Nat /\ lm.inflight \in Int
        BY <1>0, <1>4
      <4> QED
        BY ONLY <3>1, <3>2, <4>1
    <3>4. ASSUME L0Inv PROVE lm'.inflight = Len(commands')
      BY <3>4, <2>2, <2>4 DEF L0Inv
    <3> QED
      BY <3>3, <3>4 DEF L0Inv
  <2> QED
    BY <2>5, <2>6
<1>6. CASE ~ (GetL0FreeSpace(lm) >= 1)
  <2>1. lm' = [lm EXCEPT !.cluster = c, !.adds = Append(lm.adds, t)] /\ commands' = commands
    BY <1>0, <1>2, <1>6 DEF RegisterL0Tables, Fields
  <2>2. /\ DOMAIN lm' = Fields /\ lm'.levels = lm.levels /\ lm'.queue = lm.queue
        /\ lm'.running = lm.running /\ lm'.handed = lm.handed /\ lm'.locked = lm.locked
        /\ lm'.next = lm.next /\ lm'.pending = lm.pending /\ lm'.pollers = lm.pollers
        /\ lm'.adds = Append(lm.adds, t) /\ lm'.inflight = lm.inflight
    BY <2>1, <1>0 DEF Fields
  <2>3. Owned(lm', {})
    BY <2>2, <1>0, <1>4, OwnedFields
  <2>4. lm'.adds \in Seq(Table)
    BY <2>2, <1>0, <1>1
  <2> QED
    BY <2>1, <2>2, <2>3, <2>4, <1>0, <1>3 DEF Inv, Typing, L0Inv
<1> QED
  BY <1>5, <1>6

LEMMA ApplyL0Step ==
  ASSUME Inv, ApplyL0
  PROVE  Inv' /\ (L0Inv => L0Inv')
<1> DEFINE t == Head(commands)
           L == [lm.levels EXCEPT ![1] = Append(lm.levels[1], t)]
           m == [lm EXCEPT !.inflight = lm.inflight - 1, !.levels = L]
<1>0. /\ Owned(lm, {}) /\ Typed(lm) /\ DOMAIN lm = Fields /\ version \in Nat /\ tables \in 0..MaxTables
      /\ commands \in Seq(Table) /\ lm.adds \in Seq(Table) /\ lm.inflight \in Int
      /\ lm.levels \in Seq(Seq(Table)) /\ cluster \in Nat
  BY DEF Inv, Typing, Owned, Typed
<1>1. /\ commands # <<>> /\ lm' \in MaybeScheduleCompaction(m) /\ commands' = Tail(commands)
      /\ version' = version /\ tables' = tables /\ cluster' = cluster
  BY <1>0 DEF ApplyL0, Fields
<1>2. t \in Table /\ commands' \in Seq(Table) /\ Len(commands') = Len(commands) - 1 /\ Len(commands) \in Nat
  BY <1>0, <1>1
<1>3. lm.levels[1] \in Seq(Table) /\ Len(lm.levels[1]) \in Nat /\ 1 \in DOMAIN lm.levels
  BY <1>0, Level0Is
<1> HIDE DEF t
<1>4. Append(lm.levels[1], t) \in Seq(Table) /\ Len(Append(lm.levels[1], t)) = Len(lm.levels[1]) + 1
  BY <1>2, <1>3
<1>5. /\ L \in Seq(Seq(Table)) /\ Len(L) = Len(lm.levels) /\ DOMAIN L = DOMAIN lm.levels
      /\ L[1] = Append(lm.levels[1], t) /\ \A i \in DOMAIN lm.levels : i # 1 => L[i] = lm.levels[i]
  BY <1>0, <1>3, <1>4
<1> HIDE DEF L
<1>6. /\ DOMAIN m = Fields /\ m.levels = L /\ m.queue = lm.queue /\ m.running = lm.running
      /\ m.handed = lm.handed /\ m.locked = lm.locked /\ m.next = lm.next /\ m.pending = lm.pending
      /\ m.pollers = lm.pollers /\ m.adds = lm.adds /\ m.inflight = lm.inflight - 1
  BY <1>0 DEF Fields
<1> HIDE DEF m
<1>7. TableIds(lm) \subseteq TableIds(m)
  <2>1. Range(lm.levels[1]) \subseteq Range(L[1])
    BY <1>3, <1>5, SeqIsSeq, RangeAppend
  <2>2. \A i \in DOMAIN lm.levels : Range(lm.levels[i]) \subseteq Range(m.levels[i])
    BY <2>1, <1>5, <1>6
  <2>3. DOMAIN m.levels = DOMAIN lm.levels
    BY <1>5, <1>6
  <2> QED
    BY ONLY <2>2, <2>3 DEF TableIds
<1>8. Owned(m, {})
  BY <1>0, <1>5, <1>6, <1>7, MoreTables
<1>9. Owned(lm', {}) /\ lm'.levels = L /\ lm'.inflight = lm.inflight - 1 /\ lm'.adds = lm.adds
  BY <1>1, <1>6, <1>8, MaybeScheduleCompactionOwned DEF Keeps, SameStock
<1>10. Inv'
  BY <1>0, <1>1, <1>2, <1>9 DEF Inv, Typing
<1>11. ASSUME L0Inv PROVE L0Inv'
  <2>1. Len(lm'.levels[1]) = Len(lm.levels[1]) + 1
    BY <1>4, <1>5, <1>9
  <2>2. Len(lm.levels[1]) + lm.inflight <= MaxL0 /\ MaxL0 \in Nat
    BY <1>11, BoundsAssumption DEF L0Inv
  <2>3. Len(lm'.levels[1]) + lm'.inflight <= MaxL0
    BY <2>1, <2>2, <1>0, <1>3, <1>9
  <2>4. lm'.inflight = Len(commands')
    BY <1>2, <1>9, <1>11 DEF L0Inv
  <2> QED
    BY <2>3, <2>4 DEF L0Inv
<1> QED
  BY <1>10, <1>11

LEMMA ApplyL0FailsStep ==
  ASSUME Inv, ApplyL0Fails
  PROVE  Inv' /\ ("apply_error" \notin Faults /\ L0Inv => L0Inv')
<1>0. /\ Owned(lm, {}) /\ DOMAIN lm = Fields /\ version \in Nat /\ tables \in 0..MaxTables
      /\ commands \in Seq(Table) /\ lm.adds \in Seq(Table) /\ lm.inflight \in Int /\ cluster \in Nat
      /\ IsSeq(lm.pollers) /\ Len(lm.levels[1]) \in Nat /\ MaxL0 \in Nat
  BY Level0Is, BoundsAssumption DEF Inv, Typing, Owned, Typed
<1>1. PICK f \in {"send_error", "apply_error"} \cap Faults :
           lm' = [lm EXCEPT !.inflight = @ - (IF f = "apply_error" THEN 2 ELSE 1)]
  BY DEF ApplyL0Fails
<1> DEFINE x == IF f = "apply_error" THEN 2 ELSE 1
<1>2. /\ DOMAIN lm' = Fields /\ lm'.levels = lm.levels /\ lm'.queue = lm.queue
      /\ lm'.running = lm.running /\ lm'.handed = lm.handed /\ lm'.locked = lm.locked
      /\ lm'.next = lm.next /\ lm'.pending = lm.pending /\ lm'.pollers = lm.pollers
      /\ lm'.adds = lm.adds /\ lm'.inflight = lm.inflight - x
  BY <1>0, <1>1 DEF Fields
<1>3. x \in {1, 2} /\ ("apply_error" \notin Faults => x = 1)
  OBVIOUS
<1> HIDE DEF x
<1>4. Owned(lm', {})
  BY <1>0, <1>2, OwnedFields
<1>5. /\ commands' \in Seq(Table) /\ Len(commands') = Len(commands) - 1 /\ Len(commands) \in Nat
      /\ version' = version /\ tables' = tables /\ cluster' = cluster
  BY <1>0 DEF ApplyL0Fails
<1>6. Inv'
  BY <1>0, <1>2, <1>3, <1>4, <1>5 DEF Inv, Typing
<1>7. ASSUME "apply_error" \notin Faults, L0Inv PROVE L0Inv'
  <2>1. lm'.inflight = lm.inflight - 1 /\ Len(lm'.levels[1]) = Len(lm.levels[1])
    BY <1>2, <1>3, <1>7
  <2>2. Len(lm.levels[1]) + lm.inflight <= MaxL0
    BY <1>7 DEF L0Inv
  <2>3. Len(lm'.levels[1]) + lm'.inflight <= MaxL0
    <3>1. Len(lm.levels[1]) \in Nat /\ lm.inflight \in Int /\ MaxL0 \in Nat
      BY <1>0, BoundsAssumption
    <3> QED
      BY ONLY <2>1, <2>2, <3>1
  <2>4. lm'.inflight = Len(commands')
    BY <2>1, <1>5, <1>7 DEF L0Inv
  <2> QED
    BY <2>3, <2>4 DEF L0Inv
<1> QED
  BY <1>6, <1>7

\* A step that leaves the stores' side alone, and level 0.
LEMMA LmStep ==
  ASSUME Inv, Owned(lm', {}), lm'.levels = lm.levels, lm'.inflight = lm.inflight, lm'.adds = lm.adds,
         commands' = commands, version' = version, tables' = tables, cluster' = cluster
  PROVE  Inv' /\ (L0Inv => L0Inv')
BY DEF Inv, Typing, L0Inv

LEMMA ClusterFailsStep ==
  ASSUME Inv, NEW v, ClusterFails(v)
  PROVE  Inv' /\ (L0Inv => L0Inv')
BY DEF ClusterFails, Inv, Typing, L0Inv

LEMMA RegisterDeadVersionRangeStep ==
  ASSUME Inv, RegisterDeadVersionRange
  PROVE  Inv' /\ (L0Inv => L0Inv')
<1> DEFINE m == [lm EXCEPT !.cluster = cluster, !.dead = Append(@, rollback)]
<1>0. Owned(lm, {}) /\ DOMAIN lm = Fields /\ IsSeq(lm.pollers)
  BY DEF Inv, Owned, Typed
<1>1. lm' = MaybeScheduleRemoveDeadVersionEntries(m)
  BY DEF RegisterDeadVersionRange
<1>2. /\ DOMAIN m = Fields /\ m.levels = lm.levels /\ m.queue = lm.queue
      /\ m.running = lm.running /\ m.handed = lm.handed /\ m.locked = lm.locked
      /\ m.next = lm.next /\ m.pending = lm.pending /\ m.pollers = lm.pollers
      /\ m.adds = lm.adds /\ m.inflight = lm.inflight
  BY <1>0 DEF Fields
<1> HIDE DEF m
<1>3. Owned(m, {})
  BY <1>0, <1>2, OwnedFields
<1>4. Keeps(m, lm')
  BY <1>1, <1>3, MaybeScheduleRemoveOwned
<1>5. Owned(lm', {}) /\ lm'.levels = lm.levels /\ lm'.inflight = lm.inflight /\ lm'.adds = lm.adds
  BY <1>2, <1>4 DEF Keeps, SameStock
<1>6. commands' = commands /\ version' = version /\ tables' = tables /\ cluster' = cluster
  BY DEF RegisterDeadVersionRange
<1> QED
  BY <1>5, <1>6, LmStep

LEMMA JobTimeoutStep ==
  ASSUME Inv, JobTimeout
  PROVE  Inv' /\ (L0Inv => L0Inv')
<1>0. Owned(lm, {})
  BY DEF Inv
<1>1. PICK r \in lm.running : lm' = CancelInProgressJob(lm, r)
  BY DEF JobTimeout
<1>2. Keeps(lm, lm')
  BY <1>0, <1>1, CancelOwned
<1>3. Owned(lm', {}) /\ lm'.levels = lm.levels /\ lm'.inflight = lm.inflight /\ lm'.adds = lm.adds
  BY <1>2 DEF Keeps, SameStock
<1>4. commands' = commands /\ version' = version /\ tables' = tables /\ cluster' = cluster
  BY DEF JobTimeout
<1> QED
  BY <1>3, <1>4, LmStep

\* The first job of the queue is given to a worker.
LEMMA PolledOwned ==
  ASSUME NEW m, Owned(m, {}), m.queue # <<>>, NEW w, NEW conn, NEW n, DOMAIN n = Fields,
         n.queue = Tail(m.queue), n.running = m.running \cup {[job |-> Head(m.queue), conn |-> conn]},
         n.handed = m.handed \cup {[to |-> w, job |-> Head(m.queue)]},
         n.levels = m.levels, n.locked = m.locked, n.next = m.next, n.pending = m.pending,
         n.pollers = m.pollers
  PROVE  Owned(n, {})
<1> DEFINE job == Head(m.queue)
           r == [job |-> job, conn |-> conn]
           h == [to |-> w, job |-> job]
<1>0. Typed(m) /\ Once(m) /\ IsSeq(m.queue) /\ IsFiniteSet(m.running)
  BY DEF Owned, Typed
<1>1. /\ IsSeq(n.queue) /\ Range(m.queue) = Range(n.queue) \cup {job}
      /\ Len(n.queue) = Len(m.queue) - 1 /\ \A i \in 1..(Len(m.queue) - 1) : n.queue[i] = m.queue[i + 1]
  <2>1. IsSeq(m.queue) /\ m.queue # <<>> /\ n.queue = Tail(m.queue)
    BY <1>0
  <2> QED
    BY ONLY <2>1, RangeTail
<1>2. r.job = job /\ h.job = job /\ n.running = m.running \cup {r} /\ n.handed = m.handed \cup {h}
  OBVIOUS
<1>3. /\ Len(m.queue) \in Nat /\ Len(m.queue) >= 1 /\ DOMAIN m.queue = 1..Len(m.queue)
      /\ DOMAIN n.queue = 1..(Len(m.queue) - 1) /\ m.queue[1] = job
  <2>1. IsSeq(m.queue) /\ m.queue # <<>> /\ n.queue = Tail(m.queue)
    BY <1>0
  <2> QED
    BY ONLY <2>1, TailDomain
<1> HIDE DEF job, r, h
<1>4. {s.job : s \in n.running} = {s.job : s \in m.running} \cup {job}
  BY <1>2
<1>5. JobsOf(n) = JobsOf(m) /\ job \in JobsOf(m)
  BY <1>1, <1>4 DEF JobsOf
<1>6. HandedJobs(n) = HandedJobs(m) \cup {job}
  BY <1>2 DEF HandedJobs
<1>7. IsFiniteSet(n.running)
  BY <1>0, <1>2, FS_AddElement
<1>8. \A a, b \in DOMAIN n.queue : n.queue[a] = n.queue[b] => a = b
  <2> SUFFICES ASSUME NEW a \in DOMAIN n.queue, NEW b \in DOMAIN n.queue, n.queue[a] = n.queue[b]
               PROVE  a = b
    OBVIOUS
  <2>1. a + 1 \in DOMAIN m.queue /\ b + 1 \in DOMAIN m.queue /\ a \in Nat /\ b \in Nat
    BY <1>3
  <2>2. m.queue[a + 1] = m.queue[b + 1]
    BY <1>1, <1>3
  <2>3. a + 1 = b + 1
    BY <2>1, <2>2, <1>0 DEF Once
  <2> QED
    BY ONLY <2>1, <2>3
<1>9. job \notin Range(n.queue)
  <2>1. SUFFICES ASSUME NEW a \in DOMAIN n.queue, n.queue[a] = job PROVE FALSE
    BY DEF Range
  <2>2. a + 1 \in DOMAIN m.queue /\ 1 \in DOMAIN m.queue /\ a + 1 # 1
    BY <1>3
  <2>3. m.queue[a + 1] = m.queue[1]
    BY <2>1, <1>1, <1>3
  <2> QED
    BY <2>2, <2>3, <1>0 DEF Once
<1>10. \A s \in m.running : s.job # job /\ s.job \notin Range(n.queue)
  BY <1>0, <1>1 DEF Once
<1>11. Once(n)
  BY <1>0, <1>2, <1>8, <1>9, <1>10 DEF Once
<1>12. Typed(n)
  BY <1>0, <1>1, <1>7 DEF Typed
<1>13. TableIds(n) = TableIds(m)
  BY DEF TableIds
<1>14. Known(JobsOf(n) \cup {}, HandedJobs(n), n.next)
  <2>1. Known(JobsOf(m) \cup {}, HandedJobs(m), m.next)
    BY DEF Owned
  <2>2. JobsOf(n) = JobsOf(m) /\ JobsOf(n) \cup HandedJobs(n) = JobsOf(m) \cup HandedJobs(m)
    BY <1>5, <1>6
  <2>3. n.next = m.next
    OBVIOUS
  <2> QED
    BY ONLY <2>1, <2>2, <2>3 DEF Known
<1> QED
  BY <1>5, <1>11, <1>12, <1>13, <1>14 DEF Owned

LEMMA PollForJobStep ==
  ASSUME Inv, NEW w, PollForJob(w)
  PROVE  Inv' /\ (L0Inv => L0Inv')
<1> DEFINE conn == [worker |-> w, up |-> TRUE]
           job == Head(lm.queue)
<1>0. Owned(lm, {}) /\ DOMAIN lm = Fields /\ IsSeq(lm.pollers)
  BY DEF Inv, Owned, Typed
<1>1. lm' = IF lm.queue = <<>> THEN [lm EXCEPT !.pollers = Append(@, conn)]
            ELSE [lm EXCEPT !.queue = Tail(@),
                            !.running = @ \cup {[job |-> job, conn |-> conn]},
                            !.handed = @ \cup {[to |-> w, job |-> job]}]
  BY DEF PollForJob
<1>2. commands' = commands /\ version' = version /\ tables' = tables /\ cluster' = cluster
  BY DEF PollForJob
<1> HIDE DEF conn
<1>3. Owned(lm', {}) /\ lm'.levels = lm.levels /\ lm'.inflight = lm.inflight /\ lm'.adds = lm.adds
  <2>1. CASE lm.queue = <<>>
    <3>1. /\ DOMAIN lm' = Fields /\ lm'.levels = lm.levels /\ lm'.queue = lm.queue
          /\ lm'.running = lm.running /\ lm'.handed = lm.handed /\ lm'.locked = lm.locked
          /\ lm'.next = lm.next /\ lm'.pending = lm.pending /\ lm'.pollers = Append(lm.pollers, conn)
          /\ lm'.adds = lm.adds /\ lm'.inflight = lm.inflight
      BY <1>0, <1>1, <2>1 DEF Fields
    <3>2. IsSeq(lm'.pollers)
      BY <1>0, <3>1, RangeAppend
    <3> QED
      BY <1>0, <3>1, <3>2, OwnedFields
  <2>2. CASE lm.queue # <<>>
    <3>1. /\ DOMAIN lm' = Fields /\ lm'.levels = lm.levels /\ lm'.queue = Tail(lm.queue)
          /\ lm'.running = lm.running \cup {[job |-> job, conn |-> conn]}
          /\ lm'.handed = lm.handed \cup {[to |-> w, job |-> job]} /\ lm'.locked = lm.locked
          /\ lm'.next = lm.next /\ lm'.pending = lm.pending /\ lm'.pollers = lm.pollers
          /\ lm'.adds = lm.adds /\ lm'.inflight = lm.inflight
      BY <1>0, <1>1, <2>2 DEF Fields
    <3> QED
      BY <1>0, <2>2, <3>1, PolledOwned
  <2> QED
    BY <2>1, <2>2
<1> QED
  BY <1>2, <1>3, LmStep

\* A worker gives its job up, or the answer comes too late.
LEMMA LaidDown ==
  ASSUME NEW m, Owned(m, {}), NEW h
  PROVE  LET n == [m EXCEPT !.handed = @ \ {h}]
         IN  /\ Owned(n, {}) /\ SameStock(m, n) /\ n.running = m.running /\ n.next = m.next
             /\ n.handed \subseteq m.handed
<1> DEFINE n == [m EXCEPT !.handed = @ \ {h}]
<1>0. DOMAIN m = Fields /\ IsSeq(m.pollers)
  BY DEF Owned, Typed
<1>1. /\ DOMAIN n = Fields /\ n.levels = m.levels /\ n.queue = m.queue /\ n.running = m.running
      /\ n.handed \subseteq m.handed /\ n.locked = m.locked /\ n.next = m.next /\ n.pending = m.pending
      /\ n.pollers = m.pollers /\ n.adds = m.adds /\ n.inflight = m.inflight
  BY <1>0 DEF Fields
<1> HIDE DEF n
<1>2. Owned(n, {})
  BY <1>0, <1>1, FewerHanded
<1> QED
  BY <1>1, <1>2 DEF SameStock, n

LEMMA JobFailsStep ==
  ASSUME Inv, NEW w, JobFails(w)
  PROVE  Inv' /\ (L0Inv => L0Inv')
<1>1. PICK h \in lm.handed : lm' = [lm EXCEPT !.handed = @ \ {h}]
  BY DEF JobFails
<1>2. Owned(lm', {}) /\ SameStock(lm, lm')
  BY <1>1, LaidDown DEF Inv
<1>3. commands' = commands /\ version' = version /\ tables' = tables /\ cluster' = cluster
  BY DEF JobFails
<1> QED
  BY <1>2, <1>3, LmStep DEF SameStock

LEMMA PollerTimeoutStep ==
  ASSUME Inv, NEW w, PollerTimeout(w)
  PROVE  Inv' /\ (L0Inv => L0Inv')
<1>0. Owned(lm, {}) /\ DOMAIN lm = Fields /\ IsSeq(lm.pollers)
  BY DEF Inv, Owned, Typed
<1>1. PICK i \in 1..Len(lm.pollers) : lm' = [lm EXCEPT !.pollers = SubSeq(@, 1, i - 1) \o SubSeq(@, i + 1, Len(@))]
  BY DEF PollerTimeout
<1> DEFINE S == Range(lm.pollers)
           left == SubSeq(lm.pollers, 1, i - 1) \o SubSeq(lm.pollers, i + 1, Len(lm.pollers))
<1>2. left \in Seq(S)
  <2>1. lm.pollers \in Seq(S) /\ Len(lm.pollers) \in Nat
    BY <1>0 DEF IsSeq
  <2> HIDE DEF S
  <2>2. SubSeq(lm.pollers, 1, i - 1) \in Seq(S)
    BY <2>1
  <2>3. SubSeq(lm.pollers, i + 1, Len(lm.pollers)) \in Seq(S)
    BY <2>1
  <2> QED
    BY <2>2, <2>3
<1>3. IsSeq(left)
  BY <1>2, SeqIsSeq
<1>4. /\ DOMAIN lm' = Fields /\ lm'.levels = lm.levels /\ lm'.queue = lm.queue
      /\ lm'.running = lm.running /\ lm'.handed = lm.handed /\ lm'.locked = lm.locked
      /\ lm'.next = lm.next /\ lm'.pending = lm.pending /\ lm'.pollers = left
      /\ lm'.adds = lm.adds /\ lm'.inflight = lm.inflight
  BY <1>0, <1>1 DEF Fields
<1>5. Owned(lm', {})
  BY <1>0, <1>3, <1>4, OwnedFields
<1>6. commands' = commands /\ version' = version /\ tables' = tables /\ cluster' = cluster
  BY DEF PollerTimeout
<1> QED
  BY <1>4, <1>5, <1>6, LmStep

LEMMA WorkerLostStep ==
  ASSUME Inv, NEW w, WorkerLost(w)
  PROVE  Inv' /\ (L0Inv => L0Inv')
<1> DEFINE conn == [worker |-> w, up |-> TRUE]
           gone == [conn EXCEPT !.up = FALSE]
           P == [i \in DOMAIN lm.pollers |-> IF lm.pollers[i] = conn THEN gone ELSE lm.pollers[i]]
           H == {h \in lm.handed : h.to # w}
           m == [lm EXCEPT !.pollers = P, !.handed = H]
           R == {r \in lm.running : r.conn = conn}
<1>0. Owned(lm, {}) /\ DOMAIN lm = Fields /\ IsSeq(lm.pollers)
  BY DEF Inv, Owned, Typed
<1>1. PICK jobs \in Orders(R) : lm' = CancelInProgressJobs(m, jobs)
  BY <1>0 DEF WorkerLost, Fields
<1>2. commands' = commands /\ version' = version /\ tables' = tables /\ cluster' = cluster
  BY DEF WorkerLost
<1>3. R \subseteq lm.running /\ H \subseteq lm.handed
  OBVIOUS
<1> HIDE DEF R, H, conn, gone
<1>4. IsSeq(P)
  <2> DEFINE S == Range(lm.pollers) \cup {gone}
  <2>1. DOMAIN lm.pollers = 1..Len(lm.pollers) /\ Len(lm.pollers) \in Nat
        /\ \A i \in DOMAIN lm.pollers : lm.pollers[i] \in S
    BY <1>0 DEF IsSeq
  <2>2. P \in [1..Len(lm.pollers) -> S]
    BY <2>1
  <2> HIDE DEF P
  <2>3. P \in Seq(S)
    BY <2>1, <2>2
  <2> QED
    BY <2>3, SeqIsSeq
<1> HIDE DEF P
<1>5. /\ DOMAIN m = Fields /\ m.levels = lm.levels /\ m.queue = lm.queue
      /\ m.running = lm.running /\ m.handed = H /\ m.locked = lm.locked
      /\ m.next = lm.next /\ m.pending = lm.pending /\ m.pollers = P
      /\ m.adds = lm.adds /\ m.inflight = lm.inflight
  BY <1>0 DEF Fields
<1> HIDE DEF m
<1>6. Owned(m, {})
  BY <1>0, <1>3, <1>4, <1>5, FewerHanded
<1>7. Keeps(m, lm')
  BY <1>1, <1>3, <1>5, <1>6, CancelAllOwned
<1>8. Owned(lm', {}) /\ lm'.levels = lm.levels /\ lm'.inflight = lm.inflight /\ lm'.adds = lm.adds
  BY <1>5, <1>7 DEF Keeps, SameStock
<1> QED
  BY <1>2, <1>8, LmStep

\* maybeDespatchPendingL0Adds sends no more than level 0 has space for.
LEMMA DespatchIs ==
  ASSUME NEW m, Typed(m), m.adds \in Seq(Table), m.inflight \in Int
  PROVE  LET k == ToDespatch(m)
         IN  /\ k \in Nat /\ Despatched(m) \in Seq(Table) /\ Len(Despatched(m)) = k
             /\ SubSeq(m.adds, k + 1, Len(m.adds)) \in Seq(Table)
             /\ Len(m.levels[1]) + m.inflight <= MaxL0 => Len(m.levels[1]) + (m.inflight + k) <= MaxL0
<1> DEFINE free == GetL0FreeSpace(m)
           k == ToDespatch(m)
<1>0. Level(m, 0) = m.levels[1] /\ Len(m.levels[1]) \in Nat /\ MaxL0 \in Nat /\ Len(m.adds) \in Nat
  BY Level0Is, BoundsAssumption
<1>1. free = MaxL0 - Len(m.levels[1]) - m.inflight /\ free \in Int
  BY <1>0 DEF GetL0FreeSpace
<1>2. k = IF free <= 0 THEN 0 ELSE IF Len(m.adds) < free THEN Len(m.adds) ELSE free
  BY DEF ToDespatch
<1> HIDE DEF free
<1>3. k \in Nat /\ k <= Len(m.adds) /\ (k > 0 => k <= free)
  BY <1>0, <1>1, <1>2
<1> HIDE DEF k
<1>4. Despatched(m) = SubSeq(m.adds, 1, k)
  BY DEF Despatched, k
<1>5. Despatched(m) \in Seq(Table) /\ Len(Despatched(m)) = k
  BY <1>0, <1>3, <1>4
<1>6. SubSeq(m.adds, k + 1, Len(m.adds)) \in Seq(Table)
  BY <1>0, <1>3
<1>7. Len(m.levels[1]) + m.inflight <= MaxL0 => Len(m.levels[1]) + (m.inflight + k) <= MaxL0
  <2>1. /\ Len(m.levels[1]) \in Nat /\ m.inflight \in Int /\ MaxL0 \in Nat /\ k \in Nat
        /\ k > 0 => k <= MaxL0 - Len(m.levels[1]) - m.inflight
    BY <1>0, <1>1, <1>3
  <2>2. \A a, b, c \in Nat, i \in Int : (c > 0 => c <= b - a - i) => (a + i <= b => a + (i + c) <= b)
    OBVIOUS
  <2> QED
    BY <2>1, <2>2
<1> QED
  BY <1>3, <1>5, <1>6, <1>7 DEF k

LEMMA ApplyChangesStep ==
  ASSUME Inv, NEW w, ApplyChanges(w)
  PROVE  Inv' /\ (L0Inv => L0Inv')
<1>0. /\ Owned(lm, {}) /\ version \in Nat /\ tables \in 0..MaxTables /\ cluster \in Nat
      /\ commands \in Seq(Table) /\ lm.adds \in Seq(Table) /\ lm.inflight \in Int
  BY DEF Inv, Typing
<1>1. version' = version /\ tables' = tables /\ cluster' = cluster
  BY DEF ApplyChanges
<1>2. PICK h \in lm.handed :
        /\ h.job.from + 2 <= MaxLevels
        /\ LET m == [lm EXCEPT !.handed = @ \ {h}]
           IN  IF \E r \in lm.running : r.job.id = h.job.id
               THEN \E n \in CompactionComplete(DoApplyChanges(m, h.job), h.job.id) :
                        /\ lm' = MaybeDespatchPendingL0Adds(n)
                        /\ commands' = commands \o Despatched(n)
               ELSE lm' = m /\ UNCHANGED commands
  BY DEF ApplyChanges
<1> DEFINE m == [lm EXCEPT !.handed = @ \ {h}]
<1>3. Owned(m, {}) /\ SameStock(lm, m) /\ m.running = lm.running
  BY <1>0, LaidDown
<1>4. CASE ~ \E r \in lm.running : r.job.id = h.job.id
  <2>1. lm' = m /\ commands' = commands
    BY <1>2, <1>4
  <2> HIDE DEF m
  <2> QED
    BY <2>1, <1>1, <1>3, LmStep DEF SameStock
<1>5. CASE \E r \in lm.running : r.job.id = h.job.id
  <2>1. PICK n \in CompactionComplete(DoApplyChanges(m, h.job), h.job.id) :
           lm' = MaybeDespatchPendingL0Adds(n) /\ commands' = commands \o Despatched(n)
    BY <1>2, <1>5
  <2> HIDE DEF m
  <2>2. IsJob(h.job) /\ \A r \in m.running : r.job.id = h.job.id => r.job = h.job
    <3>1. h.job \in HandedJobs(lm) /\ \A r \in lm.running : r.job \in JobsOf(lm)
      BY DEF HandedJobs, JobsOf
    <3>2. Known(JobsOf(lm) \cup {}, HandedJobs(lm), lm.next)
      BY <1>0 DEF Owned
    <3> QED
      BY <3>1, <3>2, <1>3 DEF Known
  <2>3. /\ Owned(n, {}) /\ n.inflight = m.inflight /\ n.adds = m.adds
        /\ Len(n.levels[1]) <= Len(m.levels[1])
    BY <2>2, <1>2, <1>3, <1>5, CompleteOwned
  <2>4. /\ n.inflight = lm.inflight /\ n.adds = lm.adds /\ Len(n.levels[1]) <= Len(lm.levels[1])
        /\ DOMAIN n = Fields /\ Typed(n) /\ IsSeq(n.pollers)
    BY <2>3, <1>3 DEF SameStock, Owned, Typed
  <2> DEFINE k == ToDespatch(n)
             A == SubSeq(n.adds, k + 1, Len(n.adds))
  <2>5. /\ k \in Nat /\ Despatched(n) \in Seq(Table) /\ Len(Despatched(n)) = k /\ A \in Seq(Table)
        /\ Len(n.levels[1]) + n.inflight <= MaxL0 => Len(n.levels[1]) + (n.inflight + k) <= MaxL0
    BY <2>4, <1>0, DespatchIs
  <2>6. lm' = [n EXCEPT !.inflight = n.inflight + k, !.adds = A]
    BY <2>1, <2>4 DEF MaybeDespatchPendingL0Adds, Fields
  <2> HIDE DEF k, A
  <2>7. /\ DOMAIN lm' = Fields /\ lm'.levels = n.levels /\ lm'.queue = n.queue
        /\ lm'.running = n.running /\ lm'.handed = n.handed /\ lm'.locked = n.locked
        /\ lm'.next = n.next /\ lm'.pending = n.pending /\ lm'.pollers = n.pollers
        /\ lm'.adds = A /\ lm'.inflight = n.inflight + k
    BY <2>4, <2>6 DEF Fields
  <2>8. Owned(lm', {})
    BY <2>3, <2>4, <2>7, OwnedFields
  <2>9. commands' \in Seq(Table) /\ Len(commands') = Len(commands) + k /\ Len(commands) \in Nat
    <3> DEFINE D == Despatched(n)
    <3>1. D \in Seq(Table) /\ Len(D) = k /\ commands' = commands \o D
      BY <2>1, <2>5
    <3> HIDE DEF D
    <3>2. commands \in Seq(Table) /\ Len(commands) \in Nat
      BY <1>0
    <3> QED
      BY <3>1, <3>2, ConcatLen
  <2>10. Inv'
    <3>1. lm'.adds \in Seq(Table) /\ lm'.inflight = lm.inflight + k
      BY <2>4, <2>5, <2>7
    <3>2. lm.inflight \in Int /\ k \in Nat
      BY <1>0, <2>5
    <3>3. lm'.inflight \in Int
      BY ONLY <3>1, <3>2
    <3>4. version' \in Nat /\ tables' \in 0..MaxTables /\ cluster' \in Nat
      BY <1>0, <1>1
    <3> QED
      BY <2>8, <2>9, <3>1, <3>3, <3>4 DEF Inv, Typing
  <2>11. ASSUME L0Inv PROVE L0Inv'
    <3>1. Len(lm.levels[1]) + lm.inflight <= MaxL0 /\ lm.inflight = Len(commands)
      BY <2>11 DEF L0Inv
    <3>2. Len(lm.levels[1]) \in Nat /\ Len(n.levels[1]) \in Nat /\ MaxL0 \in Nat
      BY <2>4, <1>0, Level0Is, BoundsAssumption DEF Owned
    <3>3. Len(n.levels[1]) + n.inflight <= MaxL0
      BY <3>1, <3>2, <2>4, <1>0
    <3>4. Len(lm'.levels[1]) + lm'.inflight <= MaxL0
      BY <3>3, <2>5, <2>7
    <3>5. lm'.inflight = Len(commands')
      BY <3>1, <2>4, <2>7, <2>9
    <3> QED
      BY <3>4, <3>5 DEF L0Inv
  <2> QED
    BY <2>10, <2>11
<1> QED
  BY <1>4, <1>5

-----------------------------------------------------------------------------
(* Theorems *)

LEMMA Initially ==
  ASSUME Init
  PROVE  Inv /\ L0Inv
<1>0. MaxTables \in Nat /\ MaxLevels \in Nat /\ MaxL0 \in Nat
  BY BoundsAssumption
<1>1. /\ DOMAIN lm = Fields /\ lm.levels = <<<<>>>> /\ lm.queue = <<>> /\ lm.running = {}
      /\ lm.handed = {} /\ lm.pollers = <<>> /\ lm.pending = <<0>> /\ lm.locked = {}
      /\ lm.inflight = 0 /\ lm.adds = <<>> /\ lm.next = MaxTables + 1
  BY DEF Init, Fields
<1>2. Range(lm.queue) = {} /\ IsSeq(lm.queue) /\ IsSeq(lm.pollers)
  BY <1>1 DEF Range, IsSeq
<1>3. lm.levels \in Seq(Seq(Table)) /\ Len(lm.levels) = 1 /\ lm.levels[1] = <<>>
  <2>1. <<>> \in Seq(Table)
    OBVIOUS
  <2>2. \A S, x : x \in S => <<x>> \in Seq(S) /\ Len(<<x>>) = 1 /\ <<x>>[1] = x
    OBVIOUS
  <2>3. <<<<>>>> \in Seq(Seq(Table)) /\ Len(<<<<>>>>) = 1 /\ <<<<>>>>[1] = <<>>
    BY <2>1, <2>2
  <2> QED
    BY <1>1, <2>3
<1>4. JobsOf(lm) = {} /\ HandedJobs(lm) = {}
  BY <1>1, <1>2 DEF JobsOf, HandedJobs
<1>5. Typed(lm)
  BY <1>0, <1>1, <1>2, <1>3, FS_EmptySet DEF Typed
<1>6. Once(lm)
  BY <1>1, <1>2 DEF Once
<1>7. Counted({}, lm.pending)
  <2>1. \A l \in Nat : OfLevel({}, l) = {}
    BY DEF OfLevel
  <2>2. \A l \in Nat : At(<<0>>, l) = 0
    BY DEF At
  <2> QED
    BY <2>1, <2>2, <1>1, FS_EmptySet DEF Counted
<1>8. Owned(lm, {})
  BY <1>1, <1>4, <1>5, <1>6, <1>7 DEF Owned, Known, Locks
<1>9. /\ version = 0 /\ tables = 0 /\ cluster = 1 /\ commands = <<>>
  BY DEF Init
<1> QED
  BY <1>0, <1>1, <1>3, <1>8, <1>9 DEF Inv, Typing, L0Inv

LEMMA Steps ==
  ASSUME Inv, [Next]_vars
  PROVE  Inv' /\ ("apply_error" \notin Faults /\ L0Inv => L0Inv')
<1>1. ASSUME NEW K \in KeySets, NEW c \in 1..cluster, NEW v \in 1..(version + 1), Write(K, c, v)
      PROVE  Inv' /\ (L0Inv => L0Inv')
  BY <1>1, WriteStep
<1>2. CASE ApplyL0
  BY <1>2, ApplyL0Step
<1>3. CASE ApplyL0Fails
  BY <1>3, ApplyL0FailsStep
<1>4. ASSUME NEW v \in 0..version, ClusterFails(v) PROVE Inv' /\ (L0Inv => L0Inv')
  BY <1>4, ClusterFailsStep
<1>5. CASE RegisterDeadVersionRange
  BY <1>5, RegisterDeadVersionRangeStep
<1>6. CASE JobTimeout
  BY <1>6, JobTimeoutStep
<1>7. ASSUME NEW w \in Workers, PollForJob(w) PROVE Inv' /\ (L0Inv => L0Inv')
  BY <1>7, PollForJobStep
<1>8. ASSUME NEW w \in Workers, ApplyChanges(w) PROVE Inv' /\ (L0Inv => L0Inv')
  BY <1>8, ApplyChangesStep
<1>9. ASSUME NEW w \in Workers, JobFails(w) PROVE Inv' /\ (L0Inv => L0Inv')
  BY <1>9, JobFailsStep
<1>10. ASSUME NEW w \in Workers, PollerTimeout(w) PROVE Inv' /\ (L0Inv => L0Inv')
  BY <1>10, PollerTimeoutStep
<1>11. ASSUME NEW w \in Workers, WorkerLost(w) PROVE Inv' /\ (L0Inv => L0Inv')
  BY <1>11, WorkerLostStep
<1>12. CASE UNCHANGED vars
  BY <1>12 DEF vars, Inv, Typing, L0Inv
<1> QED
  BY <1>1, <1>2, <1>3, <1>4, <1>5, <1>6, <1>7, <1>8, <1>9, <1>10, <1>11, <1>12 DEF Next

\* The jobs that are queued or in progress are known under their ids once each, however
\* often they are offered again, and have their tables to themselves
\* (queueOrDespatchJob, cancelInProgressJob, applyCompactionChanges).
THEOREM Invariance == Spec => []Inv
<1>1. Init => Inv
  BY Initially
<1>2. Inv /\ [Next]_vars => Inv'
  BY Steps
<1> QED
  BY <1>1, <1>2, PTL DEF Spec

\* A table is locked exactly while a job that is queued or in progress has it, is in no
\* two jobs and stays registered until that job is done, and pendingCompactions counts
\* the jobs of each level: for all numbers of workers, keys, levels, tables and faults,
\* and also with the faults that the code does not cope with otherwise.
THEOREM LocksHeld == Spec => []JobsOwnTheirTables
<1>1. Inv => JobsOwnTheirTables
  <2> SUFFICES ASSUME Inv PROVE JobsOwnTheirTables
    OBVIOUS
  <2>1. /\ Locks(JobsOf(lm) \cup {}, lm.locked, TableIds(lm)) /\ Counted(JobsOf(lm), lm.pending)
        /\ lm.pending \in Seq(Int)
    BY DEF Inv, Owned, Typed
  <2>2. Jobs = JobsOf(lm) /\ JobsOf(lm) \cup {} = JobsOf(lm) /\ {t.id : t \in AllTables} = TableIds(lm)
    BY DEF Jobs, JobsOf, AllTables, TableIds
  <2>3. \A l \in 0..Len(lm.pending) : At(lm.pending, l) = Cardinality({j \in Jobs : j.from = l})
    <3>1. \A l \in 0..Len(lm.pending) : l \in Nat
      BY <2>1
    <3> QED
      BY <3>1, <2>1, <2>2 DEF Counted, OfLevel
  <2> QED
    BY <2>1, <2>2, <2>3 DEF JobsOwnTheirTables, Locks
<1> QED
  BY <1>1, Invariance, PTL

\* Level 0 and the registrations under way never exceed L0MaxTablesBeforeBlocking, unless
\* the application of a replicated command fails, which lowers the count twice
\* (getL0FreeSpace, maybeDespatchPendingL0Adds, sendApplyChangesReliably).
THEOREM L0Limited ==
  ASSUME "apply_error" \notin Faults
  PROVE  Spec => []L0Bounded
<1>1. Init => Inv /\ L0Inv
  BY Initially
<1>2. (Inv /\ L0Inv) /\ [Next]_vars => (Inv /\ L0Inv)'
  BY Steps
<1>3. Inv /\ L0Inv => L0Bounded
  BY DEF L0Inv, L0Bounded
<1> QED
  BY <1>1, <1>2, <1>3, PTL DEF Spec
=============================================================================
