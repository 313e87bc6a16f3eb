-------------------------- MODULE Compaction_lemmas --------------------------
(***************************************************************************)
(* The methods of the level manager that choose, make, offer and end jobs  *)
(* keep the inductive invariant, for any number of tables, levels and      *)
(* jobs.                                                                   *)
(***************************************************************************)
EXTENDS Compaction, SequenceLemmas

-----------------------------------------------------------------------------
(* Kept and SortedByKey *)

KeptStep(s, T, f, i) ==
  IF i = 0 THEN <<>> ELSE IF s[i] \in T THEN Append(f[i - 1], s[i]) ELSE f[i - 1]

\* The recursion of Kept is well founded.
LEMMA KeptDefined ==
  ASSUME NEW s, NEW T, Len(s) \in Nat
  PROVE  \E f : f = [i \in 0..Len(s) |-> KeptStep(s, T, f, i)] /\ Kept(s, T) = f[Len(s)]
<1> DEFINE Run(n) == \E f : f = [i \in 0..n |-> KeptStep(s, T, f, i)]
           Good == {n \in Nat : Run(n)}
<1>1. Run(0)
  <2> DEFINE g == [i \in 0..0 |-> KeptStep(s, T, <<>>, i)]
  <2>1. g = [i \in 0..0 |-> KeptStep(s, T, g, i)]
    BY DEF KeptStep
  <2> QED
    BY <2>1
<1>2. ASSUME NEW n \in Nat, Run(n) PROVE Run(n + 1)
  <2>1. PICK f : f = [i \in 0..n |-> KeptStep(s, T, f, i)]
    BY <1>2
  <2> DEFINE g == [i \in 0..(n + 1) |-> KeptStep(s, T, f, i)]
  <2>2. ASSUME NEW i \in 0..(n + 1) PROVE KeptStep(s, T, f, i) = KeptStep(s, T, g, i)
    <3>1. CASE i = 0
      BY <3>1 DEF KeptStep
    <3>2. CASE i # 0
      <4>1. i - 1 \in 0..n /\ i - 1 \in 0..(n + 1)
        BY <3>2
      <4>2. f[i - 1] = g[i - 1]
        BY <4>1, <2>1
      <4> QED
        BY <4>2, <3>2 DEF KeptStep
    <3> QED
      BY <3>1, <3>2
  <2>3. g = [i \in 0..(n + 1) |-> KeptStep(s, T, g, i)]
    BY <2>2
  <2> HIDE DEF g
  <2> QED
    BY <2>3
<1>3. Nat \subseteq Good
  <2>1. 0 \in Good /\ \A n \in Nat : n \in Good => n + 1 \in Good
    BY <1>1, <1>2
  <2> HIDE DEF Good
  <2> QED
    BY <2>1, Induction
<1>4. Run(Len(s))
  BY <1>3
<1> DEFINE c == CHOOSE f : f = [i \in 0..Len(s) |-> KeptStep(s, T, f, i)]
<1>5. c = [i \in 0..Len(s) |-> KeptStep(s, T, c, i)]
  BY <1>4
<1>6. Kept(s, T) = c[Len(s)]
  BY DEF Kept, KeptStep
<1> HIDE DEF c
<1> QED
  BY <1>5, <1>6

LEMMA KeptIs ==
  ASSUME NEW S, NEW s \in Seq(S), NEW T
  PROVE  /\ Kept(s, T) \in Seq(S) /\ Range(Kept(s, T)) = Range(s) \cap T
         /\ Len(Kept(s, T)) <= Len(s)
<1>0. Len(s) \in Nat /\ DOMAIN s = 1..Len(s)
  OBVIOUS
<1>1. PICK f : f = [i \in 0..Len(s) |-> KeptStep(s, T, f, i)] /\ Kept(s, T) = f[Len(s)]
  BY <1>0, KeptDefined
<1> DEFINE Upto(i) == {s[k] : k \in 1..i}
           P(i) == f[i] \in Seq(S) /\ Range(f[i]) = Upto(i) \cap T /\ Len(f[i]) <= i
           Good == {i \in Nat : i <= Len(s) => P(i)}
<1>2. P(0)
  <2>1. f[0] = <<>>
    BY <1>0, <1>1 DEF KeptStep
  <2> QED
    BY <2>1 DEF Range
<1>3. ASSUME NEW i \in Nat, i + 1 <= Len(s), P(i) PROVE P(i + 1)
  <2>1. f[i + 1] = IF s[i + 1] \in T THEN Append(f[i], s[i + 1]) ELSE f[i]
    <3>1. i + 1 \in 0..Len(s) /\ i + 1 # 0 /\ (i + 1) - 1 = i
      BY <1>0, <1>3
    <3> QED
      BY <3>1, <1>1 DEF KeptStep
  <2>2. s[i + 1] \in S /\ Upto(i + 1) = Upto(i) \cup {s[i + 1]}
    <3>1. 1..(i + 1) = (1..i) \cup {i + 1} /\ i + 1 \in DOMAIN s
      BY <1>0, <1>3
    <3> QED
      BY <3>1
  <2>3. IsSeq(f[i]) /\ Len(f[i]) \in Nat
    BY <1>3, SeqIsSeq
  <2>4. CASE s[i + 1] \in T
    <3>1. Range(f[i + 1]) = Range(f[i]) \cup {s[i + 1]}
      BY <2>1, <2>3, <2>4, RangeAppend
    <3>2. f[i + 1] \in Seq(S) /\ Len(f[i + 1]) = Len(f[i]) + 1
      BY <2>1, <2>2, <2>4, <1>3
    <3> QED
      BY <3>1, <3>2, <2>2, <2>3, <2>4, <1>3
  <2>5. CASE s[i + 1] \notin T
    BY <2>1, <2>2, <2>3, <2>5, <1>3
  <2> QED
    BY <2>4, <2>5
<1>4. Nat \subseteq Good
  <2> HIDE DEF P
  <2>1. 0 \in Good
    BY <1>2
  <2>2. \A i \in Nat : i \in Good => i + 1 \in Good
    BY <1>0, <1>3
  <2> HIDE DEF Good
  <2> QED
    BY <2>1, <2>2, Induction
<1>5. P(Len(s))
  <2> HIDE DEF P
  <2> QED
    BY <1>0, <1>4
<1>6. Range(s) = Upto(Len(s))
  BY <1>0 DEF Range
<1> QED
  BY <1>1, <1>5, <1>6

LEMMA SetToSeqIs ==
  ASSUME NEW S, IsFiniteSet(S)
  PROVE  SetToSeq(S) \in Seq(S) /\ Range(SetToSeq(S)) = S
<1> DEFINE n == Cardinality(S)
           f == SetToSeq(S)
<1>1. n \in Nat /\ ExistsBijection(1..n, S)
  BY FS_CardinalityType
<1>2. \E g \in [1..n -> S] : IsInjective(g)
  BY <1>1 DEF ExistsBijection, Bijection, Injection, IsInjective
<1>3. f \in [1..n -> S] /\ IsInjective(f)
  BY <1>2 DEF SetToSeq, Orders
<1> HIDE DEF f
<1>4. f \in Injection(1..n, S)
  BY <1>3 DEF Injection, IsInjective
<1>5. IsFiniteSet(1..n) /\ Cardinality(1..n) = n
  BY <1>1, FS_Interval
<1>6. f \in Surjection(1..n, S)
  BY <1>4, <1>5, FS_Injection
<1>7. Range(f) = S
  BY <1>3, <1>6 DEF Surjection, Range
<1>8. f \in Seq(S)
  BY <1>1, <1>3
<1> QED
  BY <1>7, <1>8 DEF f

SortedStep(T, f, k) ==
  IF k = 0 THEN <<>> ELSE f[k - 1] \o SetToSeq({t \in T : SmallestKey({t}) = k})

LEMMA SortedDefined ==
  ASSUME NEW T
  PROVE  \E f : f = [k \in 0..NumKeys |-> SortedStep(T, f, k)] /\ SortedByKey(T) = f[NumKeys]
<1> DEFINE Run(n) == \E f : f = [k \in 0..n |-> SortedStep(T, f, k)]
           Good == {n \in Nat : Run(n)}
<1>1. Run(0)
  <2> DEFINE g == [k \in 0..0 |-> SortedStep(T, <<>>, k)]
  <2>1. g = [k \in 0..0 |-> SortedStep(T, g, k)]
    BY DEF SortedStep
  <2> QED
    BY <2>1
<1>2. ASSUME NEW n \in Nat, Run(n) PROVE Run(n + 1)
  <2>1. PICK f : f = [k \in 0..n |-> SortedStep(T, f, k)]
    BY <1>2
  <2> DEFINE g == [k \in 0..(n + 1) |-> SortedStep(T, f, k)]
  <2>2. ASSUME NEW k \in 0..(n + 1) PROVE SortedStep(T, f, k) = SortedStep(T, g, k)
    <3>1. CASE k = 0
      BY <3>1 DEF SortedStep
    <3>2. CASE k # 0
      <4>1. k - 1 \in 0..n /\ k - 1 \in 0..(n + 1)
        BY <3>2
      <4>2. f[k - 1] = g[k - 1]
        BY <4>1, <2>1
      <4> QED
        BY <4>2, <3>2 DEF SortedStep
    <3> QED
      BY <3>1, <3>2
  <2>3. g = [k \in 0..(n + 1) |-> SortedStep(T, g, k)]
    BY <2>2
  <2> HIDE DEF g
  <2> QED
    BY <2>3
<1>3. Nat \subseteq Good
  <2>1. 0 \in Good /\ \A n \in Nat : n \in Good => n + 1 \in Good
    BY <1>1, <1>2
  <2> HIDE DEF Good
  <2> QED
    BY <2>1, Induction
<1>4. Run(NumKeys)
  BY <1>3, BoundsAssumption
<1> DEFINE c == CHOOSE f : f = [k \in 0..NumKeys |-> SortedStep(T, f, k)]
<1>5. c = [k \in 0..NumKeys |-> SortedStep(T, c, k)]
  BY <1>4
<1>6. SortedByKey(T) = c[NumKeys]
  BY DEF SortedByKey, SortedStep
<1> HIDE DEF c
<1> QED
  BY <1>5, <1>6

LEMMA SortedIs ==
  ASSUME NEW T, IsFiniteSet(T), \A t \in T : SmallestKey({t}) \in 1..NumKeys
  PROVE  IsSeq(SortedByKey(T)) /\ Range(SortedByKey(T)) = T
<1>0. NumKeys \in Nat
  BY BoundsAssumption
<1>1. PICK f : f = [k \in 0..NumKeys |-> SortedStep(T, f, k)] /\ SortedByKey(T) = f[NumKeys]
  BY SortedDefined
<1> DEFINE At0(k) == {t \in T : SmallestKey({t}) = k}
           Upto(k) == {t \in T : SmallestKey({t}) \in 1..k}
           P(k) == IsSeq(f[k]) /\ Range(f[k]) = Upto(k)
           Good == {k \in Nat : k <= NumKeys => P(k)}
<1>2. P(0)
  <2>1. f[0] = <<>>
    BY <1>0, <1>1 DEF SortedStep
  <2> QED
    BY <2>1 DEF Range, IsSeq
<1>3. ASSUME NEW k \in Nat, k + 1 <= NumKeys, P(k) PROVE P(k + 1)
  <2>1. f[k + 1] = f[k] \o SetToSeq(At0(k + 1))
    <3>1. k + 1 \in 0..NumKeys /\ k + 1 # 0 /\ (k + 1) - 1 = k
      BY <1>0, <1>3
    <3> QED
      BY <3>1, <1>1 DEF SortedStep
  <2>2. IsFiniteSet(At0(k + 1))
    BY FS_Subset
  <2>3. IsSeq(SetToSeq(At0(k + 1))) /\ Range(SetToSeq(At0(k + 1))) = At0(k + 1)
    <3> HIDE DEF At0
    <3> QED
      BY <2>2, SetToSeqIs, SeqIsSeq
  <2>4. Upto(k + 1) = Upto(k) \cup At0(k + 1)
    <3>1. 1..(k + 1) = (1..k) \cup {k + 1}
      OBVIOUS
    <3> QED
      BY <3>1
  <2> HIDE DEF At0, Upto
  <2>5. IsSeq(f[k + 1]) /\ Range(f[k + 1]) = Range(f[k]) \cup Range(SetToSeq(At0(k + 1)))
    BY <2>1, <2>3, <1>3, RangeConcat
  <2> QED
    BY <2>3, <2>4, <2>5, <1>3
<1>4. Nat \subseteq Good
  <2>1. 0 \in Good
    BY <1>2
  <2>2. \A k \in Nat : k \in Good => k + 1 \in Good
    <3> SUFFICES ASSUME NEW k \in Nat, k \in Good, k + 1 <= NumKeys PROVE P(k + 1)
      OBVIOUS
    <3>1. k <= NumKeys
      BY <1>0
    <3> QED
      BY <3>1, <1>3
  <2> HIDE DEF Good
  <2> QED
    BY <2>1, <2>2, Induction
<1>5. P(NumKeys) /\ Upto(NumKeys) = T
  BY <1>0, <1>4
<1> QED
  BY <1>1, <1>5

-----------------------------------------------------------------------------
(* The inductive invariant *)

Entry == [key : 1..NumKeys, ver : Nat, write : Nat]
Table == [id : Nat, data : (SUBSET Entry) \ {{}}]

Fields == {"levels", "dead", "locked", "queue", "running", "handed", "pollers", "pending",
           "removing", "all", "left", "inner", "many", "inflight", "adds", "cluster", "next"}

IsJob(j) == j.id \in Nat /\ j.from \in Nat /\ j.src \in Seq(Table) /\ j.over \in Seq(Table)

JobsOf(m) == Range(m.queue) \cup {r.job : r \in m.running}
HandedJobs(m) == {h.job : h \in m.handed}
TableIds(m) == {t.id : t \in UNION {Range(m.levels[i]) : i \in DOMAIN m.levels}}
OfLevel(J, l) == {j \in J : j.from = l}

Typed(m) ==
  /\ DOMAIN m = Fields
  /\ m.levels \in Seq(Seq(Table)) /\ Len(m.levels) \in 1..(MaxLevels + 1)
  /\ IsSeq(m.queue) /\ IsSeq(m.pollers) /\ IsFiniteSet(m.running)
  /\ m.pending \in Seq(Int) /\ m.next \in Nat

\* Jobs have ids of their own; a job that a worker still has is the one of that id, if
\* it has not been completed.
Known(J, H, next) ==
  /\ \A j \in J \cup H : IsJob(j) /\ j.id < next
  /\ \A j \in J, i \in J \cup H : i.id = j.id => i = j

\* No job is queued twice or in progress twice, or both.
Once(m) ==
  /\ \A a, b \in DOMAIN m.queue : m.queue[a] = m.queue[b] => a = b
  /\ \A r, s \in m.running : r.job = s.job => r = s
  /\ \A r \in m.running : r.job \notin Range(m.queue)

\* The locks are those of the jobs J, no two of which have a table in common.
Locks(J, locked, ids) ==
  /\ locked = UNION {Ids(j) : j \in J}
  /\ locked \subseteq ids
  /\ \A i, j \in J : i # j => Ids(i) \cap Ids(j) = {}

Counted(J, pending) == \A l \in Nat : At(pending, l) = Cardinality(OfLevel(J, l))

\* The invariant of the level manager while the jobs in X, one at most, are neither
\* queued nor in progress.
Owned(m, X) ==
  /\ Typed(m) /\ Once(m)
  /\ Known(JobsOf(m) \cup X, HandedJobs(m), m.next)
  /\ Locks(JobsOf(m) \cup X, m.locked, TableIds(m))
  /\ Counted(JobsOf(m), m.pending)

SameStock(m, n) == n.levels = m.levels /\ n.inflight = m.inflight /\ n.adds = m.adds

Typing ==
  /\ version \in Nat /\ tables \in 0..MaxTables /\ cluster \in Nat
  /\ commands \in Seq(Table) /\ lm.adds \in Seq(Table) /\ lm.inflight \in Int
Inv == Typing /\ Owned(lm, {})
\* What L0Bounded needs.
L0Inv == lm.inflight = Len(commands) /\ Len(lm.levels[1]) + lm.inflight <= MaxL0

-----------------------------------------------------------------------------
(* Counting *)

LEMMA PutIs ==
  ASSUME NEW s \in Seq(Int), NEW l \in Nat, NEW x \in Int
  PROVE  /\ Put(s, l, x) \in Seq(Int) /\ At(Put(s, l, x), l) = x
         /\ \A k \in Nat : k # l => At(Put(s, l, x), k) = At(s, k)
<1> DEFINE n == IF l < Len(s) THEN Len(s) ELSE l + 1
           p == Put(s, l, x)
<1>1. Len(s) \in Nat /\ DOMAIN s = 1..Len(s) /\ n \in Nat /\ l < n /\ Len(s) <= n
  OBVIOUS
<1>2. \A k \in Nat : At(s, k) \in Int
  BY <1>1 DEF At
<1>3. p = [i \in 1..n |-> IF i = l + 1 THEN x ELSE At(s, i - 1)]
  BY DEF Put
<1>4. \A i \in 1..n : i - 1 \in Nat
  BY <1>1
<1>5. p \in [1..n -> Int]
  BY <1>2, <1>3, <1>4
<1>6. p \in Seq(Int) /\ Len(p) = n
  BY <1>1, <1>5
<1> HIDE DEF p
<1>7. l + 1 \in 1..n /\ p[l + 1] = x
  BY <1>1, <1>3
<1>8. At(p, l) = x
  BY <1>1, <1>6, <1>7 DEF At
<1>9. ASSUME NEW k \in Nat, k # l PROVE At(p, k) = At(s, k)
  <2>1. CASE k < n
    <3>1. k + 1 \in 1..n /\ k + 1 # l + 1 /\ (k + 1) - 1 = k
      BY <1>1, <1>9, <2>1
    <3>2. p[k + 1] = At(s, k)
      BY <3>1, <1>3
    <3> QED
      BY <3>2, <1>6, <2>1 DEF At
  <2>2. CASE ~ (k < n)
    BY <1>1, <1>6, <2>2 DEF At
  <2> QED
    BY <2>1, <2>2
<1> QED
  BY <1>6, <1>8, <1>9 DEF p

LEMMA CountedMore ==
  ASSUME NEW J, IsFiniteSet(J), NEW pending \in Seq(Int), Counted(J, pending),
         NEW job, job.from \in Nat, job \notin J
  PROVE  LET p == Put(pending, job.from, At(pending, job.from) + 1)
         IN  p \in Seq(Int) /\ Counted(J \cup {job}, p)
<1> DEFINE p == Put(pending, job.from, At(pending, job.from) + 1)
<1>1. \A l \in Nat : IsFiniteSet(OfLevel(J, l)) /\ Cardinality(OfLevel(J, l)) \in Nat
  BY FS_Subset, FS_CardinalityType DEF OfLevel
<1>2. At(pending, job.from) \in Nat
  BY <1>1 DEF Counted
<1>3. /\ p \in Seq(Int) /\ At(p, job.from) = At(pending, job.from) + 1
      /\ \A k \in Nat : k # job.from => At(p, k) = At(pending, k)
  <2> DEFINE x == At(pending, job.from) + 1
  <2>0. pending \in Seq(Int)
    OBVIOUS
  <2>1. x \in Int
    BY <1>2
  <2> HIDE DEF x
  <2>2. /\ Put(pending, job.from, x) \in Seq(Int) /\ At(Put(pending, job.from, x), job.from) = x
        /\ \A k \in Nat : k # job.from => At(Put(pending, job.from, x), k) = At(pending, k)
    <3> DEFINE l == job.from
    <3>1. l \in Nat
      OBVIOUS
    <3> HIDE DEF l
    <3>2. /\ Put(pending, l, x) \in Seq(Int) /\ At(Put(pending, l, x), l) = x
          /\ \A k \in Nat : k # l => At(Put(pending, l, x), k) = At(pending, k)
      BY ONLY <2>0, <2>1, <3>1, PutIs
    <3> QED
      BY <3>2 DEF l
  <2> QED
    BY <2>2 DEF x
<1> HIDE DEF p
<1>4. ASSUME NEW l \in Nat PROVE At(p, l) = Cardinality(OfLevel(J \cup {job}, l))
  <2>1. CASE l = job.from
    <3>1. OfLevel(J \cup {job}, l) = OfLevel(J, l) \cup {job} /\ job \notin OfLevel(J, l)
      BY <2>1 DEF OfLevel
    <3>2. Cardinality(OfLevel(J \cup {job}, l)) = Cardinality(OfLevel(J, l)) + 1
      BY <3>1, <1>1, FS_AddElement
    <3> QED
      BY <3>2, <2>1, <1>3 DEF Counted
  <2>2. CASE l # job.from
    <3>1. OfLevel(J \cup {job}, l) = OfLevel(J, l)
      BY <2>2 DEF OfLevel
    <3> QED
      BY <3>1, <2>2, <1>3 DEF Counted
  <2> QED
    BY <2>1, <2>2
<1> QED
  BY <1>3, <1>4 DEF p, Counted

LEMMA CountedLess ==
  ASSUME NEW J, IsFiniteSet(J), NEW pending \in Seq(Int), Counted(J, pending),
         NEW job \in J, job.from \in Nat
  PROVE  LET p == Put(pending, job.from, At(pending, job.from) - 1)
         IN  p \in Seq(Int) /\ Counted(J \ {job}, p)
<1> DEFINE p == Put(pending, job.from, At(pending, job.from) - 1)
<1>1. \A l \in Nat : IsFiniteSet(OfLevel(J, l)) /\ Cardinality(OfLevel(J, l)) \in Nat
  BY FS_Subset, FS_CardinalityType DEF OfLevel
<1>2. At(pending, job.from) \in Nat
  BY <1>1 DEF Counted
<1>3. /\ p \in Seq(Int) /\ At(p, job.from) = At(pending, job.from) - 1
      /\ \A k \in Nat : k # job.from => At(p, k) = At(pending, k)
  <2> DEFINE x == At(pending, job.from) - 1
  <2>0. pending \in Seq(Int)
    OBVIOUS
  <2>1. x \in Int
    BY <1>2
  <2> HIDE DEF x
  <2>2. /\ Put(pending, job.from, x) \in Seq(Int) /\ At(Put(pending, job.from, x), job.from) = x
        /\ \A k \in Nat : k # job.from => At(Put(pending, job.from, x), k) = At(pending, k)
    <3> DEFINE l == job.from
    <3>1. l \in Nat
      OBVIOUS
    <3> HIDE DEF l
    <3>2. /\ Put(pending, l, x) \in Seq(Int) /\ At(Put(pending, l, x), l) = x
          /\ \A k \in Nat : k # l => At(Put(pending, l, x), k) = At(pending, k)
      BY ONLY <2>0, <2>1, <3>1, PutIs
    <3> QED
      BY <3>2 DEF l
  <2> QED
    BY <2>2 DEF x
<1> HIDE DEF p
<1>4. ASSUME NEW l \in Nat PROVE At(p, l) = Cardinality(OfLevel(J \ {job}, l))
  <2>1. CASE l = job.from
    <3>1. OfLevel(J \ {job}, l) = OfLevel(J, l) \ {job} /\ job \in OfLevel(J, l)
      BY <2>1 DEF OfLevel
    <3>2. Cardinality(OfLevel(J \ {job}, l)) = Cardinality(OfLevel(J, l)) - 1
      <4>1. Cardinality(OfLevel(J, l) \ {job}) = Cardinality(OfLevel(J, l)) - 1
        BY <3>1, <1>1, FS_RemoveElement
      <4> QED
        BY <4>1, <3>1
    <3> QED
      BY <3>2, <2>1, <1>3 DEF Counted
  <2>2. CASE l # job.from
    <3>1. OfLevel(J \ {job}, l) = OfLevel(J, l)
      BY <2>2 DEF OfLevel
    <3> QED
      BY <3>1, <2>2, <1>3 DEF Counted
  <2> QED
    BY <2>1, <2>2
<1> QED
  BY <1>3, <1>4 DEF p, Counted

\* The jobs are a finite set.
LEMMA JobsFinite ==
  ASSUME NEW m, Typed(m)
  PROVE  IsFiniteSet(JobsOf(m))
<1> DEFINE R == {r.job : r \in m.running}
           f == [r \in m.running |-> r.job]
<1>1. f \in Surjection(m.running, R)
  BY DEF Surjection
<1>2. IsFiniteSet(m.running) /\ IsFiniteSet(Range(m.queue))
  BY RangeFinite DEF Typed
<1> HIDE DEF f
<1>3. IsFiniteSet(R)
  BY <1>1, <1>2, FS_Surjection
<1> QED
  BY <1>2, <1>3, FS_Union DEF JobsOf

-----------------------------------------------------------------------------
(* Jobs are offered *)

\* What queueOrDespatchJob does.
Offered(m, q, job) ==
  /\ DOMAIN q = Fields /\ SameStock(m, q) /\ q.next = m.next /\ q.locked = m.locked
  /\ q.pending = Put(m.pending, job.from, At(m.pending, job.from) + 1) /\ IsSeq(q.pollers)
  /\ \/ q.queue = Append(m.queue, job) /\ q.running = m.running /\ q.handed = m.handed
     \/ /\ q.queue = m.queue /\ \E p : q.running = m.running \cup {[job |-> job, conn |-> p]}
        /\ q.handed = m.handed \/ \E w : q.handed = m.handed \cup {[to |-> w, job |-> job]}

LEMMA QueueOrDespatchJobOffers ==
  ASSUME NEW m, Typed(m), NEW job
  PROVE  Offered(m, QueueOrDespatchJob(m, job), job)
<1> DEFINE n == Len(m.pollers)
           p == m.pollers[n]
           pending == Put(m.pending, job.from, At(m.pending, job.from) + 1)
           q == QueueOrDespatchJob(m, job)
<1>0. DOMAIN m = Fields /\ IsSeq(m.pollers)
  BY DEF Typed
<1>1. CASE n = 0
  <2>1. q = [[m EXCEPT !.pending = pending] EXCEPT !.queue = Append(@, job)]
    BY <1>1 DEF QueueOrDespatchJob
  <2> HIDE DEF q, pending
  <2>2. /\ DOMAIN q = Fields /\ q.levels = m.levels /\ q.inflight = m.inflight /\ q.adds = m.adds
        /\ q.next = m.next /\ q.locked = m.locked /\ q.pending = pending /\ q.pollers = m.pollers
        /\ q.queue = Append(m.queue, job) /\ q.running = m.running /\ q.handed = m.handed
    BY <2>1, <1>0 DEF Fields
  <2> QED
    BY <2>2, <1>0 DEF Offered, SameStock, q, pending
<1>2. CASE n # 0
  <2> DEFINE H == IF p.up THEN m.handed \cup {[to |-> p.worker, job |-> job]} ELSE m.handed
             R == m.running \cup {[job |-> job, conn |-> p]}
             P == SubSeq(m.pollers, 1, n - 1)
  <2>1. q = [[m EXCEPT !.pending = pending] EXCEPT !.pollers = P, !.running = R, !.handed = H]
    BY <1>2, <1>0 DEF QueueOrDespatchJob, Fields
  <2>2. IsSeq(P)
    <3>1. m.pollers \in Seq(Range(m.pollers)) /\ n \in Nat
      BY <1>0 DEF IsSeq
    <3>2. P \in Seq(Range(m.pollers))
      BY <3>1, <1>2
    <3> QED
      BY <3>2, SeqIsSeq
  <2>3. H = m.handed \/ \E w : H = m.handed \cup {[to |-> w, job |-> job]}
    OBVIOUS
  <2>4. \E c : R = m.running \cup {[job |-> job, conn |-> c]}
    OBVIOUS
  <2> HIDE DEF q, pending, H, R, P
  <2>5. /\ DOMAIN q = Fields /\ q.levels = m.levels /\ q.inflight = m.inflight /\ q.adds = m.adds
        /\ q.next = m.next /\ q.locked = m.locked /\ q.pending = pending /\ q.pollers = P
        /\ q.queue = m.queue /\ q.running = R /\ q.handed = H
    BY <2>1, <1>0 DEF Fields
  <2> QED
    BY <2>2, <2>3, <2>4, <2>5 DEF Offered, SameStock, q, pending
<1> QED
  BY <1>1, <1>2

LEMMA OfferedJobs ==
  ASSUME NEW m, NEW q, NEW job, Typed(m), Once(m), Offered(m, q, job), job \notin JobsOf(m)
  PROVE  /\ JobsOf(q) = JobsOf(m) \cup {job}
         /\ HandedJobs(m) \subseteq HandedJobs(q) /\ HandedJobs(q) \subseteq HandedJobs(m) \cup {job}
         /\ IsSeq(q.queue) /\ IsFiniteSet(q.running) /\ Once(q)
<1>0. IsSeq(m.queue) /\ IsFiniteSet(m.running)
  BY DEF Typed
<1>1. CASE q.queue = Append(m.queue, job) /\ q.running = m.running /\ q.handed = m.handed
  <2>1. IsSeq(q.queue) /\ Range(q.queue) = Range(m.queue) \cup {job}
    BY <1>0, <1>1, RangeAppend
  <2>2. JobsOf(q) = JobsOf(m) \cup {job}
    BY <2>1, <1>1 DEF JobsOf
  <2>3. \A a, b \in DOMAIN q.queue : q.queue[a] = q.queue[b] => a = b
    <3>1. /\ Len(m.queue) \in Nat /\ DOMAIN m.queue = 1..Len(m.queue)
          /\ DOMAIN q.queue = 1..(Len(m.queue) + 1)
          /\ q.queue[Len(m.queue) + 1] = job
          /\ \A i \in 1..Len(m.queue) : q.queue[i] = m.queue[i]
      BY <1>0, <1>1 DEF IsSeq
    <3>2. \A i \in 1..Len(m.queue) : m.queue[i] # job
      BY <3>1 DEF JobsOf, Range
    <3>3. \A i \in 1..(Len(m.queue) + 1) : i \in 1..Len(m.queue) \/ i = Len(m.queue) + 1
      BY <3>1
    <3> QED
      BY <3>1, <3>2, <3>3 DEF Once
  <2>4. \A r \in q.running : r.job \notin Range(q.queue)
    BY <2>1, <1>1 DEF Once, JobsOf
  <2> QED
    BY <2>1, <2>2, <2>3, <2>4, <1>0, <1>1 DEF Once, HandedJobs
<1>2. CASE /\ q.queue = m.queue /\ \E p : q.running = m.running \cup {[job |-> job, conn |-> p]}
           /\ q.handed = m.handed \/ \E w : q.handed = m.handed \cup {[to |-> w, job |-> job]}
  <2>1. PICK p : q.running = m.running \cup {[job |-> job, conn |-> p]}
    BY <1>2
  <2>2. JobsOf(q) = JobsOf(m) \cup {job}
    <3> DEFINE s == [job |-> job, conn |-> p]
    <3>0. s.job = job /\ q.running = m.running \cup {s}
      BY <2>1
    <3> HIDE DEF s
    <3>1. {r.job : r \in q.running} = {r.job : r \in m.running} \cup {job}
      BY <3>0
    <3> QED
      BY <3>1, <1>2 DEF JobsOf
  <2>3. IsFiniteSet(q.running)
    BY <2>1, <1>0, FS_AddElement
  <2>4. \A r, s \in q.running : r.job = s.job => r = s
    <3>1. \A r \in m.running : r.job # job
      BY DEF JobsOf
    <3> QED
      BY <3>1, <2>1 DEF Once
  <2>5. \A r \in q.running : r.job \notin Range(q.queue)
    BY <2>1, <1>2 DEF Once, JobsOf
  <2>6. HandedJobs(m) \subseteq HandedJobs(q) /\ HandedJobs(q) \subseteq HandedJobs(m) \cup {job}
    BY <1>2 DEF HandedJobs
  <2> QED
    BY <2>2, <2>3, <2>4, <2>5, <2>6, <1>0, <1>2 DEF Once
<1> QED
  BY <1>1, <1>2 DEF Offered

\* A job that is offered, new or again, is queued or in progress afterwards.
LEMMA OfferOwned ==
  ASSUME NEW m, NEW job, Owned(m, {job}), job \notin JobsOf(m)
  PROVE  LET q == QueueOrDespatchJob(m, job)
         IN  Owned(q, {}) /\ SameStock(m, q) /\ q.next = m.next
<1> DEFINE q == QueueOrDespatchJob(m, job)
<1>1. Typed(m) /\ Once(m)
  BY DEF Owned
<1>2. Offered(m, q, job)
  BY <1>1, QueueOrDespatchJobOffers
<1> HIDE DEF q
<1>3. /\ JobsOf(q) = JobsOf(m) \cup {job}
      /\ HandedJobs(m) \subseteq HandedJobs(q) /\ HandedJobs(q) \subseteq HandedJobs(m) \cup {job}
      /\ IsSeq(q.queue) /\ IsFiniteSet(q.running) /\ Once(q)
  BY <1>1, <1>2, OfferedJobs
<1>4. SameStock(m, q) /\ q.next = m.next /\ q.locked = m.locked /\ DOMAIN q = Fields /\ IsSeq(q.pollers)
      /\ q.pending = Put(m.pending, job.from, At(m.pending, job.from) + 1)
  BY <1>2 DEF Offered
<1>5. IsJob(job)
  BY DEF Owned, Known
<1>6. q.pending \in Seq(Int) /\ Counted(JobsOf(q), q.pending)
  <2>1. IsFiniteSet(JobsOf(m)) /\ m.pending \in Seq(Int) /\ Counted(JobsOf(m), m.pending)
    BY <1>1, JobsFinite DEF Owned, Typed
  <2>2. job.from \in Nat
    BY <1>5 DEF IsJob
  <2> QED
    BY <2>1, <2>2, <1>3, <1>4, CountedMore
<1>7. Typed(q)
  BY <1>1, <1>3, <1>4, <1>6 DEF Typed, SameStock
<1>8. Known(JobsOf(q) \cup {}, HandedJobs(q), q.next)
  BY <1>3, <1>4 DEF Owned, Known
<1>9. Locks(JobsOf(q) \cup {}, q.locked, TableIds(q))
  <2>1. TableIds(q) = TableIds(m)
    BY <1>4 DEF SameStock, TableIds
  <2> QED
    BY <2>1, <1>3, <1>4 DEF Owned
<1> QED
  BY <1>3, <1>4, <1>6, <1>7, <1>8, <1>9 DEF Owned, q

-----------------------------------------------------------------------------
(* Jobs are made *)

\* The invariant is about these fields only.
LEMMA OwnedFields ==
  ASSUME NEW m, NEW n, NEW X, Owned(m, X), DOMAIN n = Fields,
         n.levels = m.levels, n.queue = m.queue, n.running = m.running, n.handed = m.handed,
         n.locked = m.locked, n.next = m.next, n.pending = m.pending, IsSeq(n.pollers)
  PROVE  Owned(n, X)
<1>1. /\ JobsOf(n) = JobsOf(m) /\ HandedJobs(n) = HandedJobs(m) /\ TableIds(n) = TableIds(m)
      /\ Once(n) = Once(m)
  BY DEF JobsOf, HandedJobs, TableIds, Once
<1>2. Typed(n)
  BY DEF Owned, Typed
<1> QED
  BY <1>1, <1>2 DEF Owned, Once

LEMMA LevelIs ==
  ASSUME NEW m, Typed(m), NEW l \in Nat
  PROVE  Level(m, l) \in Seq(Table) /\ \A t \in Range(Level(m, l)) : t \in Table /\ t.id \in TableIds(m)
<1>1. m.levels \in Seq(Seq(Table)) /\ DOMAIN m.levels = 1..Len(m.levels) /\ Len(m.levels) \in Nat
  BY DEF Typed
<1>2. CASE l < Len(m.levels)
  <2>1. l + 1 \in DOMAIN m.levels /\ Level(m, l) = m.levels[l + 1]
    BY <1>1, <1>2 DEF Level
  <2>2. m.levels[l + 1] \in Seq(Table)
    BY <2>1, <1>1
  <2>3. Range(m.levels[l + 1]) \subseteq Table
    BY <2>2, SeqIsSeq
  <2> QED
    BY <2>1, <2>2, <2>3 DEF TableIds
<1>3. CASE ~ (l < Len(m.levels))
  BY <1>3 DEF Level, Range
<1> QED
  BY <1>2, <1>3

\* A new job for tables of the level manager that are not locked.
LEMMA AddJobOwned ==
  ASSUME NEW m, Owned(m, {}), NEW level \in Nat, NEW src \in Seq(Table), NEW over \in Seq(Table),
         NEW dead, \A t \in Range(src) \cup Range(over) : t.id \in TableIds(m) /\ t.id \notin m.locked
  PROVE  LET n == AddJob(m, NewJob(m, level, src, over, dead))
         IN  Owned(n, {}) /\ SameStock(m, n)
<1> DEFINE job == NewJob(m, level, src, over, dead)
           l == LockTablesForJob(m, job)
<1>0. DOMAIN m = Fields /\ m.next \in Nat /\ Typed(m)
  BY DEF Owned, Typed
<1>1. job.id = m.next /\ IsJob(job) /\ job.src = src /\ job.over = over
  BY <1>0 DEF NewJob, IsJob
<1>2. Ids(job) \subseteq TableIds(m) /\ Ids(job) \cap m.locked = {}
  BY <1>1 DEF Ids
<1> HIDE DEF job
<1>3. /\ DOMAIN l = Fields /\ l.levels = m.levels /\ l.queue = m.queue /\ l.running = m.running
      /\ l.handed = m.handed /\ l.pending = m.pending /\ l.pollers = m.pollers
      /\ l.inflight = m.inflight /\ l.adds = m.adds
      /\ l.next = m.next + 1 /\ l.locked = m.locked \cup Ids(job)
  BY <1>0 DEF LockTablesForJob, Fields
<1> HIDE DEF l
<1>4. /\ JobsOf(l) = JobsOf(m) /\ HandedJobs(l) = HandedJobs(m) /\ TableIds(l) = TableIds(m)
      /\ SameStock(m, l)
  BY <1>3 DEF JobsOf, HandedJobs, TableIds, SameStock
<1>5. Typed(l) /\ Once(l)
  <2>1. Typed(l)
    BY <1>0, <1>3 DEF Typed
  <2>2. Once(l)
    BY <1>3 DEF Owned, Once
  <2> QED
    BY <2>1, <2>2
<1>6. \A j \in JobsOf(m) \cup HandedJobs(m) : IsJob(j) /\ j.id \in Nat /\ j.id < m.next
  BY DEF Owned, Known, IsJob
<1>7. job \notin JobsOf(l)
  BY <1>0, <1>1, <1>4, <1>6
<1>8. Known(JobsOf(l) \cup {job}, HandedJobs(l), l.next)
  <2>1. \A j \in JobsOf(m) \cup {job} \cup HandedJobs(m) : IsJob(j) /\ j.id < l.next
    BY <1>0, <1>1, <1>3, <1>6
  <2>2. \A j \in JobsOf(m) \cup {job}, i \in JobsOf(m) \cup {job} \cup HandedJobs(m) : i.id = j.id => i = j
    BY <1>0, <1>1, <1>6 DEF Owned, Known
  <2> QED
    BY <2>1, <2>2, <1>4 DEF Known
<1>9. Locks(JobsOf(l) \cup {job}, l.locked, TableIds(l))
  <2>1. Locks(JobsOf(m), m.locked, TableIds(m))
    BY DEF Owned
  <2>2. l.locked = UNION {Ids(j) : j \in JobsOf(m) \cup {job}}
    BY <2>1, <1>3 DEF Locks
  <2>3. \A j \in JobsOf(m) : Ids(j) \subseteq m.locked
    BY <2>1 DEF Locks
  <2>4. \A i, j \in JobsOf(m) \cup {job} : i # j => Ids(i) \cap Ids(j) = {}
    BY <2>1, <2>3, <1>2 DEF Locks
  <2> QED
    BY <2>1, <2>2, <2>4, <1>2, <1>3, <1>4 DEF Locks
<1>10. Owned(l, {job})
  BY <1>3, <1>4, <1>5, <1>8, <1>9 DEF Owned
<1>11. Owned(QueueOrDespatchJob(l, job), {}) /\ SameStock(l, QueueOrDespatchJob(l, job))
  BY <1>7, <1>10, OfferOwned
<1> QED
  BY <1>4, <1>11 DEF AddJob, SameStock, l, job

Outcome == {"lm", "count", "locked"}

\* What making jobs may change.
Schedules(m, a) == DOMAIN a = Outcome /\ Owned(a.lm, {}) /\ SameStock(m, a.lm)

LEMMA NotLocked ==
  ASSUME NEW m, NEW T, ~AnyLocked(m, T)
  PROVE  \A t \in T : t.id \notin m.locked
BY DEF AnyLocked

LEMMA OverlappingIs ==
  ASSUME NEW m, Typed(m), NEW l \in Nat, NEW T
  PROVE  /\ GetOverlappingTables(m, l, T) \in Seq(Table)
         /\ \A t \in Range(GetOverlappingTables(m, l, T)) : t.id \in TableIds(m)
<1>1. Level(m, l) \in Seq(Table) /\ \A t \in Range(Level(m, l)) : t.id \in TableIds(m)
  BY LevelIs
<1> QED
  BY <1>1, KeptIs DEF GetOverlappingTables

LEMMA ScheduleTableOwned ==
  ASSUME NEW m, NEW a, Schedules(m, a), NEW level \in Nat, NEW dead,
         NEW t \in Table, t.id \in TableIds(m)
  PROVE  Schedules(m, ScheduleTable(a, level, dead, t))
<1> DEFINE over == GetOverlappingTables(a.lm, level + 1, {t})
           n == AddJob(a.lm, NewJob(a.lm, level, <<t>>, over, dead))
           b == ScheduleTable(a, level, dead, t)
<1>0. DOMAIN a = Outcome /\ Owned(a.lm, {}) /\ SameStock(m, a.lm) /\ Typed(a.lm)
  BY DEF Schedules, Owned
<1>1. TableIds(a.lm) = TableIds(m)
  BY <1>0 DEF SameStock, TableIds
<1>2. over \in Seq(Table) /\ \A u \in Range(over) : u.id \in TableIds(m)
  BY <1>0, <1>1, OverlappingIs
<1> HIDE DEF over
<1>3. CASE AnyLocked(a.lm, {t} \cup Range(over))
  <2>1. b = [a EXCEPT !.locked = TRUE]
    BY <1>3 DEF ScheduleTable, over
  <2> QED
    BY <2>1, <1>0 DEF Schedules, Outcome
<1>4. CASE ~AnyLocked(a.lm, {t} \cup Range(over))
  <2>1. b = [a EXCEPT !.lm = n, !.count = @ + 1]
    BY <1>4 DEF ScheduleTable, over
  <2>2. <<t>> \in Seq(Table) /\ Range(<<t>>) = {t}
    BY DEF Range
  <2>3. \A u \in Range(<<t>>) \cup Range(over) : u.id \in TableIds(a.lm) /\ u.id \notin a.lm.locked
    BY <2>2, <1>1, <1>2, <1>4, NotLocked
  <2>4. Owned(n, {}) /\ SameStock(a.lm, n)
    BY <2>2, <2>3, <1>0, <1>2, AddJobOwned
  <2> HIDE DEF n
  <2>5. DOMAIN b = Outcome /\ b.lm = n
    BY <2>1, <1>0 DEF Outcome
  <2> QED
    BY <2>4, <2>5, <1>0 DEF Schedules, SameStock
<1> QED
  BY <1>3, <1>4

LEMMA ReverseIs ==
  ASSUME NEW S, NEW s \in Seq(S)
  PROVE  Reverse(s) \in Seq(S) /\ Range(Reverse(s)) \subseteq Range(s)
<1>1. Len(s) \in Nat /\ DOMAIN s = 1..Len(s)
  OBVIOUS
<1>2. \A i \in 1..Len(s) : (Len(s) - i) + 1 \in 1..Len(s)
  BY <1>1
<1>3. Reverse(s) = [i \in 1..Len(s) |-> s[(Len(s) - i) + 1]]
  BY DEF Reverse
<1>4. Reverse(s) \in [1..Len(s) -> Range(s)]
  BY <1>1, <1>2, <1>3 DEF Range
<1>5. Range(s) \subseteq S
  BY <1>1 DEF Range
<1> QED
  BY <1>1, <1>4, <1>5 DEF Range

LEMMA ScheduleL0Owned ==
  ASSUME NEW m, NEW a, Schedules(m, a), NEW dead,
         NEW T \in Seq(Table), \A t \in Range(T) : t.id \in TableIds(m)
  PROVE  Schedules(m, ScheduleL0(a, dead, T))
<1> DEFINE over == GetOverlappingTables(a.lm, 1, Range(T))
           n == AddJob(a.lm, NewJob(a.lm, 0, Reverse(T), over, dead))
           b == ScheduleL0(a, dead, T)
<1>0. DOMAIN a = Outcome /\ Owned(a.lm, {}) /\ SameStock(m, a.lm) /\ Typed(a.lm)
  BY DEF Schedules, Owned
<1>1. TableIds(a.lm) = TableIds(m)
  BY <1>0 DEF SameStock, TableIds
<1>2. over \in Seq(Table) /\ \A u \in Range(over) : u.id \in TableIds(m)
  BY <1>0, <1>1, OverlappingIs
<1> HIDE DEF over
<1>3. CASE AnyLocked(a.lm, Range(T) \cup Range(over))
  <2>1. b = [a EXCEPT !.locked = TRUE]
    BY <1>3 DEF ScheduleL0, over
  <2> QED
    BY <2>1, <1>0 DEF Schedules, Outcome
<1>4. CASE ~AnyLocked(a.lm, Range(T) \cup Range(over))
  <2>1. b = [a EXCEPT !.lm = n, !.count = @ + 1]
    BY <1>4 DEF ScheduleL0, over
  <2>2. Reverse(T) \in Seq(Table) /\ Range(Reverse(T)) \subseteq Range(T)
    BY ReverseIs
  <2>3. \A u \in Range(Reverse(T)) \cup Range(over) : u.id \in TableIds(a.lm) /\ u.id \notin a.lm.locked
    BY <2>2, <1>1, <1>2, <1>4, NotLocked
  <2>4. Owned(n, {}) /\ SameStock(a.lm, n)
    BY <2>2, <2>3, <1>0, <1>2, AddJobOwned
  <2> HIDE DEF n
  <2>5. DOMAIN b = Outcome /\ b.lm = n
    BY <2>1, <1>0 DEF Outcome
  <2> QED
    BY <2>4, <2>5, <1>0 DEF Schedules, SameStock
<1> QED
  BY <1>3, <1>4

TablesStep(a, level, dead, T, f, i) ==
  IF i = 0 THEN a ELSE ScheduleTable(f[i - 1], level, dead, T[i])

LEMMA TablesDefined ==
  ASSUME NEW a, NEW level, NEW dead, NEW T, Len(T) \in Nat
  PROVE  \E f : /\ f = [i \in 0..Len(T) |-> TablesStep(a, level, dead, T, f, i)]
                /\ ScheduleTables(a, level, dead, T) = f[Len(T)]
<1> DEFINE Step(f, i) == TablesStep(a, level, dead, T, f, i)
           Run(n) == \E f : f = [i \in 0..n |-> Step(f, i)]
           Good == {n \in Nat : Run(n)}
<1>1. Run(0)
  <2> DEFINE g == [i \in 0..0 |-> Step(<<>>, i)]
  <2>1. g = [i \in 0..0 |-> Step(g, i)]
    BY DEF TablesStep
  <2> QED
    BY <2>1
<1>2. ASSUME NEW n \in Nat, Run(n) PROVE Run(n + 1)
  <2>1. PICK f : f = [i \in 0..n |-> Step(f, i)]
    BY <1>2
  <2> DEFINE g == [i \in 0..(n + 1) |-> Step(f, i)]
  <2>2. ASSUME NEW i \in 0..(n + 1) PROVE Step(f, i) = Step(g, i)
    <3>1. CASE i = 0
      BY <3>1 DEF TablesStep
    <3>2. CASE i # 0
      <4>1. i - 1 \in 0..n /\ i - 1 \in 0..(n + 1)
        BY <3>2
      <4>2. f[i - 1] = g[i - 1]
        BY <4>1, <2>1
      <4> QED
        BY <4>2, <3>2 DEF TablesStep
    <3> QED
      BY <3>1, <3>2
  <2>3. g = [i \in 0..(n + 1) |-> Step(g, i)]
    BY <2>2
  <2> HIDE DEF g
  <2> QED
    BY <2>3
<1>3. Nat \subseteq Good
  <2>1. 0 \in Good /\ \A n \in Nat : n \in Good => n + 1 \in Good
    BY <1>1, <1>2
  <2> HIDE DEF Good
  <2> QED
    BY <2>1, Induction
<1>4. Run(Len(T))
  BY <1>3
<1> DEFINE c == CHOOSE f : f = [i \in 0..Len(T) |-> Step(f, i)]
<1>5. c = [i \in 0..Len(T) |-> Step(c, i)]
  BY <1>4
<1>6. ScheduleTables(a, level, dead, T) = c[Len(T)]
  BY DEF ScheduleTables, TablesStep
<1> HIDE DEF c
<1> QED
  BY <1>5, <1>6

LEMMA ScheduleTablesOwned ==
  ASSUME NEW m, NEW a, Schedules(m, a), NEW level \in Nat, NEW dead,
         NEW T \in Seq(Table), \A t \in Range(T) : t.id \in TableIds(m)
  PROVE  Schedules(m, ScheduleTables(a, level, dead, T))
<1>0. Len(T) \in Nat /\ DOMAIN T = 1..Len(T)
  OBVIOUS
<1>1. PICK f : /\ f = [i \in 0..Len(T) |-> TablesStep(a, level, dead, T, f, i)]
               /\ ScheduleTables(a, level, dead, T) = f[Len(T)]
  BY <1>0, TablesDefined
<1> DEFINE Good == {i \in Nat : i <= Len(T) => Schedules(m, f[i])}
<1>2. f[0] = a
  BY <1>0, <1>1 DEF TablesStep
<1>3. ASSUME NEW i \in Nat, i + 1 <= Len(T), Schedules(m, f[i]) PROVE Schedules(m, f[i + 1])
  <2>1. i + 1 \in 0..Len(T) /\ i + 1 # 0 /\ (i + 1) - 1 = i /\ i + 1 \in DOMAIN T
    BY <1>0, <1>3
  <2>2. f[i + 1] = ScheduleTable(f[i], level, dead, T[i + 1])
    BY <2>1, <1>1 DEF TablesStep
  <2>3. T[i + 1] \in Table /\ T[i + 1].id \in TableIds(m)
    BY <2>1 DEF Range
  <2> QED
    BY <2>2, <2>3, <1>3, ScheduleTableOwned
<1>4. Nat \subseteq Good
  <2>1. 0 \in Good
    BY <1>2
  <2>2. \A i \in Nat : i \in Good => i + 1 \in Good
    <3> SUFFICES ASSUME NEW i \in Nat, i \in Good, i + 1 <= Len(T) PROVE Schedules(m, f[i + 1])
      OBVIOUS
    <3>1. i <= Len(T)
      BY <1>0
    <3> QED
      BY <3>1, <1>3
  <2> HIDE DEF Good
  <2> QED
    BY <2>1, <2>2, Induction
<1> QED
  BY <1>0, <1>1, <1>4

\* Fields that no part of the invariant is about may change.
LEMMA CountLevelOwned ==
  ASSUME NEW m, NEW s, Schedules(m, s), NEW level, NEW dead
  PROVE  Schedules(m, CountLevel(s, level, dead))
<1> DEFINE inner == Put(s.lm.inner, level, s.count)
           n == [s.lm EXCEPT !.inner = inner]
           b == CountLevel(s, level, dead)
<1>0. DOMAIN s = Outcome /\ Owned(s.lm, {}) /\ SameStock(m, s.lm) /\ DOMAIN s.lm = Fields /\ IsSeq(s.lm.pollers)
  BY DEF Schedules, Owned, Typed
<1>1. CASE dead = <<>>
  BY <1>1 DEF CountLevel
<1>2. CASE dead # <<>>
  <2>1. b = [s EXCEPT !.lm = n]
    BY <1>0, <1>2 DEF CountLevel, Outcome
  <2> HIDE DEF b, inner
  <2>2. /\ DOMAIN n = Fields /\ n.levels = s.lm.levels /\ n.queue = s.lm.queue
        /\ n.running = s.lm.running /\ n.handed = s.lm.handed /\ n.locked = s.lm.locked
        /\ n.next = s.lm.next /\ n.pending = s.lm.pending /\ n.pollers = s.lm.pollers
        /\ n.inflight = s.lm.inflight /\ n.adds = s.lm.adds
    BY <1>0 DEF Fields
  <2> HIDE DEF n
  <2>3. Owned(n, {})
    BY <2>2, <1>0, OwnedFields
  <2>4. DOMAIN b = Outcome /\ b.lm = n
    BY <2>1, <1>0 DEF Outcome
  <2> QED
    BY <2>2, <2>3, <2>4, <1>0 DEF Schedules, SameStock, b
<1> QED
  BY <1>1, <1>2

LEMMA ScheduleCompactionOwned ==
  ASSUME NEW m, Owned(m, {}), NEW level \in Nat, NEW dead,
         NEW T \in Seq(Table), \A t \in Range(T) : t.id \in TableIds(m)
  PROVE  Schedules(m, ScheduleCompaction(m, level, T, dead))
<1> DEFINE none == [lm |-> m, count |-> 0, locked |-> FALSE]
<1>1. Schedules(m, none)
  BY DEF Schedules, Outcome, SameStock
<1>2. Schedules(m, ScheduleL0(none, dead, T)) /\ Schedules(m, ScheduleTables(none, level, dead, T))
  <2> HIDE DEF none
  <2> QED
    BY <1>1, ScheduleL0Owned, ScheduleTablesOwned
<1>3. ScheduleCompaction(m, level, T, dead)
       = CountLevel(IF level = 0 THEN ScheduleL0(none, dead, T)
                    ELSE ScheduleTables(none, level, dead, T), level, dead)
  BY DEF ScheduleCompaction
<1> HIDE DEF none
<1> QED
  BY <1>2, <1>3, CountLevelOwned

-----------------------------------------------------------------------------
(* The removal of dead versions *)

LEMMA TablesToRemoveIs ==
  ASSUME NEW m, Typed(m), NEW l \in Nat, NEW r
  PROVE  /\ TablesToRemove(m, l, r) \in Seq(Table)
         /\ \A t \in Range(TablesToRemove(m, l, r)) : t.id \in TableIds(m)
<1> DEFINE T == Level(m, l)
<1>1. T \in Seq(Table) /\ \A t \in Range(T) : t.id \in TableIds(m)
  BY LevelIs
<1> HIDE DEF T
<1>2. /\ Kept(T, {t \in Range(T) : Matches(r, t)}) \in Seq(Table)
      /\ Range(Kept(T, {t \in Range(T) : Matches(r, t)})) \subseteq Range(T)
  BY <1>1, KeptIs
<1>3. Reverse(T) \in Seq(Table) /\ Range(Reverse(T)) \subseteq Range(T)
  BY <1>1, ReverseIs
<1>4. <<>> \in Seq(Table) /\ Range(<<>>) = {}
  BY DEF Range
<1>5. \/ TablesToRemove(m, l, r) = Kept(T, {t \in Range(T) : Matches(r, t)})
      \/ TablesToRemove(m, l, r) = Reverse(T)
      \/ TablesToRemove(m, l, r) = <<>>
  BY DEF TablesToRemove, T
<1> QED
  BY <1>1, <1>2, <1>3, <1>4, <1>5

LEMMA LevelsToRemoveIs ==
  ASSUME NEW m, Typed(m), NEW r
  PROVE  LevelsToRemove(m, r) \in Seq(Nat)
<1> DEFINE all == [i \in 1..Len(m.levels) |-> i - 1]
<1>1. Len(m.levels) \in Nat
  BY DEF Typed
<1>2. all \in Seq(Nat)
  BY <1>1
<1> HIDE DEF all
<1>3. \A T : Kept(all, T) \in Seq(Nat)
  BY <1>2, KeptIs
<1> QED
  BY <1>3 DEF LevelsToRemove, all

RemovalOutcome == {"lm", "count", "locked", "many"}
Removes(m, a) == DOMAIN a = RemovalOutcome /\ Owned(a.lm, {}) /\ SameStock(m, a.lm)

LEMMA ScheduleLevelOwned ==
  ASSUME NEW m, Typed(m), NEW a, Removes(m, a), NEW l \in Nat, NEW range
  PROVE  Removes(m, ScheduleLevel(a, m, l, range))
<1> DEFINE T == TablesToRemove(m, l, range)
           s == ScheduleCompaction(a.lm, l, T, <<range>>)
           b == ScheduleLevel(a, m, l, range)
<1>0. Owned(a.lm, {}) /\ SameStock(m, a.lm)
  BY DEF Removes
<1>1. TableIds(a.lm) = TableIds(m)
  BY <1>0 DEF SameStock, TableIds
<1>2. T \in Seq(Table) /\ \A t \in Range(T) : t.id \in TableIds(a.lm)
  BY <1>1, TablesToRemoveIs
<1> HIDE DEF T
<1>3. Schedules(a.lm, s)
  BY <1>0, <1>2, ScheduleCompactionOwned
<1>4. b = [lm |-> s.lm, count |-> a.count + s.count, locked |-> a.locked \/ s.locked,
           many |-> a.many \/ s.count > 1]
  BY DEF ScheduleLevel, AddRemoval, T
<1> HIDE DEF s, b
<1>5. DOMAIN b = RemovalOutcome /\ b.lm = s.lm
  BY <1>4 DEF RemovalOutcome
<1> QED
  BY <1>0, <1>3, <1>5 DEF Schedules, Removes, SameStock, b

RemovalStep(m, range, levels, f, i) ==
  IF i = 0 THEN [lm |-> m, count |-> 0, locked |-> FALSE, many |-> FALSE]
  ELSE ScheduleLevel(f[i - 1], m, levels[i], range)

LEMMA RemovalDefined ==
  ASSUME NEW m, NEW range, NEW levels, levels = LevelsToRemove(m, range), Len(levels) \in Nat
  PROVE  \E f : /\ f = [i \in 0..Len(levels) |-> RemovalStep(m, range, levels, f, i)]
                /\ ScheduleRemoval(m, range) = f[Len(levels)]
<1> DEFINE Step(f, i) == RemovalStep(m, range, levels, f, i)
           Run(n) == \E f : f = [i \in 0..n |-> Step(f, i)]
           Good == {n \in Nat : Run(n)}
<1>1. Run(0)
  <2> DEFINE g == [i \in 0..0 |-> Step(<<>>, i)]
  <2>1. g = [i \in 0..0 |-> Step(g, i)]
    BY DEF RemovalStep
  <2> QED
    BY <2>1
<1>2. ASSUME NEW n \in Nat, Run(n) PROVE Run(n + 1)
  <2>1. PICK f : f = [i \in 0..n |-> Step(f, i)]
    BY <1>2
  <2> DEFINE g == [i \in 0..(n + 1) |-> Step(f, i)]
  <2>2. ASSUME NEW i \in 0..(n + 1) PROVE Step(f, i) = Step(g, i)
    <3>1. CASE i = 0
      BY <3>1 DEF RemovalStep
    <3>2. CASE i # 0
      <4>1. i - 1 \in 0..n /\ i - 1 \in 0..(n + 1)
        BY <3>2
      <4>2. f[i - 1] = g[i - 1]
        BY <4>1, <2>1
      <4> QED
        BY <4>2, <3>2 DEF RemovalStep
    <3> QED
      BY <3>1, <3>2
  <2>3. g = [i \in 0..(n + 1) |-> Step(g, i)]
    BY <2>2
  <2> HIDE DEF g
  <2> QED
    BY <2>3
<1>3. Nat \subseteq Good
  <2>1. 0 \in Good /\ \A n \in Nat : n \in Good => n + 1 \in Good
    BY <1>1, <1>2
  <2> HIDE DEF Good
  <2> QED
    BY <2>1, Induction
<1>4. Run(Len(levels))
  BY <1>3
<1> DEFINE c == CHOOSE f : f = [i \in 0..Len(levels) |-> Step(f, i)]
<1>5. c = [i \in 0..Len(levels) |-> Step(c, i)]
  BY <1>4
<1>6. ScheduleRemoval(m, range) = c[Len(levels)]
  BY DEF ScheduleRemoval, RemovalStep
<1> HIDE DEF c
<1> QED
  BY <1>5, <1>6

LEMMA ScheduleRemovalOwned ==
  ASSUME NEW m, Owned(m, {}), NEW range
  PROVE  Removes(m, ScheduleRemoval(m, range))
<1> DEFINE levels == LevelsToRemove(m, range)
<1>0. Typed(m) /\ levels \in Seq(Nat) /\ Len(levels) \in Nat /\ DOMAIN levels = 1..Len(levels)
  BY LevelsToRemoveIs DEF Owned
<1>1. PICK f : /\ f = [i \in 0..Len(levels) |-> RemovalStep(m, range, levels, f, i)]
               /\ ScheduleRemoval(m, range) = f[Len(levels)]
  BY <1>0, RemovalDefined
<1> HIDE DEF levels
<1> DEFINE Good == {i \in Nat : i <= Len(levels) => Removes(m, f[i])}
<1>2. Removes(m, f[0])
  <2>1. f[0] = [lm |-> m, count |-> 0, locked |-> FALSE, many |-> FALSE]
    BY <1>0, <1>1 DEF RemovalStep
  <2> QED
    BY <2>1 DEF Removes, RemovalOutcome, SameStock
<1>3. ASSUME NEW i \in Nat, i + 1 <= Len(levels), Removes(m, f[i]) PROVE Removes(m, f[i + 1])
  <2>1. i + 1 \in 0..Len(levels) /\ i + 1 # 0 /\ (i + 1) - 1 = i /\ i + 1 \in DOMAIN levels
    BY <1>0, <1>3
  <2>2. f[i + 1] = ScheduleLevel(f[i], m, levels[i + 1], range)
    BY <2>1, <1>1 DEF RemovalStep
  <2>3. levels[i + 1] \in Nat
    BY <2>1, <1>0
  <2> QED
    BY <2>2, <2>3, <1>0, <1>3, ScheduleLevelOwned
<1>4. Nat \subseteq Good
  <2>1. 0 \in Good
    BY <1>2
  <2>2. \A i \in Nat : i \in Good => i + 1 \in Good
    <3> SUFFICES ASSUME NEW i \in Nat, i \in Good, i + 1 <= Len(levels) PROVE Removes(m, f[i + 1])
      OBVIOUS
    <3>1. i <= Len(levels)
      BY <1>0
    <3> QED
      BY <3>1, <1>3
  <2> HIDE DEF Good
  <2> QED
    BY <2>1, <2>2, Induction
<1> QED
  BY <1>0, <1>1, <1>4

Keeps(m, n) == Owned(n, {}) /\ SameStock(m, n)

LEMMA MaybeScheduleRemoveOwned ==
  ASSUME NEW m, Owned(m, {})
  PROVE  Keeps(m, MaybeScheduleRemoveDeadVersionEntries(m))
<1> DEFINE first == FirstToRemove(m)
           cut == [m EXCEPT !.dead = SubSeq(@, first, Len(@))]
           none == [m EXCEPT !.dead = <<>>]
           done == ScheduleRemoval(cut, m.dead[first])
           n == Removing(done)
<1>0. DOMAIN m = Fields /\ IsSeq(m.pollers)
  BY DEF Owned, Typed
<1>1. /\ \/ MaybeScheduleRemoveDeadVersionEntries(m) = m
         \/ MaybeScheduleRemoveDeadVersionEntries(m) = none
         \/ MaybeScheduleRemoveDeadVersionEntries(m) = n
  BY DEF MaybeScheduleRemoveDeadVersionEntries
<1>2. Owned(none, {}) /\ SameStock(m, none)
  <2>1. /\ DOMAIN none = Fields /\ none.levels = m.levels /\ none.queue = m.queue
        /\ none.running = m.running /\ none.handed = m.handed /\ none.locked = m.locked
        /\ none.next = m.next /\ none.pending = m.pending /\ none.pollers = m.pollers
        /\ none.inflight = m.inflight /\ none.adds = m.adds
    BY <1>0 DEF Fields
  <2> HIDE DEF none
  <2> QED
    BY <2>1, <1>0, OwnedFields DEF SameStock
<1>3. Owned(cut, {}) /\ SameStock(m, cut)
  <2> DEFINE D == SubSeq(m.dead, first, Len(m.dead))
  <2>0. cut = [m EXCEPT !.dead = D]
    BY <1>0 DEF Fields
  <2> HIDE DEF D, cut
  <2>1. /\ DOMAIN cut = Fields /\ cut.levels = m.levels /\ cut.queue = m.queue
        /\ cut.running = m.running /\ cut.handed = m.handed /\ cut.locked = m.locked
        /\ cut.next = m.next /\ cut.pending = m.pending /\ cut.pollers = m.pollers
        /\ cut.inflight = m.inflight /\ cut.adds = m.adds
    BY <2>0, <1>0 DEF Fields
  <2> QED
    BY <2>1, <1>0, OwnedFields DEF SameStock
<1> HIDE DEF cut
<1>4. Owned(done.lm, {}) /\ SameStock(cut, done.lm)
  BY <1>3, ScheduleRemovalOwned DEF Removes
<1> HIDE DEF done
<1>5. Owned(n, {}) /\ SameStock(done.lm, n)
  <2>0. DOMAIN done.lm = Fields /\ IsSeq(done.lm.pollers)
    BY <1>4 DEF Owned, Typed
  <2>1. /\ DOMAIN n = Fields /\ n.levels = done.lm.levels /\ n.queue = done.lm.queue
        /\ n.running = done.lm.running /\ n.handed = done.lm.handed /\ n.locked = done.lm.locked
        /\ n.next = done.lm.next /\ n.pending = done.lm.pending /\ n.pollers = done.lm.pollers
        /\ n.inflight = done.lm.inflight /\ n.adds = done.lm.adds
    BY <2>0 DEF Fields, Removing
  <2> HIDE DEF n
  <2> QED
    BY <2>0, <2>1, <1>4, OwnedFields DEF SameStock
<1> HIDE DEF none, n
<1> QED
  BY <1>1, <1>2, <1>3, <1>4, <1>5 DEF Keeps, SameStock

-----------------------------------------------------------------------------
(* The choice of the next compaction *)

LEMMA ScheduleChosenOwned ==
  ASSUME NEW m, Owned(m, {}), NEW n \in ScheduleChosen(m)
  PROVE  Keeps(m, n)
<1>0. Typed(m)
  BY DEF Owned
<1>1. CASE n = m
  BY <1>1 DEF Keeps, SameStock
<1>2. CASE n # m
  <2>1. PICK l \in ChooseLevelToCompact(m) :
          n \in {ScheduleCompaction(m, l, T, <<>>).lm : T \in ChooseTablesToCompact(m, l)}
    BY <1>2 DEF ScheduleChosen
  <2>2. PICK T \in ChooseTablesToCompact(m, l) : n = ScheduleCompaction(m, l, T, <<>>).lm
    BY <2>1
  <2>3. l \in 0..(Len(m.levels) - 1) /\ Available(m, l) > Trigger(l) /\ l \in Nat /\ l \in 0..MaxLevels
    <3>1. l \in 0..(Len(m.levels) - 1) /\ Available(m, l) > Trigger(l)
      BY <2>1 DEF ChooseLevelToCompact
    <3>2. Len(m.levels) \in 1..(MaxLevels + 1) /\ MaxLevels \in Nat
      BY <1>0, BoundsAssumption DEF Typed
    <3> QED
      BY <3>1, <3>2
  <2>4. Level(m, l) \in Seq(Table) /\ \A t \in Range(Level(m, l)) : t \in Table /\ t.id \in TableIds(m)
    BY <1>0, <2>3, LevelIs
  <2>5. T \in Seq(Table) /\ \A t \in Range(T) : t.id \in TableIds(m)
    <3>1. CASE l = 0
      BY <3>1, <2>2, <2>4 DEF ChooseTablesToCompact
    <3>2. CASE l # 0
      <4> DEFINE k == Available(m, l) - Trigger(l)
      <4>1. T \in [1..k -> Range(Level(m, l))]
        BY <3>2, <2>2 DEF ChooseTablesToCompact
      <4>2. Trigger(l) \in Nat /\ Available(m, l) \in Int
        <5>1. Trigger(l) \in Nat
          BY <2>3, BoundsAssumption
        <5>2. Len(Level(m, l)) \in Nat
          BY <2>4
        <5>3. At(m.pending, l) \in Int
          BY <1>0, <2>3 DEF Typed, At
        <5> QED
          BY <5>1, <5>2, <5>3 DEF Available
      <4>3. k \in Nat
        BY <4>2, <2>3
      <4> HIDE DEF k
      <4>4. T \in Seq(Table)
        BY <4>1, <4>3, <2>4
      <4> QED
        BY <4>1, <4>4, <2>4 DEF Range
    <3> QED
      BY <3>1, <3>2
  <2>6. Schedules(m, ScheduleCompaction(m, l, T, <<>>))
    BY <2>3, <2>5, ScheduleCompactionOwned
  <2> QED
    BY <2>2, <2>6 DEF Schedules, Keeps
<1> QED
  BY <1>1, <1>2

LEMMA MaybeScheduleCompactionOwned ==
  ASSUME NEW m, Owned(m, {}), NEW n \in MaybeScheduleCompaction(m)
  PROVE  Keeps(m, n)
<1>1. Keeps(m, m)
  BY DEF Keeps, SameStock
<1>2. Keeps(m, MaybeScheduleRemoveDeadVersionEntries(m))
  BY MaybeScheduleRemoveOwned
<1>3. PICK k : Keeps(m, k) /\ n \in ScheduleChosen(k)
  BY <1>1, <1>2 DEF MaybeScheduleCompaction
<1> QED
  BY <1>3, ScheduleChosenOwned DEF Keeps, SameStock

LEMMA CountDownOwned ==
  ASSUME NEW m, Owned(m, {}), NEW job
  PROVE  Keeps(m, CountDown(m, job))
<1> DEFINE i == At(m.inner, job.from) - 1
           inner == Put(m.inner, job.from, i)
           d == CountDown(m, job)
<1>0. DOMAIN m = Fields /\ IsSeq(m.pollers)
  BY DEF Owned, Typed
<1>1. \/ d = m
      \/ d = [m EXCEPT !.inner = inner]
      \/ \E x : d = [[m EXCEPT !.inner = inner] EXCEPT !.left = x]
      \/ \E x, y, z : d = [[m EXCEPT !.inner = inner] EXCEPT !.left = x, !.removing = y, !.dead = z]
  BY <1>0 DEF CountDown, Fields
<1> HIDE DEF d, inner
<1>2. /\ DOMAIN d = Fields /\ d.levels = m.levels /\ d.queue = m.queue
      /\ d.running = m.running /\ d.handed = m.handed /\ d.locked = m.locked
      /\ d.next = m.next /\ d.pending = m.pending /\ d.pollers = m.pollers
      /\ d.inflight = m.inflight /\ d.adds = m.adds
  BY <1>0, <1>1 DEF Fields
<1> QED
  BY <1>0, <1>2, OwnedFields DEF Keeps, SameStock, d

-----------------------------------------------------------------------------
(* Jobs end *)

LEMMA FewerHanded ==
  ASSUME NEW m, NEW n, NEW X, Owned(m, X), DOMAIN n = Fields,
         n.levels = m.levels, n.queue = m.queue, n.running = m.running, n.handed \subseteq m.handed,
         n.locked = m.locked, n.next = m.next, n.pending = m.pending, IsSeq(n.pollers)
  PROVE  Owned(n, X)
<1>1. /\ JobsOf(n) = JobsOf(m) /\ HandedJobs(n) \subseteq HandedJobs(m) /\ TableIds(n) = TableIds(m)
  BY DEF JobsOf, HandedJobs, TableIds
<1>2. Typed(n)
  BY DEF Owned, Typed
<1>3. Once(n)
  BY DEF Owned, Once
<1>4. Known(JobsOf(n) \cup X, HandedJobs(n), n.next)
  BY <1>1 DEF Owned, Known
<1> QED
  BY <1>1, <1>2, <1>3, <1>4 DEF Owned

\* A job in progress is removed from the jobs in progress.
LEMMA EndedJob ==
  ASSUME NEW m, NEW n, Typed(m), Once(m), NEW r \in m.running,
         n.queue = m.queue, n.running = m.running \ {r}
  PROVE  /\ JobsOf(n) = JobsOf(m) \ {r.job} /\ r.job \in JobsOf(m)
         /\ Once(n) /\ IsFiniteSet(n.running)
<1>1. \A s \in m.running : s # r => s.job # r.job
  BY DEF Once
<1>2. r.job \notin Range(m.queue)
  BY DEF Once
<1>3. JobsOf(n) = JobsOf(m) \ {r.job} /\ r.job \in JobsOf(m)
  BY <1>1, <1>2 DEF JobsOf
<1>4. IsFiniteSet(n.running)
  BY FS_RemoveElement DEF Typed
<1> QED
  BY <1>3, <1>4 DEF Once

LEMMA EndedCount ==
  ASSUME NEW m, Owned(m, {}), NEW r \in m.running
  PROVE  LET p == Put(m.pending, r.job.from, At(m.pending, r.job.from) - 1)
         IN  p \in Seq(Int) /\ Counted(JobsOf(m) \ {r.job}, p)
<1>1. Typed(m) /\ m.pending \in Seq(Int) /\ Counted(JobsOf(m), m.pending)
  BY DEF Owned, Typed
<1>2. r.job \in JobsOf(m)
  BY DEF JobsOf
<1>3. r.job.from \in Nat
  BY <1>2 DEF Owned, Known, IsJob
<1>4. IsFiniteSet(JobsOf(m))
  BY <1>1, JobsFinite
<1> QED
  BY <1>1, <1>2, <1>3, <1>4, CountedLess

\* cancelInProgressJob: the job is offered again.
LEMMA CancelOwned ==
  ASSUME NEW m, Owned(m, {}), NEW r \in m.running
  PROVE  Keeps(m, CancelInProgressJob(m, r))
<1> DEFINE pending == Put(m.pending, r.job.from, At(m.pending, r.job.from) - 1)
           n == [m EXCEPT !.running = m.running \ {r}, !.pending = pending]
<1>0. DOMAIN m = Fields /\ Typed(m) /\ Once(m)
  BY DEF Owned, Typed
<1>1. CancelInProgressJob(m, r) = QueueOrDespatchJob(n, r.job)
  BY <1>0 DEF CancelInProgressJob, Fields
<1>2. pending \in Seq(Int) /\ Counted(JobsOf(m) \ {r.job}, pending)
  BY EndedCount
<1> HIDE DEF pending
<1>3. /\ DOMAIN n = Fields /\ n.levels = m.levels /\ n.queue = m.queue /\ n.handed = m.handed
      /\ n.running = m.running \ {r} /\ n.pending = pending /\ n.locked = m.locked
      /\ n.next = m.next /\ n.pollers = m.pollers /\ n.inflight = m.inflight /\ n.adds = m.adds
  BY <1>0 DEF Fields
<1> HIDE DEF n
<1>4. /\ JobsOf(n) = JobsOf(m) \ {r.job} /\ r.job \in JobsOf(m)
      /\ Once(n) /\ IsFiniteSet(n.running)
  BY <1>0, <1>3, EndedJob
<1>5. JobsOf(n) \cup {r.job} = JobsOf(m) \cup {} /\ r.job \notin JobsOf(n)
  BY <1>4
<1>6. HandedJobs(n) = HandedJobs(m) /\ TableIds(n) = TableIds(m) /\ SameStock(m, n)
  BY <1>3 DEF HandedJobs, TableIds, SameStock
<1>7. Typed(n)
  BY <1>0, <1>2, <1>3, <1>4 DEF Typed
<1>8. Owned(n, {r.job})
  BY <1>2, <1>3, <1>4, <1>5, <1>6, <1>7 DEF Owned
<1>9. Owned(QueueOrDespatchJob(n, r.job), {}) /\ SameStock(n, QueueOrDespatchJob(n, r.job))
  BY <1>5, <1>8, OfferOwned
<1> QED
  BY <1>1, <1>6, <1>9 DEF Keeps, SameStock

\* The other jobs in progress stay in progress.
LEMMA CancelOthers ==
  ASSUME NEW m, Typed(m), NEW r \in m.running
  PROVE  m.running \ {r} \subseteq CancelInProgressJob(m, r).running
<1> DEFINE pending == Put(m.pending, r.job.from, At(m.pending, r.job.from) - 1)
           n == [m EXCEPT !.running = m.running \ {r}, !.pending = pending]
           q == QueueOrDespatchJob(n, r.job)
<1>0. DOMAIN m = Fields
  BY DEF Typed
<1>1. CancelInProgressJob(m, r) = q
  BY <1>0 DEF CancelInProgressJob, Fields
<1> HIDE DEF pending
<1>2. DOMAIN n = Fields /\ n.running = m.running \ {r}
  BY <1>0 DEF Fields
<1> HIDE DEF n
<1>3. n.running \subseteq q.running
  BY <1>2 DEF QueueOrDespatchJob, Fields
<1> QED
  BY <1>1, <1>2, <1>3

CancelStep(m, jobs, f, i) == IF i = 0 THEN m ELSE CancelInProgressJob(f[i - 1], jobs[i])

LEMMA CancelDefined ==
  ASSUME NEW m, NEW jobs, Len(jobs) \in Nat
  PROVE  \E f : /\ f = [i \in 0..Len(jobs) |-> CancelStep(m, jobs, f, i)]
                /\ CancelInProgressJobs(m, jobs) = f[Len(jobs)]
<1> DEFINE Step(f, i) == CancelStep(m, jobs, f, i)
           Run(n) == \E f : f = [i \in 0..n |-> Step(f, i)]
           Good == {n \in Nat : Run(n)}
<1>1. Run(0)
  <2> DEFINE g == [i \in 0..0 |-> Step(<<>>, i)]
  <2>1. g = [i \in 0..0 |-> Step(g, i)]
    BY DEF CancelStep
  <2> QED
    BY <2>1
<1>2. ASSUME NEW n \in Nat, Run(n) PROVE Run(n + 1)
  <2>1. PICK f : f = [i \in 0..n |-> Step(f, i)]
    BY <1>2
  <2> DEFINE g == [i \in 0..(n + 1) |-> Step(f, i)]
  <2>2. ASSUME NEW i \in 0..(n + 1) PROVE Step(f, i) = Step(g, i)
    <3>1. CASE i = 0
      BY <3>1 DEF CancelStep
    <3>2. CASE i # 0
      <4>1. i - 1 \in 0..n /\ i - 1 \in 0..(n + 1)
        BY <3>2
      <4>2. f[i - 1] = g[i - 1]
        BY <4>1, <2>1
      <4> QED
        BY <4>2, <3>2 DEF CancelStep
    <3> QED
      BY <3>1, <3>2
  <2>3. g = [i \in 0..(n + 1) |-> Step(g, i)]
    BY <2>2
  <2> HIDE DEF g
  <2> QED
    BY <2>3
<1>3. Nat \subseteq Good
  <2>1. 0 \in Good /\ \A n \in Nat : n \in Good => n + 1 \in Good
    BY <1>1, <1>2
  <2> HIDE DEF Good
  <2> QED
    BY <2>1, Induction
<1>4. Run(Len(jobs))
  BY <1>3
<1> DEFINE c == CHOOSE f : f = [i \in 0..Len(jobs) |-> Step(f, i)]
<1>5. c = [i \in 0..Len(jobs) |-> Step(c, i)]
  BY <1>4
<1>6. CancelInProgressJobs(m, jobs) = c[Len(jobs)]
  BY DEF CancelInProgressJobs, CancelStep
<1> HIDE DEF c
<1> QED
  BY <1>5, <1>6

\* connectionClosed: all the jobs of a connection, in any order.
LEMMA CancelAllOwned ==
  ASSUME NEW m, Owned(m, {}), NEW R, R \subseteq m.running, NEW jobs \in Orders(R)
  PROVE  Keeps(m, CancelInProgressJobs(m, jobs))
<1>0. Typed(m) /\ IsFiniteSet(R)
  BY FS_Subset DEF Owned, Typed
<1>1. /\ jobs \in Seq(R) /\ Len(jobs) \in Nat /\ DOMAIN jobs = 1..Len(jobs)
      /\ \A i, j \in 1..Len(jobs) : i # j => jobs[i] # jobs[j]
  <2>1. Cardinality(R) \in Nat
    BY <1>0, FS_CardinalityType
  <2>2. jobs \in [1..Cardinality(R) -> R] /\ \A i, j \in 1..Cardinality(R) : i # j => jobs[i] # jobs[j]
    BY DEF Orders, IsInjective
  <2> QED
    BY <2>1, <2>2
<1>2. PICK f : /\ f = [i \in 0..Len(jobs) |-> CancelStep(m, jobs, f, i)]
               /\ CancelInProgressJobs(m, jobs) = f[Len(jobs)]
  BY <1>1, CancelDefined
<1> DEFINE P(i) == Keeps(m, f[i]) /\ \A k \in (i + 1)..Len(jobs) : jobs[k] \in f[i].running
           Good == {i \in Nat : i <= Len(jobs) => P(i)}
<1>3. P(0)
  <2>1. f[0] = m
    BY <1>1, <1>2 DEF CancelStep
  <2>2. \A k \in 1..Len(jobs) : jobs[k] \in m.running
    BY <1>1
  <2> QED
    BY <2>1, <2>2 DEF Keeps, SameStock
<1>4. ASSUME NEW i \in Nat, i + 1 <= Len(jobs), P(i) PROVE P(i + 1)
  <2>1. i + 1 \in 0..Len(jobs) /\ i + 1 # 0 /\ (i + 1) - 1 = i /\ i + 1 \in (i + 1)..Len(jobs)
        /\ i + 1 \in 1..Len(jobs)
    BY <1>1, <1>4
  <2>2. f[i + 1] = CancelInProgressJob(f[i], jobs[i + 1])
    BY <2>1, <1>2 DEF CancelStep
  <2>3. jobs[i + 1] \in f[i].running /\ Owned(f[i], {}) /\ SameStock(m, f[i]) /\ Typed(f[i])
    BY <2>1, <1>4 DEF Keeps, Owned
  <2>4. Keeps(f[i], f[i + 1])
    BY <2>2, <2>3, CancelOwned
  <2>5. f[i].running \ {jobs[i + 1]} \subseteq f[i + 1].running
    BY <2>2, <2>3, CancelOthers
  <2>6. ASSUME NEW k \in ((i + 1) + 1)..Len(jobs) PROVE jobs[k] \in f[i + 1].running
    <3>1. k \in (i + 1)..Len(jobs) /\ k # i + 1 /\ k \in 1..Len(jobs)
      BY <1>1
    <3>2. jobs[k] # jobs[i + 1] /\ jobs[k] \in f[i].running
      BY <3>1, <2>1, <1>1, <1>4
    <3> QED
      BY <3>2, <2>5
  <2> QED
    BY <2>3, <2>4, <2>6 DEF Keeps, SameStock
<1>5. Nat \subseteq Good
  <2>1. 0 \in Good
    BY <1>3
  <2>2. \A i \in Nat : i \in Good => i + 1 \in Good
    <3> HIDE DEF P
    <3> SUFFICES ASSUME NEW i \in Nat, i \in Good, i + 1 <= Len(jobs) PROVE P(i + 1)
      OBVIOUS
    <3>1. i <= Len(jobs)
      BY <1>1
    <3> QED
      BY <3>1, <1>4
  <2> HIDE DEF Good
  <2> QED
    BY <2>1, <2>2, Induction
<1>6. P(Len(jobs))
  <2> HIDE DEF P
  <2> QED
    BY <1>1, <1>5
<1> QED
  BY <1>2, <1>6
=============================================================================
