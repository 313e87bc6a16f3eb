-------------------------- MODULE MergingIterator --------------------------
(***************************************************************************)
(* The iterator that merges sorted tables (iteration/merging_iter.go) and  *)
(* the two uses of it: a read of the store, which merges tables newest     *)
(* first and shows at most one version of a key (store/iter.go), and a     *)
(* compaction, which merges the tables of a job and writes the result to   *)
(* new tables of a limited size (levels/compaction_worker.go,              *)
(* levels/iters.go).  Filters on the sources take out dead versions and    *)
(* entries past their retention, and the tables of a level are chained to  *)
(* one source (iteration/chaining_iter.go).                                *)
(*                                                                         *)
(* An entry is a key, a version and a value; the value Tombstone is the    *)
(* empty one.  Versions are stored inverted, so that a table holds the     *)
(* versions of a key from the highest to the lowest.  One pass of the loop *)
(* of IsValid is a step, Next is a step, and IsValid may be called again   *)
(* before Next.                                                            *)
(***************************************************************************)
EXTENDS Integers, Sequences, FiniteSets, SequencesExt, Folds

CONSTANTS
    Cells,         \* the <<key, version>> pairs a table may hold
    SourceSize,    \* the most entries a source has
    Sources,       \* the number of merged iterators
    DeadVersions,  \* the versions that may be dead
    Expirable,     \* the keys that may be past their retention
    MaxEntries     \* the entries after which a compacted table is full

Tombstone == 0

Versions == {c[2] : c \in Cells}
Keys == {c[1] : c \in Cells}

\* math.MaxUint64 as a bound on versions: nothing is excluded
NoBound == 1 + CHOOSE v \in Versions : \A u \in Versions : u <= v

ASSUME CellsAssumption == /\ Cells \subseteq Nat \X Nat
                          /\ IsFiniteSet(Cells) /\ Cells # {}
                          /\ Sources \in Nat \ {0} /\ MaxEntries \in Nat \ {0}

VARIABLES
    job,       \* what is merged, for which use; never changes
    layout,    \* how the tables are chained and filtered; never changes
    iters,     \* what each source iterator has left
    noDropOnNext,
    current,   \* the entry IsValid found, and the iterator it comes from
    tables,    \* the tables written so far; a read fills a single one
    pc         \* "scan" in IsValid, "valid" after it, "done"

vars == <<job, layout, iters, noDropOnNext, current, tables, pc>>

-----------------------------------------------------------------------------
(* The order of a table: keys up, versions down.                           *)
Before(a, b) == \/ a.k < b.k
                \/ a.k = b.k /\ a.v > b.v

TableOf(kv) ==
    LET entries == {[k |-> c[1], v |-> c[2], w |-> kv[c]] : c \in DOMAIN kv}
    IN SetToSortSeq(entries, Before)

(* The tables source i may be: its values are its own, so that what comes  *)
(* from which table can be told.                                           *)
SourceTables(i) ==
    {TableOf(kv) : kv \in UNION {[S -> {Tombstone, i}] :
                       S \in {C \in SUBSET Cells : Cardinality(C) <= SourceSize}}}

SourceLists ==
    FoldLeft(LAMBDA lists, i : {Append(l, t) : l \in lists, t \in SourceTables(i)},
             {<<>>}, [i \in 1 .. Sources |-> i])

(* NewMergingIterator bounds the version a reader may see.                 *)
Read(sources, version, preserve) ==
    [sources |-> sources, compaction |-> FALSE, highestVersion |-> version,
     minNonCompactable |-> NoBound, preserveTombstones |-> preserve]

(* NewCompactionMergingIterator bounds the versions that may be dropped:   *)
(* none, when nothing has been flushed (-1).                               *)
Compaction(sources, lastFlushed, preserve) ==
    [sources |-> sources, compaction |-> TRUE, highestVersion |-> NoBound,
     minNonCompactable |-> IF lastFlushed = -1 THEN 0 ELSE lastFlushed,
     preserveTombstones |-> preserve]

(* The last source is a level: a single table, or a chain with a table for *)
(* each key, made at different times, so that some may have expired.       *)
Layouts(sources) ==
    [chained : {FALSE}, expired : {{}}, dead : SUBSET DeadVersions]
        \cup [chained : {c \in {TRUE} : \E m, n \in DOMAIN sources[Sources] :
                                   sources[Sources][m].k # sources[Sources][n].k},
              expired : SUBSET Expirable, dead : {{}}]

(* RemoveExpiredEntriesIterator: the entries a table keeps.                *)
Unexpired(i) == SelectSeq(job.sources[i],
                          LAMBDA e : i = Sources => e.k \notin layout.expired)

(* RemoveDeadVersionsIterator: all sources of a read are filtered, but not *)
(* the tables a compaction finds in its destination level.                 *)
Alive(i, entries) ==
    SelectSeq(entries, LAMBDA e : \/ e.v \notin layout.dead
                                  \/ job.compaction /\ i = Sources)

(* ChainingIterator goes to the next table when Next has used up one.  A   *)
(* table that has nothing left from the start ends the chain.              *)
Chain(i) ==
    LET has(entries, k) == \E n \in DOMAIN entries : entries[n].k = k
        left == Unexpired(i)
    IN IF i # Sources \/ ~layout.chained THEN left
       ELSE SelectSeq(left, LAMBDA e : \A k \in Keys :
                k < e.k /\ has(job.sources[i], k) => has(left, k))

Nothing == [k |-> -1, v |-> -1, w |-> Tombstone, i |-> 0]

Init == /\ \E sources \in SourceLists : \E preserve \in BOOLEAN :
              /\ \/ \E version \in Versions : job = Read(sources, version, preserve)
                 \/ \E version \in Versions \cup {-1} :
                        job = Compaction(sources, version, preserve)
              /\ layout \in Layouts(sources)
        /\ iters = [i \in 1 .. Sources |-> Alive(i, Chain(i))]
        /\ noDropOnNext = FALSE
        /\ current = Nothing
        /\ tables = <<>>
        /\ pc = "scan"

-----------------------------------------------------------------------------
(* Skip past the entries whose version is too high.                        *)
SkipHigh(it) ==
    LET low == {n \in 1 .. Len(it) : it[n].v <= job.highestVersion}
    IN IF low = {} THEN <<>>
       ELSE SubSeq(it, CHOOSE n \in low : \A m \in low : n <= m, Len(it))

Advance(its, i) == [its EXCEPT ![i] = SubSeq(@, 2, Len(@))]

\* Mutant of Look: a lower version is dropped below a protected one.
LookDropsProtected(s, i) ==
    LET its == [s.iters EXCEPT ![i] = SkipHigh(@)]
        best == s.best
        choose(these) == [iters |-> these,
                          best |-> [k |-> its[i][1].k, v |-> its[i][1].v,
                                    w |-> its[i][1].w, i |-> i]]
        keep(these) == [iters |-> these, best |-> best]
    IN IF its[i] = <<>> THEN keep(its)
       ELSE LET c == its[i][1]
            IN IF best.i = 0 \/ c.k < best.k THEN choose(its)
               ELSE IF c.k > best.k THEN keep(its)
               ELSE IF c.v > best.v
                    THEN choose(Advance(its, best.i))
               ELSE IF c.v < best.v /\ best.v >= job.minNonCompactable
                    THEN keep(its)
               ELSE keep(Advance(its, i))

(* Iterator i seen by the loop of IsValid, when best is the entry it would *)
(* choose so far (best.i = 0: none).                                       *)
Look(s, i) ==
    LET its == [s.iters EXCEPT ![i] = SkipHigh(@)]
        best == s.best
        choose(these) == [iters |-> these,
                          best |-> [k |-> its[i][1].k, v |-> its[i][1].v,
                                    w |-> its[i][1].w, i |-> i]]
        keep(these) == [iters |-> these, best |-> best]
    IN IF its[i] = <<>> THEN keep(its)
       ELSE LET c == its[i][1]
            IN IF best.i = 0 \/ c.k < best.k THEN choose(its)
               ELSE IF c.k > best.k THEN keep(its)
               ELSE IF c.v > best.v
                    THEN choose(IF c.v < job.minNonCompactable
                                THEN Advance(its, best.i) ELSE its)
               ELSE IF c.v < best.v /\ best.v >= job.minNonCompactable
                    THEN keep(its)
               ELSE keep(Advance(its, i))

Scan == FoldLeft(Look, [iters |-> iters, best |-> Nothing],
                 [i \in 1 .. Sources |-> i])

(* IsValid of the merging iterator, one pass.  A tombstone that is not to  *)
(* be preserved is skipped and the pass repeated.                          *)
IsValid ==
    /\ pc \in {"scan", "valid"}
    /\ LET s == Scan
       IN IF s.best.i = 0
          THEN /\ iters' = s.iters /\ pc' = "done"
               /\ UNCHANGED current
          ELSE IF s.best.w = Tombstone /\ ~job.preserveTombstones
          THEN /\ iters' = Advance(s.iters, s.best.i) /\ pc' = "scan"
               /\ UNCHANGED current
          ELSE /\ iters' = s.iters /\ pc' = "valid"
               /\ current' = s.best
    /\ UNCHANGED <<job, layout, noDropOnNext, tables>>

\* Mutant of SkipKey: nothing is skipped.
SkipNothing(s, i) == s

(* The loop of Next over one iterator: entries of the last key are dropped *)
(* unless one of its versions could not be compacted.                      *)
SkipKey(s, i) ==
    LET it == s.iters[i]
        other == {n \in 1 .. Len(it) : it[n].k # current.k}
        rest == IF other = {} THEN <<>>
                ELSE SubSeq(it, CHOOSE n \in other : \A m \in other : n <= m, Len(it))
    IN IF it = <<>> THEN s
       ELSE IF it[1].k # current.k THEN [s EXCEPT !.noDrop = FALSE]
       ELSE IF s.noDrop THEN s
       ELSE [iters |-> [s.iters EXCEPT ![i] = rest], noDrop |-> s.noDrop]

\* Mutant of Full: the versions of a key are split.
FullAtSize(table) == Len(table) >= MaxEntries

(* maxSizeIterator: a full table takes no more entries, unless the next    *)
(* one is another version of its last key.                                 *)
Full(table) == /\ Len(table) >= MaxEntries
               /\ table[Len(table)].k # current.k

(* The entry goes to the table being written, or to a new one.             *)
Write == LET e == [k |-> current.k, v |-> current.v, w |-> current.w]
             last == Len(tables)
         IN IF tables = <<>> \/ (job.compaction /\ Full(tables[last]))
            THEN Append(tables, <<e>>)
            ELSE [tables EXCEPT ![last] = Append(@, e)]

Next1 ==
    /\ pc = "valid"
    /\ tables' = Write
    /\ LET its == Advance(iters, current.i)
           s == FoldLeft(SkipKey, [iters |-> its, noDrop |-> noDropOnNext],
                         [i \in 1 .. Sources |-> i])
       IN IF current.v >= job.minNonCompactable
          THEN /\ iters' = its
               /\ noDropOnNext' = TRUE
          ELSE /\ iters' = s.iters
               /\ noDropOnNext' = s.noDrop
    /\ pc' = "scan"
    /\ UNCHANGED <<job, layout, current>>

Done == pc = "done" /\ UNCHANGED vars

Next == IsValid \/ Next1 \/ Done

Spec == Init /\ [][Next]_vars

-----------------------------------------------------------------------------
(* What the merge is for.                                                  *)

Output == FlattenSeq(tables)

(* What the filters should leave of source i.                              *)
Filtered(i) == Range(Alive(i, Unexpired(i)))

(* The entries the sources show: of equal key and version, the first       *)
(* source's, which is the newest table.                                    *)
Shown == {e \in UNION {Filtered(i) : i \in 1 .. Sources} :
             \E i \in 1 .. Sources :
                /\ e \in Filtered(i)
                /\ \A j \in 1 .. i - 1 : \A d \in Filtered(j) :
                       <<d.k, d.v>> # <<e.k, e.v>>}

ReadAt(E, k, snapshot) ==
    LET seen == {e \in E : e.k = k /\ e.v <= snapshot}
    IN IF seen = {} THEN Tombstone
       ELSE (CHOOSE e \in seen : \A d \in seen : d.v <= e.v).w

(* A read asks for one version.  After a compaction a reader may ask for   *)
(* any version from the last flushed one on, which recovery rolls back to. *)
Snapshots == IF job.compaction THEN {s \in Versions \cup {0} : s >= job.minNonCompactable}
             ELSE {job.highestVersion}

(* No source holds two versions of a key, and no version is protected.     *)
OneVersionEach ==
    /\ \A i \in 1 .. Sources : \A d, e \in Filtered(i) :
           d.k = e.k => d = e
    /\ \A e \in Shown : e.v < job.minNonCompactable

(* Tables are written in the order sst.BuildSSTable insists on (it panics  *)
(* with "keys not in order / contains duplicates" otherwise), and the      *)
(* tables a compaction writes share no key, whatever versions of it there  *)
(* are: levels above 0 must not overlap.                                   *)
TablesWellFormed ==
    LET out == Output
    IN /\ \A m, n \in 1 .. Len(out) : m < n => Before(out[m], out[n])
       /\ \A m, n \in 1 .. Len(tables) : m < n =>
              \A d \in Range(tables[m]), e \in Range(tables[n]) : d.k < e.k

SameReads ==
    LET before == Shown
        after == Range(Output)
    IN \A k \in Keys : \A s \in Snapshots :
           ReadAt(after, k, s) = ReadAt(before, k, s)

(* Merging loses nothing a reader can ask for: at every version a reader   *)
(* may still use, each key has the value it had in the sources.  Without   *)
(* preserved tombstones this needs sources with one version of each key,   *)
(* and no table but the last of a chain may expire as a whole.             *)
ReadsPreserved ==
    /\ pc = "done"
    /\ job.preserveTombstones \/ OneVersionEach
    /\ layout.chained => layout.expired = {}
    => SameReads

(* Old versions go: a reader sees one version of a key, and a compaction   *)
(* writes a second one only from a protected entry on, of that key or of a *)
(* smaller one (noDropOnNext is reset late).                               *)
OldVersionsDropped ==
    LET out == Output
    IN \A m, n \in 1 .. Len(out) :
           m < n /\ out[m].k = out[n].k =>
               \E e \in Shown : e.k <= out[m].k /\ e.v >= job.minNonCompactable

(* Filtering by retention removes the expired keys and no other: what a    *)
(* reader may ask for of the others is still there after the merge.        *)
OnlyExpiredRemoved == pc = "done" /\ job.preserveTombstones => SameReads

=============================================================================
