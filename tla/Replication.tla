----------------------------- MODULE Replication -----------------------------
(***************************************************************************)
(* Replication of the batches of one processor (repli/): the leader sends  *)
(* every batch to the replicas of its group, then a commit, and only then  *)
(* appends the batch to its own queue, processes it and acknowledges it.   *)
(* Queues are truncated when the version that holds the batches is flushed *)
(* and are replayed after a failure.  A replica that (re)joins is synced.  *)
(*                                                                         *)
(* repl[n] is the replicator struct on node n, with its fields.  What it   *)
(* runs on the event loop of its processor (proc/processor.go) is a step;  *)
(* an operator that models a method takes a replicator r and returns an    *)
(* outcome: the new replicator, the messages it sends, the batches it      *)
(* processes and acknowledges, the sanity checks that fail.                *)
(*                                                                         *)
(* The environment is modelled by what this code sees of it: the cluster   *)
(* state of clustmgr/ for one group, connections of remoting/ that keep    *)
(* their order and may break, the store, and the stages of the failure     *)
(* handler (proc/failure.go) on the leader's node.                         *)
(***************************************************************************)
EXTENDS Integers, Sequences, FiniteSets, SequencesExt

CONSTANTS
  Node,
  MinReplicas,          \* cfg.MinReplicas
  MaxBatches,           \* bound: calls of ReplicateBatch
  MaxInProgress,        \* bound: replications in progress at a time
  MaxBreaks,            \* bound: connections that break between running nodes
  MaxCrashes,           \* bound: crashes of nodes
  MaxRestarts,          \* bound: restarts of crashed nodes
  MaxClusterVersion,    \* bound: last cluster version
  MaxFlushes,           \* bound: versions flushed
  MaxMarkErrors,        \* bound: MarkGroupAsValid calls whose reply is lost
  StateDuringSync,      \* a leader applies cluster states while it syncs a replica
  Overtaking,           \* a new connection may overtake the one it replaces
  IngestDuringRecovery, \* batches arrive while a failure is being recovered
  InitialisedFirst      \* a version reaches a new leader before the replay

ASSUME ConstantsAssumption ==
  /\ IsFiniteSet(Node) /\ MinReplicas \in Nat
  /\ {MaxBatches, MaxInProgress, MaxBreaks, MaxCrashes, MaxRestarts,
      MaxClusterVersion, MaxFlushes, MaxMarkErrors} \subseteq Nat
  /\ {StateDuringSync, Overtaking,
      IngestDuringRecovery, InitialisedFirst} \subseteq BOOLEAN

VARIABLES
  cs,         \* cluster state in etcd: version, joined, valid and leader of the group
  marks,      \* valid groups keys in etcd: joined version each node was marked valid at
  fresh,      \* nodes started since cs was computed
  up,         \* running nodes
  view,       \* processorNodeMap: the cluster state each node works with
  repl,       \* the replicator of each node
  lane,       \* lane[s][d]: messages sent by s that d has not handled
  store,      \* data of the leader: how often each batch is applied, last persisted seq
  durable,    \* the same as of the last flushed version
  recovery,   \* stage of the failure handler on the leader's node
  \* history
  ingested,   \* number of batches handed to ReplicateBatch
  acked,      \* batches completed without an error
  panics,     \* sanity checks that have failed
  faults      \* how many faults of each kind have happened

netVars == <<cs, marks, fresh, up, view>>
dataVars == <<store, durable, ingested, acked>>
vars == <<netVars, repl, lane, dataVars, recovery, panics, faults>>

Batch == 1..MaxBatches
Absent == -1
NoEntry == [joined |-> Absent, state |-> "none"]

\* NewReplicator; joined = Absent stands for a node without a processor.
NewReplicator(joined) ==
  [joined |-> joined, leader |-> FALSE, initialised |-> FALSE, paused |-> FALSE,
   setLeader |-> FALSE, acquiescing |-> FALSE, acquiesceWait |-> FALSE,
   requiresReprocess |-> FALSE, lastProcessedSequence |-> 0,
   replicatedBatches |-> <<>>, valid |-> FALSE,
   invalidReplicas |-> [m \in Node |-> NoEntry], batchSequence |-> 0,
   leaderClusterVersion |-> 0, replicationFailing |-> FALSE,
   lastCommittedSeq |-> -1, lastReceivedCommittedSeq |-> -1,
   lastProcessedSeq |-> -1, lastProcessedSeqCheckpoint |-> -1, marked |-> "no",
   lastFlushedSeq |-> -1, replicaSyncing |-> FALSE, needsSync |-> FALSE,
   lastReplicatedBatchSeq |-> -1, lastReplicatedCommitSeq |-> -1,
   lastReplicationResponseSeq |-> -1, lastReplicationCommitResponseSeq |-> -1,
   calls |-> {}]

Members(state) == {n \in Node : state.joined[n] # Absent}
NoView == [version |-> Absent, joined |-> [n \in Node |-> Absent], valid |-> {},
           leader |-> "nobody"]
Empty == [applied |-> [b \in Batch |-> 0], seq |-> -1]

\* A cluster that has formed: every replica is synced and nothing is replicated.
\* Here with the nodes of group, led by first; the others are down.
FormedGroup(group, first) ==
  /\ cs = [version |-> 0, joined |-> [n \in Node |-> IF n \in group THEN 0 ELSE Absent],
           valid |-> group, leader |-> first]
  /\ marks = [n \in Node |-> IF n \in group \ {first} THEN 0 ELSE Absent]
  /\ fresh = {} /\ up = group /\ view = [n \in Node |-> IF n \in group THEN cs ELSE NoView]
  /\ repl = [n \in Node |->
               IF n = first
               THEN [NewReplicator(0) EXCEPT !.leader = TRUE, !.initialised = TRUE]
               ELSE IF n \in group THEN [NewReplicator(0) EXCEPT !.valid = TRUE]
               ELSE NewReplicator(Absent)]
  /\ lane = [s \in Node |-> [d \in Node |-> <<>>]]
  /\ store = Empty /\ durable = Empty /\ recovery = "none"
  /\ ingested = 0 /\ acked = {} /\ panics = {}

NoFaults == [break |-> 0, crash |-> 0, restart |-> 0, flush |-> 0, mark |-> 0]

Init == faults = NoFaults /\ \E first \in Node : FormedGroup(Node, first)

-----------------------------------------------------------------------------
(***************************************************************************)
(* Calls.  A call is a request to the nodes of group (their joined         *)
(* versions) together with what is done with the replies.                  *)
(***************************************************************************)
MaxInt == MaxBatches  \* math.MaxInt64: above every sequence number
Call(kind, seq, batch, group) ==
  [kind |-> kind, seq |-> seq, batch |-> batch, group |-> group,
   waiting |-> {d \in Node : group[d] # Absent}, low |-> MaxInt, err |-> FALSE]

Message(r, c, d) ==
  [kind |-> c.kind, seq |-> c.seq, batch |-> c.batch,
   cv |-> r.leaderClusterVersion, jv |-> c.group[d], live |-> TRUE]

Sends(r, c) == {[to |-> d, msg |-> Message(r, c, d)] : d \in c.waiting}

Replications(r) == {c \in r.calls : c.kind \in {"batch", "commit"}}
Syncs(r) == {c \in r.calls : c.kind \in {"start", "sync", "end"}}
Initialising(r) == \E c \in r.calls : c.kind \in {"get", "set"}

\* The event loop of n can run an action: it is not inside InitialiseLeader.
OnLoop(n) == repl[n].leader /\ ~Initialising(repl[n])

Outcome(r, sends, processed, acks, checks) ==
  [r |-> r, sends |-> sends, processed |-> processed, acks |-> acks,
   panics |-> {k \in DOMAIN checks : checks[k]}]
NoChecks == [none |-> FALSE]
Quiet(r) == Outcome(r, {}, <<>>, {}, NoChecks)
With(o, sends, checks) ==
  [o EXCEPT !.sends = @ \cup sends, !.panics = @ \cup {k \in DOMAIN checks : checks[k]}]

LastSeq(q) == Last(q).seq

-----------------------------------------------------------------------------
(***************************************************************************)
(* The replica: what it does with a message m.  The answers are an outcome *)
(* with the fields err and val of the response.                            *)
(***************************************************************************)
Answer(r, err, val, checks) == [r |-> r, err |-> err, val |-> val,
                                panics |-> {k \in DOMAIN checks : checks[k]}]
Refused(r) == Answer(r, TRUE, -1, NoChecks)
Done(r) == Answer(r, FALSE, -1, NoChecks)

checkErrors(r, m) ==
  ~r.valid \/ m.cv < r.leaderClusterVersion \/ m.jv # r.joined

\* A batch after a gap is ignored, one that is already there overwrites the
\* queue from its sequence on.
checkAndAppendReplicatedBatch(r, m) ==
  LET q == r.replicatedBatches
      kept == SelectSeq(q, LAMBDA e : e.seq < m.seq)
      overwritten == Len(kept) < Len(q)
      committed == IF overwritten /\ r.lastReceivedCommittedSeq >= m.seq
                   THEN m.seq - 1 ELSE r.lastReceivedCommittedSeq
  IN IF q # <<>> /\ LastSeq(q) < m.seq - 1
     THEN Done(r)
     ELSE Answer([r EXCEPT !.replicatedBatches = Append(kept, [seq |-> m.seq, batch |-> m.batch]),
                           !.lastReceivedCommittedSeq = committed],
                 FALSE, -1,
                 [outOfSequence |-> kept # <<>> /\ LastSeq(kept) # m.seq - 1,
                  invalidCommitted |-> kept # <<>> /\ committed > LastSeq(kept)])

receiveReplicatedBatch(r, m) ==
  IF checkErrors(r, m) THEN Refused(r) ELSE checkAndAppendReplicatedBatch(r, m)

receiveReplicatedCommit(r, m) ==
  LET q == r.replicatedBatches
  IN IF checkErrors(r, m) THEN Refused(r)
     ELSE IF q = <<>> \/ m.seq > LastSeq(q) THEN Done(r)
     ELSE Done([r EXCEPT !.lastReceivedCommittedSeq = m.seq])

\* Removes the batches up to seq; only the leader has syncs in progress.
removeFlushedBatches(r, seq) ==
  LET rest == SelectSeq(r.replicatedBatches, LAMBDA e : e.seq > seq)
      flushed == SelectSeq(r.replicatedBatches, LAMBDA e : e.seq <= seq)
  IN [r |-> [r EXCEPT !.replicatedBatches = rest],
      checks |-> [flushedUncommitted |->
                    ~r.leader /\ flushed # <<>> /\ LastSeq(flushed) > r.lastReceivedCommittedSeq,
                  changedWhileSyncing |-> flushed # <<>> /\ Syncs(r) # {}]]

receiveFlushMessage(r, m) ==
  LET f == removeFlushedBatches(r, m.seq)
  IN IF checkErrors(r, m) THEN Refused(r) ELSE Answer(f.r, FALSE, -1, f.checks)

removeUncommittedBatches(r) ==
  LET kept == SelectSeq(r.replicatedBatches, LAMBDA e : e.seq <= r.lastReceivedCommittedSeq)
  IN [r |-> [r EXCEPT !.replicatedBatches = kept],
      checks |-> [inconsistentCommitted |-> kept # <<>> /\ LastSeq(kept) # r.lastReceivedCommittedSeq]]

\* Mutant: a replica that has not heard of the leader yet answers that nothing
\* is committed.
NothingCommitted(r, m) ==
  IF ~r.valid \/ m.jv # r.joined THEN Refused(r)
  ELSE Answer([r EXCEPT !.leaderClusterVersion = m.cv], FALSE,
              IF r.leaderClusterVersion < m.cv THEN -1 ELSE r.lastReceivedCommittedSeq, NoChecks)

GetLastCommitted(r, m) ==
  IF ~r.valid \/ m.jv # r.joined THEN Refused(r)
  ELSE Answer([r EXCEPT !.leaderClusterVersion = m.cv], FALSE, r.lastReceivedCommittedSeq, NoChecks)

SetLastCommittedSequence(r, m) ==
  LET u == removeUncommittedBatches([r EXCEPT !.lastReceivedCommittedSeq = m.seq])
  IN IF ~r.valid \/ m.jv # r.joined THEN Refused(r)
     ELSE Answer(u.r, FALSE, -1,
                 [beyondLast |-> r.replicatedBatches # <<>> /\ m.seq > LastSeq(r.replicatedBatches)]
                 @@ u.checks)

\* receiveReplicatedSync, except for the end of the sync.
SyncRejected(r, m) == m.jv # r.joined \/ r.valid
ReceiveSyncStart(r, m) ==
  IF SyncRejected(r, m) THEN Refused([r EXCEPT !.replicaSyncing = FALSE])
  ELSE IF m.cv < r.leaderClusterVersion THEN Refused(r)
  ELSE Done([r EXCEPT !.replicatedBatches = <<>>, !.replicaSyncing = TRUE,
                      !.lastReceivedCommittedSeq = -1, !.leaderClusterVersion = m.cv])

SyncInterrupted(r, m) == SyncRejected(r, m) \/ m.cv # r.leaderClusterVersion
ReceiveSyncBatch(r, m) ==
  LET q == r.replicatedBatches
  IN IF SyncInterrupted(r, m) THEN Refused([r EXCEPT !.replicaSyncing = FALSE])
     ELSE IF ~r.replicaSyncing \/ (q # <<>> /\ m.seq # LastSeq(q) + 1) THEN Refused(r)
     ELSE Done([r EXCEPT !.replicatedBatches = Append(q, [seq |-> m.seq, batch |-> m.batch])])

\* The end of a sync that marks the replica as valid; marked is the answer of
\* MarkGroupAsValid, "ok", "no" or "error".
ReceiveSyncEnd(r, m, marked) ==
  LET q == r.replicatedBatches
      ended == [r EXCEPT !.lastReceivedCommittedSeq = m.seq]
  IN IF SyncInterrupted(r, m) THEN Refused([r EXCEPT !.replicaSyncing = FALSE])
     ELSE IF ~r.replicaSyncing THEN Refused(r)
     ELSE Answer(IF marked = "ok" THEN [ended EXCEPT !.valid = TRUE, !.replicaSyncing = FALSE] ELSE ended,
                 marked = "error", -1,
                 [inconsistentSyncEnd |-> q # <<>> /\ m.seq # LastSeq(q)])

Receive(r, m) ==
  CASE m.kind = "batch"  -> receiveReplicatedBatch(r, m)
    [] m.kind = "commit" -> receiveReplicatedCommit(r, m)
    [] m.kind = "flush"  -> receiveFlushMessage(r, m)
    [] m.kind = "get"    -> GetLastCommitted(r, m)
    [] m.kind = "set"    -> SetLastCommittedSequence(r, m)
    [] m.kind = "start"  -> ReceiveSyncStart(r, m)
    [] m.kind = "sync"   -> ReceiveSyncBatch(r, m)

-----------------------------------------------------------------------------
(***************************************************************************)
(* The leader.                                                             *)
(***************************************************************************)
syncsInProgressOrRequested(r) ==
  \E m \in Node : r.invalidReplicas[m].state \in {"requiresSync", "syncing"}

\* The entries after the valid and the vanished nodes are removed and the
\* invalid ones that are not known yet are added.
checkSyncsRequired(n, r) ==
  [m \in Node |->
     IF m = n \/ m \notin Members(view[n]) \/ m \in view[n].valid THEN NoEntry
     ELSE IF r.invalidReplicas[m].joined # view[n].joined[m]
          THEN [joined |-> view[n].joined[m], state |-> "requiresSync"]
          ELSE r.invalidReplicas[m]]

To(m, joined) == [d \in Node |-> IF d = m THEN joined ELSE Absent]

maybeSyncInvalidReplicas(n, r) ==
  LET entries == checkSyncsRequired(n, r)
      required == {m \in Node : entries[m].state = "requiresSync"}
      starts == {Call("start", 0, 0, To(m, entries[m].joined)) : m \in required}
      checked == [r EXCEPT !.invalidReplicas = entries]
      synced == [checked EXCEPT
                   !.invalidReplicas = [m \in Node |->
                      IF m \in required THEN [entries[m] EXCEPT !.state = "syncing"] ELSE entries[m]],
                   !.calls = @ \cup starts, !.needsSync = FALSE]
      q == r.replicatedBatches
  IN IF ~r.initialised THEN Quiet(r)
     ELSE IF required = {} THEN Quiet(checked)
     ELSE IF Replications(r) # {} THEN Quiet([checked EXCEPT !.needsSync = TRUE])
     ELSE Outcome(synced, UNION {Sends(r, c) : c \in starts}, <<>>, {},
                  [inProgressAtSync |-> Replications(r) # {},
                   uncommittedAtSync |-> q # <<>> /\ LastSeq(q) # r.lastCommittedSeq])

\* Mutant: the sequence of the last response is not rewound.
ResponseNotRewound(r, c) ==
  LET left == [r EXCEPT !.calls = @ \ {c}]
  IN IF Replications(left) # {}
     THEN Quiet([left EXCEPT !.replicationFailing = TRUE])
     ELSE Quiet([left EXCEPT !.replicationFailing = FALSE, !.batchSequence = r.lastCommittedSeq + 1])

\* The end of a replication without success (checkReplicationError).
replicationFailed(r, c) ==
  LET left == [r EXCEPT !.calls = @ \ {c}]
  IN IF Replications(left) # {}
     THEN Quiet([left EXCEPT !.replicationFailing = TRUE])
     ELSE Quiet([left EXCEPT !.replicationFailing = FALSE,
                             !.batchSequence = r.lastCommittedSeq + 1,
                             !.lastReplicationResponseSeq = r.lastCommittedSeq])

doReplicateCommit(r, c) ==
  LET commit == Call("commit", c.seq, c.batch, c.group)
  IN Outcome([r EXCEPT !.calls = (@ \ {c}) \cup {commit},
                       !.lastReplicationResponseSeq = c.seq,
                       !.lastReplicatedCommitSeq = c.seq],
             Sends(r, commit), <<>>, {},
             [responseOutOfSequence |-> r.lastReplicationResponseSeq \notin {-1, c.seq - 1},
              commitNotInSequence |-> r.lastReplicatedCommitSeq # -1
                                      /\ c.seq > r.lastReplicatedCommitSeq + 1])

\* The commit has succeeded: the batch is queued, processed and acknowledged,
\* then a waiting Acquiesce is released and a waiting sync is started.
appendAndProcessBatch(n, r, c) ==
  LET q == r.replicatedBatches
      entry == [seq |-> c.seq, batch |-> c.batch]
      idle == Replications(r) = {c}
      done == [r EXCEPT !.calls = @ \ {c}, !.replicatedBatches = Append(q, entry),
                        !.lastCommittedSeq = c.seq, !.lastProcessedSeq = c.seq,
                        !.lastReplicationCommitResponseSeq = c.seq,
                        !.acquiesceWait = @ /\ ~idle]
      synced == IF r.needsSync /\ idle THEN maybeSyncInvalidReplicas(n, done) ELSE Quiet(done)
  IN With([synced EXCEPT !.processed = <<entry>>, !.acks = {c.batch}], {},
          [commitOutOfSequence |-> \/ r.lastReplicationCommitResponseSeq \notin {-1, c.seq - 1}
                                   \/ q # <<>> /\ LastSeq(q) # c.seq - 1
                                   \/ r.lastCommittedSeq \notin {-1, c.seq - 1},
           changedWhileSyncing |-> Syncs(r) # {}])

replicationDone(n, r, c) ==
  IF c.err \/ r.replicationFailing THEN replicationFailed(r, c)
  ELSE IF c.kind = "batch" THEN doReplicateCommit(r, c)
  ELSE appendAndProcessBatch(n, r, c)

\* Replicating a flush is best-effort: the leader removes its batches whatever
\* the outcome, but never while it syncs.
flushDone(r, c) ==
  LET left == [r EXCEPT !.calls = @ \ {c}]
      f == removeFlushedBatches(left, c.seq)
  IN IF syncsInProgressOrRequested(r) THEN Quiet(left)
     ELSE Outcome([f.r EXCEPT !.lastFlushedSeq = c.seq], {}, <<>>, {}, f.checks)

\* The next call of a sync after c: start, one batch at a time, end.
nextSync(r, c) ==
  LET i == IF c.kind = "start" THEN 1 ELSE c.low + 1
      q == r.replicatedBatches
  IN IF i > Len(q) THEN Call("end", r.lastCommittedSeq, 0, c.group)
     ELSE [Call("sync", q[i].seq, q[i].batch, c.group) EXCEPT !.low = i]

syncTarget(c) == CHOOSE m \in Node : c.group[m] # Absent

\* Mutant: a sync that ends leaves its entry as it is.
EntryStaysSyncing(r, c, state) == [r EXCEPT !.calls = @ \ {c}]

\* Sets the state of the entry that c was started for, if it is still there.
setSyncState(r, c, state) ==
  LET m == syncTarget(c)
  IN IF r.invalidReplicas[m].joined = c.group[m]
     THEN [r EXCEPT !.invalidReplicas[m].state = state, !.calls = @ \ {c}]
     ELSE [r EXCEPT !.calls = @ \ {c}]

syncDone(n, r, c) ==
  LET next == nextSync(r, c)
      q == r.replicatedBatches
  IN IF c.err THEN maybeSyncInvalidReplicas(n, setSyncState(r, c, "requiresSync"))
     ELSE IF c.kind = "end" THEN Quiet(setSyncState(r, c, "completed"))
     ELSE Outcome([r EXCEPT !.calls = (@ \ {c}) \cup {next}], Sends(r, next), <<>>, {},
                  [wrongCommittedAtSyncEnd |-> next.kind = "end" /\ q # <<>>
                                               /\ LastSeq(q) # r.lastCommittedSeq])

-----------------------------------------------------------------------------
(***************************************************************************)
(* A new leader (repl_init.go).                                            *)
(***************************************************************************)
\* Mutant: the batch at the last processed sequence is replayed too.
ReplayedFromSeq(r, seq) == SelectSeq(r.replicatedBatches, LAMBDA e : e.seq >= seq)

reprocessQueue(r, seq) == SelectSeq(r.replicatedBatches, LAMBDA e : e.seq > seq)

InSequence(q) == \A i \in 2..Len(q) : q[i].seq = q[i - 1].seq + 1

\* The rest of InitialiseLeader, once the last committed sequence is agreed.
leaderInitialised(n, r) ==
  LET u == removeUncommittedBatches(r)
      replays == r.replicatedBatches # <<>> /\ r.requiresReprocess
      started == [u.r EXCEPT !.requiresReprocess = @ /\ ~replays,
                             !.lastProcessedSequence = IF replays THEN -1 ELSE @,
                             !.lastCommittedSeq = r.lastReceivedCommittedSeq,
                             !.batchSequence = r.lastReceivedCommittedSeq + 1,
                             !.lastReceivedCommittedSeq = -1, !.initialised = TRUE]
      o == maybeSyncInvalidReplicas(n, started)
  IN With([o EXCEPT !.processed = IF replays THEN reprocessQueue(u.r, r.lastProcessedSeq) ELSE <<>>],
          {}, [queueOutOfSequence |-> ~InSequence(u.r.replicatedBatches)] @@ u.checks)

\* All replicas have answered c.  A failed round is tried again by
\* InitialiseLeader; of the answers to set only the last one counts.
initialiseDone(n, r, c) ==
  LET left == [r EXCEPT !.calls = @ \ {c}]
      lowest == IF r.lastReceivedCommittedSeq < c.low THEN r.lastReceivedCommittedSeq ELSE c.low
      set == Call("set", lowest, 0, c.group)
  IN IF c.err THEN Quiet(left)
     ELSE IF c.kind = "get"
     THEN Outcome([left EXCEPT !.lastReceivedCommittedSeq = lowest, !.calls = @ \cup {set}],
                  Sends(r, set), <<>>, {}, NoChecks)
     ELSE leaderInitialised(n, left)

callDone(n, r, c) ==
  CASE c.kind \in {"batch", "commit"} -> replicationDone(n, r, c)
    [] c.kind = "flush" -> flushDone(r, c)
    [] c.kind \in {"start", "sync", "end"} -> syncDone(n, r, c)
    [] c.kind \in {"get", "set"} -> initialiseDone(n, r, c)

\* The answer of d to call c: a broadcast is complete with its first error,
\* InitialiseLeader waits for every answer.
answered(c, d, err, val) ==
  [c EXCEPT !.waiting = @ \ {d},
            !.err = IF c.kind = "set" THEN err ELSE @ \/ err,
            !.low = IF c.kind = "get" /\ ~err /\ val < @ THEN val ELSE @]

complete(c) == c.waiting = {} \/ (c.err /\ c.kind \notin {"get", "set"})

handleAnswer(n, r, c, d, err, val) ==
  LET a == answered(c, d, err, val)
      updated == [r EXCEPT !.calls = (@ \ {c}) \cup {a}]
  IN IF complete(a) THEN callDone(n, updated, a) ELSE Quiet(updated)

-----------------------------------------------------------------------------
(***************************************************************************)
(* Steps.  took is repl with the change of another node than n, sent is    *)
(* lane without the message that is handled.                               *)
(***************************************************************************)
Matches(m, c, d) ==
  m.live /\ m.kind = c.kind /\ m.seq = c.seq /\ m.batch = c.batch /\ m.jv = c.group[d]

\* Calls of s whose request to d, or its reply, went down with a connection.
Lost(s, d) ==
  {c \in repl[s].calls : d \in c.waiting /\ ~\E i \in DOMAIN lane[s][d] : Matches(lane[s][d][i], c, d)}

Processed(entries) ==
  [applied |-> [b \in Batch |->
      LET count == store.applied[b] + Len(SelectSeq(entries, LAMBDA e : e.batch = b))
      IN IF count > 2 THEN 2 ELSE count],
   seq |-> IF entries = <<>> THEN store.seq ELSE LastSeq(entries)]

StepFrom(took, sent, n, outcome) ==
  \E o \in {outcome} :
    /\ repl' = [took EXCEPT ![n] = o.r]
    /\ lane' = [sent EXCEPT ![n] = [d \in Node |->
                  IF d \in up THEN @[d] \o SetToSeq({x.msg : x \in {y \in o.sends : y.to = d}}) ELSE @[d]]]
    /\ store' = Processed(o.processed)
    /\ acked' = acked \cup o.acks
    /\ panics' = panics \cup o.panics

Step(n, o) == StepFrom(repl, lane, n, o)

\* The next message d handles of those s has sent: the oldest, or, when
\* connections overtake each other, the oldest of the current connection.
Heads(q) ==
  {i \in DOMAIN q : i = 1 \/ (Overtaking /\ q[i].live /\ \A j \in 1..(i - 1) : ~q[j].live)}

\* MarkGroupAsValid succeeds only for a higher joined version than the marked one.
MarkGroupAsValid(d, answer) ==
  LET higher == marks[d] < repl[d].joined
  IN \/ answer = "ok" /\ higher /\ marks' = [marks EXCEPT ![d] = repl[d].joined] /\ UNCHANGED faults
     \/ answer = "no" /\ ~higher /\ UNCHANGED <<marks, faults>>
     \/ /\ answer = "error" /\ faults.mark < MaxMarkErrors
        /\ faults' = [faults EXCEPT !.mark = @ + 1]
        /\ marks' \in {marks, [marks EXCEPT ![d] = IF higher THEN repl[d].joined ELSE @]}

\* d has handled the message at i from s with answer a.
Handled(s, d, i, answer) ==
  \E a \in {answer}, m \in {lane[s][d][i]} :
    LET took == [repl EXCEPT ![d] = a.r]
        sent == [lane EXCEPT ![s][d] = RemoveAt(@, i)]
        asked == {c \in repl[s].calls : d \in c.waiting /\ Matches(m, c, d)}
    IN \/ /\ asked = {}
          /\ repl' = took /\ lane' = sent /\ panics' = panics \cup a.panics
          /\ UNCHANGED <<store, acked>>
       \/ \E c \in asked : \E o \in {handleAnswer(s, repl[s], c, d, a.err, a.val)} :
            StepFrom(took, sent, s, [o EXCEPT !.panics = @ \cup a.panics])

HandleMessage(s, d) ==
  /\ d \in up
  /\ \E i \in Heads(lane[s][d]) :
       LET m == lane[s][d][i]
           r == repl[d]
       IN /\ m.live => Lost(s, d) = {}
          /\ \/ /\ r.leader \/ r.joined = Absent
                /\ Handled(s, d, i, Refused(r)) /\ UNCHANGED <<marks, faults>>
             \/ /\ ~r.leader /\ r.joined # Absent
                /\ \/ m.kind # "end" /\ Handled(s, d, i, Receive(r, m)) /\ UNCHANGED <<marks, faults>>
                   \/ /\ m.kind = "end" /\ r.replicaSyncing /\ ~SyncInterrupted(r, m)
                      /\ \E answer \in {"ok", "no", "error"} :
                           MarkGroupAsValid(d, answer) /\ Handled(s, d, i, ReceiveSyncEnd(r, m, answer))
                   \/ /\ m.kind = "end" /\ (~r.replicaSyncing \/ SyncInterrupted(r, m))
                      /\ Handled(s, d, i, ReceiveSyncEnd(r, m, "no")) /\ UNCHANGED <<marks, faults>>
  /\ UNCHANGED <<cs, fresh, up, view, durable, recovery, ingested>>

\* The response handlers of a closed connection are told so.
ConnectionClosed(s, d) ==
  /\ \E c \in Lost(s, d) : Step(s, handleAnswer(s, repl[s], c, d, TRUE, -1))
  /\ UNCHANGED <<netVars, durable, recovery, ingested, faults>>

Dead(q) == [i \in DOMAIN q |-> [q[i] EXCEPT !.live = FALSE]]

\* The connection from s to d breaks; the messages after some point are lost,
\* the ones before it will be handled, but nobody waits for the reply.
ConnectionBreaks(s, d) ==
  /\ faults.break < MaxBreaks /\ {s, d} \subseteq up /\ lane[s][d] # <<>>
  /\ faults' = [faults EXCEPT !.break = @ + 1]
  /\ \E k \in 0..Len(lane[s][d]) : lane' = [lane EXCEPT ![s][d] = Dead(SubSeq(@, 1, k))]
  /\ UNCHANGED <<netVars, repl, dataVars, recovery, panics>>

\* ReplicateBatch on the event loop, when the batch is accepted.
ReplicateBatch(n) ==
  LET r == repl[n]
      batch == ingested + 1
      group == [view[n].joined EXCEPT ![n] = Absent]
      c == Call("batch", r.batchSequence, batch, group)
  IN /\ OnLoop(n) /\ ingested < MaxBatches /\ Cardinality(Replications(r)) < MaxInProgress
     /\ recovery = "none" \/ IngestDuringRecovery
     /\ ~r.acquiescing /\ r.initialised /\ ~r.paused /\ ~r.replicationFailing
     /\ ~syncsInProgressOrRequested(r)
     /\ ingested' = batch
     /\ Step(n, Outcome([r EXCEPT !.batchSequence = @ + 1, !.lastReplicatedBatchSeq = r.batchSequence,
                                  !.calls = @ \cup {c}],
                        Sends(r, c), <<>>, {},
                        [batchNotInSequence |-> r.lastReplicatedBatchSeq # -1
                                                /\ c.seq > r.lastReplicatedBatchSeq + 1]))
     /\ UNCHANGED <<netVars, durable, recovery, faults>>

\* InitialiseLeader, called when a version reaches the leader, up to the
\* request for the last committed sequence of the valid replicas.
InitialiseLeader(n) ==
  LET r == repl[n]
      replicas == [m \in Node |-> IF m \in view[n].valid \ {n} THEN view[n].joined[m] ELSE Absent]
      c == Call("get", 0, 0, replicas)
  IN /\ OnLoop(n) /\ ~r.initialised
     /\ Step(n, IF c.waiting = {} THEN leaderInitialised(n, r)
                ELSE Outcome([r EXCEPT !.calls = @ \cup {c}], Sends(r, c), <<>>, {}, NoChecks))
     /\ UNCHANGED <<netVars, durable, recovery, ingested, faults>>

\* The action SetLeader submits for an existing leader.
SetLeader(n) ==
  LET r == [repl[n] EXCEPT !.setLeader = FALSE,
                           !.paused = Cardinality(Members(view[n])) < MinReplicas]
  IN /\ OnLoop(n) /\ repl[n].setLeader
     /\ Step(n, maybeSyncInvalidReplicas(n, r))
     /\ UNCHANGED <<netVars, durable, recovery, ingested, faults>>

\* The periodic check; a check that changes nothing is not a step.
CheckSync(n) ==
  LET o == maybeSyncInvalidReplicas(n, repl[n])
  IN /\ OnLoop(n) /\ o.r # repl[n]
     /\ Step(n, o)
     /\ UNCHANGED <<netVars, durable, recovery, ingested, faults>>

\* checkFlushBatches marks the checkpoint and waits for the next version to be
\* flushed.
MarkProcessedSequenceCheckpoint(n) ==
  /\ OnLoop(n) /\ recovery = "none" /\ repl[n].marked = "no"
  /\ repl[n].lastProcessedSeq # repl[n].lastProcessedSeqCheckpoint
  /\ repl' = [repl EXCEPT ![n].lastProcessedSeqCheckpoint = repl[n].lastProcessedSeq,
                          ![n].marked = "waiting"]
  /\ UNCHANGED <<netVars, lane, dataVars, recovery, panics, faults>>

\* A version completes and is flushed everywhere; none is during recovery.
VersionFlushed ==
  /\ recovery = "none" /\ faults.flush < MaxFlushes /\ durable # store
  /\ faults' = [faults EXCEPT !.flush = @ + 1]
  /\ durable' = store
  /\ repl' = [n \in Node |-> IF repl[n].marked = "waiting" THEN [repl[n] EXCEPT !.marked = "flushed"] ELSE repl[n]]
  /\ UNCHANGED <<netVars, lane, store, ingested, acked, recovery, panics>>

FlushBatchesFromCheckpoint(n) ==
  LET r == [repl[n] EXCEPT !.marked = "no"]
      c == Call("flush", r.lastProcessedSeqCheckpoint, 0, [view[n].joined EXCEPT ![n] = Absent])
  IN /\ OnLoop(n) /\ repl[n].marked = "flushed"
     /\ Step(n, IF r.lastProcessedSeqCheckpoint \in {-1, r.lastFlushedSeq} THEN Quiet(r)
                ELSE Outcome([r EXCEPT !.calls = @ \cup {c}], Sends(r, c), <<>>, {}, NoChecks))
     /\ UNCHANGED <<netVars, durable, recovery, ingested, faults>>

-----------------------------------------------------------------------------
(***************************************************************************)
(* The failure handler on the node that leads the group.                   *)
(***************************************************************************)
\* What the handler submits runs after the SetLeader of the state that failed.
Recovers(n) == n = cs.leader /\ view[n] = cs /\ OnLoop(n) /\ ~repl[n].setLeader

\* Mutant: Acquiesce waits although nothing is in progress.
AcquiesceAlwaysWaits(n) ==
  /\ recovery = "detected" /\ Recovers(n)
  /\ recovery' = "acquiescing"
  /\ repl' = [repl EXCEPT ![n].acquiescing = TRUE, ![n].acquiesceWait = TRUE]
  /\ UNCHANGED <<netVars, lane, dataVars, panics, faults>>

Acquiesce(n) ==
  /\ recovery = "detected" /\ Recovers(n)
  /\ recovery' = "acquiescing"
  /\ repl' = IF Replications(repl[n]) = {} THEN repl
             ELSE [repl EXCEPT ![n].acquiescing = TRUE, ![n].acquiesceWait = TRUE]
  /\ UNCHANGED <<netVars, lane, dataVars, panics, faults>>

\* The rollback version is known: ResetProcessedSequences and ClearUnflushedData.
ResetProcessedSequences(n) ==
  /\ recovery = "acquiescing" /\ Recovers(n) /\ ~repl[n].acquiesceWait
  /\ recovery' = "cleared"
  /\ store' = durable
  /\ repl' = [repl EXCEPT ![n].lastProcessedSeq = -1, ![n].lastProcessedSeqCheckpoint = -1]
  /\ UNCHANGED <<netVars, lane, durable, ingested, acked, panics, faults>>

\* All nodes have cleared their stores: replay and Resume.
MaybeReprocessQueue(n) ==
  LET r == [repl[n] EXCEPT !.acquiescing = FALSE]
  IN /\ recovery = "cleared" /\ Recovers(n)
     /\ InitialisedFirst => r.initialised
     /\ recovery' = "none"
     /\ Step(n, IF r.initialised
                THEN Outcome(r, {}, reprocessQueue(r, durable.seq), {}, NoChecks)
                ELSE Quiet([r EXCEPT !.requiresReprocess = TRUE, !.lastProcessedSequence = durable.seq]))
     /\ UNCHANGED <<netVars, durable, ingested, faults>>

-----------------------------------------------------------------------------
(***************************************************************************)
(* The cluster: nodes crash and restart, the cluster manager computes the  *)
(* next state of the group, nodes apply the state they see last.           *)
(***************************************************************************)
Kept == {n \in Members(cs) : n \in up /\ n \notin fresh}
Marked == {n \in Kept : n = cs.leader \/ marks[n] = cs.joined[n]}

\* The group survives: a node stays whose replica is valid.
Crash(n) ==
  /\ n \in up /\ faults.crash < MaxCrashes /\ Marked \ {n} # {}
  /\ faults' = [faults EXCEPT !.crash = @ + 1]
  /\ up' = up \ {n} /\ fresh' = fresh \ {n}
  /\ view' = [view EXCEPT ![n] = NoView]
  /\ repl' = [repl EXCEPT ![n] = NewReplicator(Absent)]
  /\ \E k \in [Node -> 0..(MaxBatches * 2)] :
       /\ \A d \in Node : k[d] <= Len(lane[n][d])
       /\ lane' = [s \in Node |-> [d \in Node |->
                     IF d = n THEN <<>>
                     ELSE IF s = n THEN Dead(SubSeq(lane[n][d], 1, k[d])) ELSE lane[s][d]]]
  /\ store' = IF repl[n].leader THEN durable ELSE store
  /\ UNCHANGED <<cs, marks, durable, ingested, acked, recovery, panics>>

\* The node starts again: its valid groups keys are deleted.
Restart(n) ==
  /\ n \notin up /\ faults.restart < MaxRestarts
  /\ faults' = [faults EXCEPT !.restart = @ + 1]
  /\ up' = up \cup {n} /\ fresh' = fresh \cup {n}
  /\ marks' = [marks EXCEPT ![n] = Absent]
  /\ UNCHANGED <<cs, view, repl, lane, dataVars, recovery, panics>>

handleActiveNodes ==
  LET version == cs.version + 1
      left == Members(cs) \ Kept
  IN /\ version <= MaxClusterVersion
     /\ left # {} \/ fresh # {} \/ Marked # cs.valid
     /\ \E leader \in Marked :
          /\ cs.leader \in Kept => leader = cs.leader
          /\ cs' = [version |-> version,
                    joined |-> [n \in Node |-> IF n \in Kept THEN cs.joined[n]
                                               ELSE IF n \in up THEN version ELSE Absent],
                    valid |-> Marked, leader |-> leader]
     /\ fresh' = {}
     /\ recovery' = IF left # {} THEN "detected" ELSE recovery
     /\ UNCHANGED <<marks, up, view, repl, lane, dataVars, panics, faults>>

\* processGroupState for the state etcd holds.
HandleClusterState(n) ==
  LET r == IF repl[n].joined = Absent THEN NewReplicator(cs.joined[n]) ELSE repl[n]
      enough == Cardinality(Members(cs)) >= MinReplicas
  IN /\ n \in Members(cs) /\ n \in up /\ n \notin fresh /\ view[n] # cs
     /\ StateDuringSync \/ Syncs(repl[n]) = {}
     /\ view' = [view EXCEPT ![n] = cs]
     /\ repl' = [repl EXCEPT ![n] =
                   IF cs.leader # n THEN r
                   ELSE IF r.leader THEN [r EXCEPT !.setLeader = TRUE]
                   ELSE [r EXCEPT !.leader = TRUE, !.leaderClusterVersion = cs.version,
                                  !.paused = ~enough]]
     /\ UNCHANGED <<cs, marks, fresh, up, lane, dataVars, recovery, panics, faults>>

-----------------------------------------------------------------------------
LoopStep(n) ==
  \/ ReplicateBatch(n) \/ InitialiseLeader(n) \/ SetLeader(n) \/ CheckSync(n)
  \/ MarkProcessedSequenceCheckpoint(n) \/ FlushBatchesFromCheckpoint(n)

RecoveryStep(n) == Acquiesce(n) \/ ResetProcessedSequences(n) \/ MaybeReprocessQueue(n)

Next ==
  \/ \E n \in Node : LoopStep(n) \/ RecoveryStep(n) \/ HandleClusterState(n)
                     \/ Crash(n) \/ Restart(n)
  \/ \E s, d \in Node : HandleMessage(s, d) \/ ConnectionClosed(s, d) \/ ConnectionBreaks(s, d)
  \/ VersionFlushed \/ handleActiveNodes

Spec == Init /\ [][Next]_vars

-----------------------------------------------------------------------------
(***************************************************************************)
(* Properties.                                                             *)
(***************************************************************************)
\* None of the panics guarded by debug.SanityChecks in repli/ is reached:
\* sequences never skip, a queue never changes while it is being synced, a
\* replica never flushes or keeps what is not committed.
NeverPanics == panics = {}

Leads(n) == n = cs.leader /\ repl[n].leader /\ repl[n].initialised
Queued(n) == {repl[n].replicatedBatches[i].batch : i \in DOMAIN repl[n].replicatedBatches}
Applied(data) == {b \in Batch : data.applied[b] > 0}

\* A batch that ReplicateBatch has acknowledged is in the queue of every later
\* leader until a version that holds it is flushed, and what is in the queue of
\* the leader and not flushed is in the queue of every valid replica ("all
\* batches up to the committed batch exist on all replicas").
AckedSurvive ==
  /\ \A n \in Node : Leads(n) => acked \subseteq Queued(n) \cup Applied(durable)
  /\ \A n, d \in Node :
       /\ Leads(n) /\ view[n] = cs
       /\ d \in cs.valid \ {n} /\ repl[d].valid /\ repl[d].joined = cs.joined[d]
       => Queued(n) \subseteq Queued(d) \cup Applied(durable)

\* Replays after a failure and retries never apply a batch twice to the same
\* state, and once the failure is recovered the state of the leader holds every
\* acknowledged batch again.
AckedAppliedOnce ==
  /\ \A b \in Batch : store.applied[b] <= 1
  /\ \A n \in Node : Leads(n) /\ view[n] = cs /\ recovery = "none" => acked \subseteq Applied(store)

-----------------------------------------------------------------------------
(***************************************************************************)
(* Liveness.  Event loops, connections, the cluster manager and the        *)
(* failure handler keep running; nothing makes a client send a batch, a    *)
(* version flush or a node crash or restart.                               *)
(***************************************************************************)
Network == \E s, d \in Node : HandleMessage(s, d) \/ ConnectionClosed(s, d)
Loops == \E n \in Node : InitialiseLeader(n) \/ SetLeader(n) \/ CheckSync(n) \/ RecoveryStep(n)
Cluster == handleActiveNodes \/ \E n \in Node : HandleClusterState(n)

Fairness == WF_vars(Network) /\ WF_vars(Loops \/ Cluster)

FairSpec == Spec /\ Fairness

\* A recovery that finds no replication in progress on the leader ends: the
\* new leader is initialised, the store is cleared and the queue is replayed.
RecoveryCompletes ==
  (recovery = "detected" /\ \E n \in Node : Recovers(n) /\ Replications(repl[n]) = {})
    ~> recovery = "none"

\* Every replication ends, with or without success, as long as the group has
\* at least MinReplicas nodes (conf.go accepts every min-replicas > 0), and
\* replicas that are not valid are synced and marked as valid, or leave.
GroupSettles ==
  /\ (\E n \in Node : Replications(repl[n]) # {}) ~> (\A n \in Node : Replications(repl[n]) = {})
  /\ Members(cs) # cs.valid ~> Members(cs) = cs.valid

=============================================================================
