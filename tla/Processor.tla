------------------------------ MODULE Processor ------------------------------
(* Processors, barriers and forward queues (proc/processor.go,               *)
(* proc/forward_queue.go, proc/forwarder.go, proc/write_cache.go, the        *)
(* version handling of proc/mgr.go) around one repartitioned stream: a       *)
(* source receiver on the processors Source, a partition operator, and its   *)
(* receiver on the processors Dest, which stores what it receives.  Every    *)
(* processor is an event loop, so each action on it is atomic.  Versions     *)
(* come from the version manager, here reduced to what it does with          *)
(* completions and dooms (module VersionManager has the rest of it).         *)
(* Watermarks are left out.                                                  *)
EXTENDS Integers, FiniteSets, Sequences, SequencesExt

CONSTANTS
    Source,       \* processors of the source receiver
    Dest,         \* processors of the partition receiver
    Batch,        \* batches that may be ingested, each with a row for every processor of Rows
    Rows,         \* Rows[b]: the destinations of the rows of batch b
    MaxVersion,   \* bound: no version after this one is broadcast
    MaxFaults,    \* bound: failed forwards, stream changes and stuck versions together
    Undeployed,   \* destinations that have not processed the command that deploys the stream yet
    Faults        \* which of the cases listed at Faults are allowed

\* "late_request": a request whose sender saw the connection fail may still
\*    arrive, from the old connection, at any time;
\* "lost_reply": a VersionComplete that was counted is sent again because its
\*    response was lost;
\* "change": the deployed streams may change.
ASSUME FaultsAssumption == Faults \subseteq {"late_request", "lost_reply", "change"}
ASSUME RowsAssumption == 0 \notin Batch /\ Rows \in [Batch -> SUBSET Dest \ {{}}]

VARIABLES
    currWriteVersion,  \* the processor manager's version at each source's node
    currentVersion,    \* processor.currentVersion of each source, -1 until set
    lastCommandID,     \* the stream manager's lastCommandID at each processor's node
    deployed,          \* the processors whose stream manager has the stream
    queue,             \* forward queues: per source, entries = functions from Dest to messages
    forwardSequences,  \* per source and destination
    forward,           \* the attempt in progress: "idle", "sent" or "resend"
    acked,             \* destinations that answered the attempt in progress
    requests,          \* forward requests in the network
    dst,               \* the state of each destination (InitDst)
    calls,             \* VersionComplete calls in flight
    vm,                \* the version manager
    ingested,          \* ghost: the version each batch was ingested into
    faults             \* ghost: counted for the bound

vars == <<currWriteVersion, currentVersion, lastCommandID, deployed, queue, forwardSequences,
          forward, acked, requests, dst, calls, vm, ingested, faults>>
nodeVars == <<currWriteVersion, lastCommandID, deployed>>
queueVars == <<queue, forwardSequences, forward, acked, requests>>

Proc == Source \cup Dest

\* getBarrierInfo: a new barrierInfo.
NewBarrierInfo == [delaying |-> FALSE, maxVersion |-> 0, delayedBatches |-> <<>>,
                   lastBarrierVersion |-> -1, receivedBarriers |-> {}, lastCommandID |-> -1]

InitDst == [info |-> NewBarrierInfo,
            expected |-> [q \in Source |-> 0],
            cache |-> <<>>,        \* WriteCache: the rows <<batch, version>> put and not written
            stored |-> <<>>,       \* the rows written to the store
            seen |-> -1,           \* ghost: the version of the last batch the receiver was given
            backwards |-> FALSE,   \* ghost: that version has once gone down
            completed |-> -1]      \* completedReceiverVersions

Init ==
    /\ currWriteVersion = [p \in Source |-> -1]
    /\ currentVersion = [p \in Source |-> -1]
    /\ lastCommandID = [p \in Proc |-> 0]
    /\ deployed = Proc \ Undeployed
    /\ queue = [p \in Source |-> <<>>]
    /\ forwardSequences = [p \in Source |-> [d \in Dest |-> 0]]
    /\ forward = [p \in Source |-> "idle"]
    /\ acked = [p \in Source |-> {}]
    /\ requests = {}
    /\ dst = [d \in Dest |-> InitDst]
    /\ calls = {}
    /\ vm = [current |-> 0, completed |-> -1, count |-> 0, commands |-> {}, mixed |-> FALSE]
    /\ ingested = [b \in Batch |-> -1]
    /\ faults = 0

Fault == faults < MaxFaults /\ faults' = faults + 1

-----------------------------------------------------------------------------
(***************************************************************************)
(* The forward queue of a source.  An entry maps each destination it has a *)
(* batch for to the message.                                               *)
(***************************************************************************)
Barrier(q, v, command) == [barrier |-> TRUE, from |-> q, version |-> v, seq |-> 0, batch |-> 0,
                           command |-> command]

\* The batches that stay in the queue: a reset becomes sequence 0 once sent.
ClearReset(entry) == [d \in DOMAIN entry |-> IF entry[d].seq = -1 THEN [entry[d] EXCEPT !.seq = 0] ELSE entry[d]]

Sent(entry) == {[to |-> d, live |-> TRUE, msg |-> entry[d]] : d \in DOMAIN entry}

\* forwardNextEntry, for queue q of source p with an entry at its head; net
\* is what else is in the network.
forwardNextEntry(p, q, net) ==
    /\ queue' = [queue EXCEPT ![p] = <<ClearReset(Head(q))>> \o Tail(q)]
    /\ requests' = net \cup Sent(Head(q))
    /\ forward' = [forward EXCEPT ![p] = "sent"]
    /\ acked' = [acked EXCEPT ![p] = {}]

enqueueForwardBatches(p, entry) ==
    IF forward[p] = "idle"
    THEN forwardNextEntry(p, <<entry>>, requests)
    ELSE queue' = [queue EXCEPT ![p] = Append(@, entry)] /\ UNCHANGED <<forward, acked, requests>>

\* The sequences enqueueForwardBatches gives to batches: the first is a reset.
Sequenced(p, b) ==
    [d \in Rows[b] |->
        [barrier |-> FALSE, from |-> p, version |-> currentVersion[p],
         seq |-> IF forwardSequences[p][d] = 0 THEN -1 ELSE forwardSequences[p][d],
         batch |-> b, command |-> -1]]

\* The old attempt's requests of p that are still in the network.
Mine(p) == {r \in requests : r.msg.from = p /\ r.live}

\* All destinations answered: handleForwardCompletion without error.
handleForwardCompletion(p) ==
    /\ forward[p] = "sent"
    /\ acked[p] = DOMAIN Head(queue[p])
    /\ IF Len(queue[p]) = 1
       THEN /\ queue' = [queue EXCEPT ![p] = <<>>]
            /\ forward' = [forward EXCEPT ![p] = "idle"]
            /\ acked' = [acked EXCEPT ![p] = {}]
            /\ UNCHANGED requests
       ELSE forwardNextEntry(p, Tail(queue[p]), requests)
    /\ UNCHANGED <<nodeVars, currentVersion, forwardSequences, dst, calls, vm, ingested, faults>>

\* A destination's connection fails, or the request or its answer is lost:
\* handleForwardCompletion with an unavailable error, which the countdown
\* future passes on at the first failure.  What is in the network of this
\* attempt is lost, or still arrives later; batches the destination delays
\* keep the completion of an attempt nobody waits for.
ForwardFails(p) ==
    /\ Fault
    /\ forward[p] = "sent"
    /\ forward' = [forward EXCEPT ![p] = "resend"]
    /\ \E late \in SUBSET Mine(p) :
         /\ "late_request" \in Faults \/ late = {}
         /\ requests' = (requests \ Mine(p)) \cup {[r EXCEPT !.live = FALSE] : r \in late}
    /\ dst' = [d \in Dest |->
         [dst[d] EXCEPT !.info.delayedBatches =
            [i \in DOMAIN @ |-> IF @[i].msg.from = p THEN [@[i] EXCEPT !.live = FALSE] ELSE @[i]]]]
    /\ UNCHANGED <<nodeVars, currentVersion, queue, forwardSequences, acked, calls, vm, ingested>>

\* The forward resend timer: the whole entry is sent again.
ForwardResend(p) ==
    /\ forward[p] = "resend"
    /\ forwardNextEntry(p, queue[p], requests)
    /\ UNCHANGED <<nodeVars, currentVersion, forwardSequences, dst, calls, vm, ingested, faults>>

-----------------------------------------------------------------------------
(***************************************************************************)
(* The version manager's side, as processor.go and proc/mgr.go use it.  A  *)
(* completion counts whatever its command id, as currentCommandID is only  *)
(* ever set to -1; commands and mixed are ghosts that record the ids.      *)
(***************************************************************************)
Completion(d, version, command) ==
    [by |-> d, version |-> version, command |-> command, doom |-> FALSE]
Doom(p, version) == [by |-> p, version |-> version, command |-> -1, doom |-> TRUE]

\* VersionManager.VersionComplete.
VersionComplete(call) ==
    IF call.version < vm.current \/ call.version <= vm.completed THEN vm
    ELSE IF call.doom
    THEN [vm EXCEPT !.current = call.version + 1, !.count = 0, !.commands = {}]
    ELSE IF vm.count + 1 = Cardinality(Dest)
    THEN [vm EXCEPT !.current = @ + 1, !.completed = vm.current, !.count = 0, !.commands = {},
                    !.mixed = @ \/ vm.commands \cup {call.command} # {call.command}]
    ELSE [vm EXCEPT !.count = @ + 1, !.commands = @ \cup {call.command}]

\* sendVersionComplete and doomVersion: the call arrives.  If its answer is
\* lost it is made again.
VersionCompleteArrives(call) ==
    /\ vm' = VersionComplete(call)
    /\ \/ calls' = calls \ {call}
       \/ "lost_reply" \in Faults /\ UNCHANGED calls
    /\ UNCHANGED <<nodeVars, currentVersion, queueVars, dst, ingested, faults>>

\* The call fails, and when its retry runs on the processor another version
\* has completed there.
VersionCompleteDropped(call) ==
    /\ call.by \in Dest /\ dst[call.by].completed # call.version
    /\ calls' = calls \ {call}
    /\ UNCHANGED <<nodeVars, currentVersion, queueVars, dst, vm, ingested, faults>>

\* The version manager's stuck version timer.
checkStuckVersion ==
    /\ Fault
    /\ vm.current <= MaxVersion
    /\ vm' = VersionComplete(Doom("vm", vm.current))
    /\ UNCHANGED <<nodeVars, currentVersion, queueVars, dst, calls, ingested>>

-----------------------------------------------------------------------------
(***************************************************************************)
(* Sources.                                                                *)
(***************************************************************************)
\* setVersions, on a broadcast of the version manager.  One that arrives late
\* is one that arrived in time and whose barriers were injected late.
setVersions(p, version) ==
    /\ version <= MaxVersion
    /\ version > currWriteVersion[p]
    /\ currWriteVersion' = [currWriteVersion EXCEPT ![p] = version]
    /\ UNCHANGED <<lastCommandID, deployed, currentVersion, queueVars, dst, calls, vm, ingested, faults>>

\* closeVersion: the injected barrier goes through the source receiver to
\* every processor of the partition scheme (processBarrier, HandleBarrier,
\* GetForwardBarriers), with this node's command id.
closeVersion(p, version) ==
    /\ enqueueForwardBatches(p, [d \in Dest |-> Barrier(p, version, lastCommandID[p])])
    /\ currentVersion' = [currentVersion EXCEPT ![p] = version + 1]

\* setVersionForProcessors, at once or when the barrier inject timer fires.
setVersionForProcessors(p) ==
    /\ currWriteVersion[p] >= currentVersion[p] /\ currWriteVersion[p] # -1
    /\ closeVersion(p, currWriteVersion[p])
    /\ UNCHANGED <<nodeVars, forwardSequences, dst, calls, vm, ingested, faults>>

\* IngestBatch, an injected batch: rejected until the version is set, then
\* processed at the current version and repartitioned.
IngestBatch(p, b) ==
    /\ currentVersion[p] # -1
    /\ ingested[b] = -1
    /\ ingested' = [ingested EXCEPT ![b] = currentVersion[p]]
    /\ enqueueForwardBatches(p, Sequenced(p, b))
    /\ forwardSequences' = [forwardSequences EXCEPT ![p] =
                              [d \in Dest |-> IF d \in Rows[b] THEN @[d] + 1 ELSE @[d]]]
    /\ UNCHANGED <<nodeVars, currentVersion, dst, calls, vm, faults>>

-----------------------------------------------------------------------------
(***************************************************************************)
(* Destinations.  These operators take and return the state D of one       *)
(* destination.  out(D, done, sent) is the outcome of handling a request:  *)
(* the state, the requests whose completion is called and the              *)
(* VersionComplete calls made.                                             *)
(***************************************************************************)
out(D, done, sent) == [dst |-> D, done |-> done, calls |-> sent]

\* Mutant: no screening of duplicates.
ReceiveBatchAny(D, msg) ==
    [D EXCEPT !.expected[msg.from] = IF msg.seq = -1 THEN 1 ELSE msg.seq + 1,
              !.seen = msg.version, !.backwards = @ \/ msg.version < D.seen, !.cache = Append(@, <<msg.batch, msg.version>>)]

\* partitionReceiver.ReceiveBatch: duplicates are screened out, the rest goes
\* downstream to be put in the write cache.
ReceiveBatch(D, msg) ==
    IF msg.seq # -1 /\ msg.seq < D.expected[msg.from] THEN D
    ELSE [D EXCEPT !.expected[msg.from] = IF msg.seq = -1 THEN 1 ELSE msg.seq + 1,
                   !.seen = msg.version, !.backwards = @ \/ msg.version < D.seen, !.cache = Append(@, <<msg.batch, msg.version>>)]

\* processBatch: HandleProcessBatch drops a batch for a receiver it does not
\* have, without an error.
processBatch(d, D, msg) == IF d \in deployed THEN ReceiveBatch(D, msg) ELSE D

\* Mutant: the write cache is not written at the barrier.
KeepCache(D) == D

\* MaybeWriteToStore.
MaybeWriteToStore(D) == [D EXCEPT !.stored = @ \o D.cache, !.cache = <<>>]

\* versionComplete, after the write cache is written.  The barrier takes the
\* command id of this node (HandleProcessBatch).
processBarrier(d, D, version) ==
    LET W == MaybeWriteToStore(D)
    IN  IF version <= D.completed THEN out(W, {}, {})
        ELSE out([W EXCEPT !.completed = version], {}, {Completion(d, version, lastCommandID[d])})

\* A batch that is not delayed: its version is raised to the largest seen.
handleForwarded(d, D, msg) ==
    LET v == IF msg.version < D.info.maxVersion THEN D.info.maxVersion ELSE msg.version
    IN  processBatch(d, [D EXCEPT !.info.maxVersion = v], [msg EXCEPT !.version = v])

\* The delayed batches once all barriers are there, and their requests.
releaseDelayed(d, D) ==
    FoldLeft(LAMBDA E, r : handleForwarded(d, E, r.msg), [D EXCEPT !.info.delayedBatches = <<>>],
             D.info.delayedBatches)

\* The delayed batches when a higher barrier arrives first: as they are.
releaseSkipped(d, D) ==
    FoldLeft(LAMBDA E, r : processBatch(d, E, r.msg), [D EXCEPT !.info.delayedBatches = <<>>],
             D.info.delayedBatches)

Delayed(D) == {D.info.delayedBatches[i] : i \in DOMAIN D.info.delayedBatches}

\* Mutant: a batch after the barrier is not delayed.
handleBatchAtOnce(d, D, r) == out(handleForwarded(d, D, r.msg), {r}, {})

\* doHandleBatch for a forwarded batch.
handleBatch(d, D, r) ==
    IF D.info.delaying /\ r.msg.version > D.info.lastBarrierVersion
    THEN out([D EXCEPT !.info.delayedBatches = Append(@, r)], {}, {})
    ELSE out(handleForwarded(d, D, r.msg), {r}, {})

\* Mutant: the completions of the released batches are not called.
lastBarrierUnanswered(d, D, r) ==
    LET o == processBarrier(d, D, r.msg.version)
        E == releaseDelayed(d, o.dst)
    IN  out([E EXCEPT !.info.receivedBarriers = {}, !.info.delaying = FALSE], {r}, o.calls)

\* The barrier that all sources have now sent: process it, release.
lastBarrier(d, D, r) ==
    LET o == processBarrier(d, D, r.msg.version)
        E == releaseDelayed(d, o.dst)
    IN  out([E EXCEPT !.info.receivedBarriers = {}, !.info.delaying = FALSE], Delayed(D) \cup {r}, o.calls)

\* A higher barrier while waiting for an earlier version: go on to it.
skipToBarrier(d, D, r) ==
    out([releaseSkipped(d, D) EXCEPT !.info.lastBarrierVersion = r.msg.version,
                                     !.info.receivedBarriers = {r.msg.from}],
        Delayed(D) \cup {r}, {})

\* doHandleBatch for a forwarded barrier.
handleBarrier(d, D0, r) ==
    LET msg == r.msg
        D == [D0 EXCEPT !.info.lastCommandID = msg.command]
        info == D.info
    IN  CASE D0.info.lastCommandID # -1 /\ D0.info.lastCommandID # msg.command ->
               out([D EXCEPT !.completed = msg.version], {r}, {Doom(d, msg.version)})
          [] OTHER ->
        CASE \/ msg.version < info.lastBarrierVersion
             \/ ~info.delaying /\ msg.version = info.lastBarrierVersion
             \/ d \notin deployed -> out(D, {r}, {})
          [] OTHER ->
        CASE Cardinality(Source) = 1 ->
               LET o == processBarrier(d, D, msg.version) IN out(o.dst, {r}, o.calls)
          [] info.delaying /\ msg.version > info.lastBarrierVersion -> skipToBarrier(d, D, r)
          [] info.delaying /\ msg.version = info.lastBarrierVersion ->
               LET got == info.receivedBarriers \cup {msg.from}
                   E == [D EXCEPT !.info.receivedBarriers = got]
               IN  IF msg.from \notin info.receivedBarriers /\ got = Source
                   THEN lastBarrier(d, E, r)
                   ELSE out(E, {r}, {})
          [] OTHER ->
               out([D EXCEPT !.info.lastBarrierVersion = msg.version, !.info.delaying = TRUE,
                             !.info.receivedBarriers = @ \cup {msg.from}], {r}, {})

\* A request arrives (forwardMessageHandler.HandleMessage, IngestBatch).
HandleMessage(r) ==
    LET d == r.to
        o == IF r.msg.barrier THEN handleBarrier(d, dst[d], r) ELSE handleBatch(d, dst[d], r)
        \* completions of the attempt their source waits for
        answers(p) == {x.to : x \in {y \in o.done : y.live /\ y.msg.from = p}}
    IN  /\ requests' = requests \ {r}
        /\ dst' = [dst EXCEPT ![d] = o.dst]
        /\ acked' = [p \in Source |-> acked[p] \cup answers(p)]
        /\ calls' = calls \cup o.calls
        /\ UNCHANGED <<nodeVars, currentVersion, queue, forwardSequences, forward, vm, ingested, faults>>

-----------------------------------------------------------------------------
(***************************************************************************)
(* Streams change.                                                         *)
(***************************************************************************)
\* The node of p processes a command that deploys another stream on top of
\* this one's receiver, or this stream itself where it is not deployed yet:
\* AfterReceiverChange drops the processor's barrier infos
\* (InvalidateCachedReceiverInfo) and dooms the version after the one the
\* node has seen, which for a destination may be any so far.
AfterReceiverChange(p, version) ==
    /\ "change" \in Faults
    /\ Fault
    /\ p \in Source => version = currWriteVersion[p]
    /\ lastCommandID' = [lastCommandID EXCEPT ![p] = @ + 1]
    /\ deployed' = deployed \cup {p}
    /\ dst' = IF p \in Dest THEN [dst EXCEPT ![p].info = NewBarrierInfo] ELSE dst
    /\ calls' = IF version = -1 THEN calls ELSE calls \cup {Doom("mgr", version + 1)}
    /\ UNCHANGED <<currWriteVersion, currentVersion, queueVars, vm, ingested>>

-----------------------------------------------------------------------------
Next ==
    \/ \E p \in Source : setVersions(p, vm.current)
    \/ \E p \in Source : setVersionForProcessors(p)
    \/ \E p \in Source, b \in Batch : IngestBatch(p, b)
    \/ \E p \in Source : handleForwardCompletion(p)
    \/ \E p \in Source : ForwardFails(p)
    \/ \E p \in Source : ForwardResend(p)
    \/ \E r \in requests : HandleMessage(r)
    \/ \E call \in calls : VersionCompleteArrives(call)
    \/ \E call \in calls : VersionCompleteDropped(call)
    \/ checkStuckVersion
    \/ \E p \in Proc : \E v \in -1..vm.current : AfterReceiverChange(p, v)

Spec == Init /\ [][Next]_vars

-----------------------------------------------------------------------------
(***************************************************************************)
(* Properties.                                                             *)
(***************************************************************************)
Count(s, b) == Len(SelectSeq(s, LAMBDA row : row[1] = b))

\* Batch b is in the store of every processor it has rows for.
InStore(b) == ingested[b] # -1 /\ \A d \in Rows[b] : Count(dst[d].stored, b) > 0

\* The rows of a batch that was accepted are stored at most once, whatever is
\* sent again, and not lost: they are in the store, in a cache, or still in the
\* queue of their source (partitionReceiver.ReceiveBatch, forwardNextEntry).
StoredExactlyOnce ==
    \A d \in Dest, b \in Batch :
      LET stored == Count(dst[d].stored \o dst[d].cache, b)
          queued(p) == \E i \in DOMAIN queue[p] : d \in DOMAIN queue[p][i] /\ queue[p][i][d].batch = b
      IN  /\ stored <= 1
          /\ ingested[b] # -1 /\ d \in Rows[b] => stored = 1 \/ \E p \in Source : queued(p)

\* A completed version is a consistent snapshot: completions arrive, and count,
\* only after everything ingested up to that version has been written, and
\* nothing is written to it later (the comment on barriers in processor.go).
Abstract == INSTANCE Snapshot WITH
    version <- ingested,
    written <- {b \in Batch : InStore(b)},
    completed <- vm.completed
ImplementsSnapshot == Abstract!Spec

\* Rows of a completed version are stored at that version or below, so that
\* rolling back to it keeps them, and a row is never stored below the version
\* its batch was ingested into (doHandleBatch raises versions only).
StoredWithinVersion ==
    \A d \in Dest : \A i \in DOMAIN dst[d].stored :
      LET b == dst[d].stored[i][1]
          v == dst[d].stored[i][2]
      IN  v >= ingested[b] /\ (ingested[b] <= vm.completed => v <= vm.completed)

\* A receiver never sees the version of its batches go down
\* (the comment on maxVersion in doHandleBatch).
VersionsNeverGoBackwards == \A d \in Dest : ~dst[d].backwards

\* All completions of a version that completes carry the same command id
\* (the comment on the command id in streamManager.HandleProcessBatch).
CompletedWithOneCommand == ~vm.mixed

\* Every forward in progress is answered some time: what its source waits for
\* is still on its way, or delayed at a destination that will release it (the
\* comment on delayed batches in doHandleBatch).
ForwardsAnswered ==
    \A p \in Source : forward[p] = "sent" =>
      \A d \in DOMAIN Head(queue[p]) \ acked[p] :
        \E r \in requests \cup Delayed(dst[d]) : r.live /\ r.to = d /\ r.msg.from = p

\* No step of the program is left to do: everything sent has arrived, every
\* completion has been handled, and the sources have closed the version the
\* version manager is at.
Quiescent ==
    /\ requests = {} /\ calls = {}
    /\ \A p \in Source :
         /\ forward[p] = "idle" \/ (forward[p] = "sent" /\ acked[p] # DOMAIN Head(queue[p]))
         /\ currentVersion[p] > vm.current

\* The processors never all wait for each other: unless streams change, the
\* current version completes without the stuck version timer having to fire,
\* also when a forward queue waits for a batch that is delayed by a barrier
\* (doHandleBatch, sendVersionComplete, the forward queue).
NoVersionStuck == Quiescent => \E p \in Proc : lastCommandID[p] > 0

=============================================================================
