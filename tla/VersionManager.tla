--------------------------- MODULE VersionManager ---------------------------
(***************************************************************************)
(* The version manager (vmgr/vmgr.go, vmgr/failure.go): the single process *)
(* of the cluster that decides which version is current, which one has     *)
(* completed, which one is flushed, and, after a node failure, which range *)
(* of versions is dead.  It lives on the node that leads processor 0.      *)
(*                                                                         *)
(* Every method runs under v.lock and is one action.  The exceptions are   *)
(* the places where the code gives the lock up: failureVersionsCompleted   *)
(* (registers the dead range outside the lock) and Shutdown (waits for a   *)
(* flush, then stores it, outside the lock).  A call that returns early    *)
(* without changing anything is not a step.                                *)
(*                                                                         *)
(* nextID, storedFlushedVersion and deadRanges live outside the process:   *)
(* the sequence object of the sequence manager and the master record of    *)
(* the level manager.  They survive a Failover.                            *)
(***************************************************************************)
EXTENDS Integers, FiniteSets, FiniteSetsExt

CONSTANTS
  Node,                 \* nodes of the cluster
  Completer,            \* the (processor, terminal receiver) pairs of the deployed streams
  Command,              \* ids of the commands that deploy and undeploy streams
  RequiredProcessorCount, \* cfg.ProcessorCount (+ 1 for the level manager's)
  LiveCounts,           \* numbers of processors a node can lead
  MaxVersion,           \* bound: last version the sequence hands out
  MaxClusterVersion,    \* bound: last version of the cluster state
  MaxSeqErrors,         \* bound: failed calls of GetNextID
  MaxStoreErrors,       \* bound: StoreLastFlushedVersion calls that return an error
  MaxFailovers,         \* bound: crashes of the process
  SkippedIDs            \* ids of a reserved batch that a crash can throw away

ASSUME ConstantsAssumption ==
  /\ IsFiniteSet(Completer) /\ Completer # {}
  /\ Command \subseteq Nat
  /\ RequiredProcessorCount \in Nat \ {0} /\ LiveCounts \subseteq Nat
  /\ MaxVersion \in Nat /\ MaxClusterVersion \in Nat
  /\ MaxSeqErrors \in Nat /\ MaxStoreErrors \in Nat /\ MaxFailovers \in Nat
  /\ SkippedIDs \subseteq Nat /\ 0 \in SkippedIDs

VARIABLES
  active, activating, shutdown,
  activationRunning,        \* the goroutine in doActivate
  currentVersion, minCompletableVersion, lastCompletedVersion,
  completionCount, currentCommandID, stuckVersion,
  disableFlush, lastVersionToFlush, lastFlushedVersion,
  flushingClusterVersion, flushedEntries, flushTimer,
  shutdownPhase,            \* where the goroutine in Shutdown is
  shutdownFlushVersion, shutdownLfv,
  failureClusterVersion, lastFailureFlushedVersion, versionWaitComplete,
  failureProcessorCount, failureComplete, deadVersionRange,
  registering,              \* the goroutine in failureVersionsCompleted
  nextID, storedFlushedVersion, deadRanges, levelClusterVersion,
  \* history
  reported,                 \* completers counted for currentVersion, with their command
  doomed,                   \* versions doomVersion was called for
  shutdownTarget,           \* what was completed when Shutdown was called
  maxCompleted,             \* highest version any instance has completed
  demoted,                  \* this instance has lost the leadership
  seqErrors, storeErrors, failovers

lifeVars == <<active, activating, shutdown, activationRunning, demoted>>
versionVars == <<currentVersion, nextID, minCompletableVersion,
                 lastCompletedVersion, completionCount, currentCommandID,
                 reported, doomed, maxCompleted, seqErrors>>
flushVars == <<disableFlush, lastVersionToFlush, lastFlushedVersion,
               flushingClusterVersion, flushedEntries, flushTimer,
               storedFlushedVersion, storeErrors>>
shutdownVars == <<shutdownPhase, shutdownFlushVersion, shutdownLfv, shutdownTarget>>
failureVars == <<failureClusterVersion, lastFailureFlushedVersion,
                 versionWaitComplete, failureProcessorCount, failureComplete,
                 deadVersionRange, registering, deadRanges, levelClusterVersion>>
vars == <<lifeVars, versionVars, flushVars, shutdownVars, failureVars,
          stuckVersion, failovers>>

None == [start |-> -1, end |-> -1]
VersionRange(s, e) == [start |-> s, end |-> e]
NotRunning == [range |-> None, cv |-> -1, phase |-> "idle"]
NoEntry == [flushedVersion |-> -1, processorCount |-> 0]

TypeOK ==
  /\ active \in BOOLEAN /\ activating \in BOOLEAN /\ shutdown \in BOOLEAN
  /\ activationRunning \in BOOLEAN /\ demoted \in BOOLEAN
  /\ currentVersion \in Nat /\ nextID \in Nat /\ minCompletableVersion \in Nat
  /\ lastCompletedVersion \in Nat \cup {-1} /\ maxCompleted \in Nat \cup {-1}
  /\ completionCount \in Nat /\ currentCommandID \in {0, -1}
  /\ stuckVersion \in Nat \cup {-1, -2}
  /\ disableFlush \in BOOLEAN /\ flushTimer \in BOOLEAN
  /\ lastVersionToFlush \in Nat \cup {-1} /\ lastFlushedVersion \in Nat \cup {-1}
  /\ storedFlushedVersion \in Nat \cup {-1}
  /\ flushingClusterVersion \in Nat \cup {-1}
  /\ flushedEntries \in [Node -> [flushedVersion : Nat \cup {-1}, processorCount : Nat]]
  /\ shutdownPhase \in {"none", "waiting", "woken", "storing", "stored", "done"}
  /\ shutdownFlushVersion \in Nat \cup {-1} /\ shutdownLfv \in Nat \cup {-1}
  /\ shutdownTarget \in Nat \cup {-1}
  /\ failureClusterVersion \in Nat \cup {-1}
  /\ lastFailureFlushedVersion \in Nat \cup {-1}
  /\ versionWaitComplete \in BOOLEAN /\ failureComplete \in BOOLEAN
  /\ failureProcessorCount \in Nat
  /\ deadVersionRange \in [start : Nat \cup {-1}, end : Nat \cup {-1}]
  /\ registering \in [range : [start : Nat \cup {-1}, end : Nat \cup {-1}],
                      cv : Nat \cup {-1}, phase : {"idle", "sending", "registered"}]
  /\ deadRanges \subseteq [start : Nat \cup {-1}, end : Nat \cup {-1}]
  /\ levelClusterVersion \in Nat
  /\ reported \subseteq (Completer \X Command) /\ doomed \subseteq Nat
  /\ seqErrors \in Nat /\ storeErrors \in Nat /\ failovers \in Nat

(***************************************************************************)
(* NewVersionManager: the fields of a new process.  currentCommandID is    *)
(* not set by the constructor, so it has Go's zero value.                  *)
(***************************************************************************)
NewVersionManager ==
  /\ active = FALSE /\ activating = FALSE /\ shutdown = FALSE
  /\ activationRunning = FALSE /\ demoted = FALSE
  /\ currentVersion = 0 /\ minCompletableVersion = 0 /\ lastCompletedVersion = -1
  /\ completionCount = 0 /\ currentCommandID = 0 /\ stuckVersion = -2
  /\ disableFlush = FALSE /\ lastVersionToFlush = -1 /\ lastFlushedVersion = -1
  /\ flushingClusterVersion = -1 /\ flushedEntries = [n \in Node |-> NoEntry]
  /\ flushTimer = FALSE
  /\ shutdownPhase = "none" /\ shutdownFlushVersion = -1 /\ shutdownLfv = -1
  /\ shutdownTarget = -1
  /\ failureClusterVersion = -1 /\ lastFailureFlushedVersion = -1
  /\ versionWaitComplete = FALSE /\ failureProcessorCount = 0
  /\ failureComplete = FALSE /\ deadVersionRange = None /\ registering = NotRunning
  /\ reported = {}

Init ==
  /\ NewVersionManager
  /\ nextID = 0 /\ storedFlushedVersion = -1 /\ deadRanges = {}
  /\ levelClusterVersion = 0
  /\ doomed = {} /\ maxCompleted = -1
  /\ seqErrors = 0 /\ storeErrors = 0 /\ failovers = 0

-----------------------------------------------------------------------------
(***************************************************************************)
(* setNextCurrentVersion takes the next id of the sequence.  The loops     *)
(* that call it until currentVersion reaches a target see consecutive ids. *)
(***************************************************************************)
Reach(target) ==
  IF currentVersion >= target THEN currentVersion
  ELSE IF nextID > target THEN nextID ELSE target

AdvanceTo(target) ==
  /\ Reach(target) <= MaxVersion
  /\ currentVersion' = Reach(target)
  /\ nextID' = IF currentVersion >= target THEN nextID ELSE Reach(target) + 1
  /\ UNCHANGED seqErrors

\* GetNextID fails after the loop has already moved to `reached`.
AdvanceFails(target) ==
  /\ currentVersion < target
  /\ seqErrors < MaxSeqErrors /\ seqErrors' = seqErrors + 1
  /\ \E reached \in {currentVersion} \cup nextID..(Reach(target) - 1) :
       /\ reached <= MaxVersion
       /\ currentVersion' = reached
       /\ nextID' = IF reached = currentVersion THEN nextID ELSE reached + 1

\* Mutant: versions are counted in the process, not taken from the sequence.
setNextCurrentVersionLocally ==
  currentVersion' = currentVersion + 1 /\ nextID' = currentVersion + 2

setNextCurrentVersion == currentVersion' = nextID /\ nextID' = nextID + 1

checkActive == active /\ ~shutdown

\* The node learns that it leads processor 0: activate() starts the goroutine.
HandleClusterStateLeader ==
  /\ ~activating /\ ~active
  /\ activating' = TRUE /\ activationRunning' = TRUE
  /\ UNCHANGED <<active, shutdown, demoted, versionVars, flushVars,
                 shutdownVars, failureVars, stuckVersion, failovers>>

\* The node learns that it does not lead processor 0.  A goroutine in
\* doActivate is waited for and gives up.
HandleClusterStateNotLeader ==
  /\ \/ active /\ active' = FALSE /\ flushTimer' = FALSE
        /\ UNCHANGED <<activating, activationRunning>>
     \/ ~active /\ activating /\ activating' = FALSE /\ activationRunning' = FALSE
        /\ UNCHANGED <<active, flushTimer>>
  /\ demoted' = TRUE
  /\ UNCHANGED <<shutdown, versionVars, disableFlush, lastVersionToFlush,
                 lastFlushedVersion, flushingClusterVersion, flushedEntries,
                 storedFlushedVersion, storeErrors, shutdownVars, failureVars,
                 stuckVersion, failovers>>

\* The activation goroutine has loaded the last flushed version from the level
\* manager (it retries until it can).  If GetNextID fails it returns, and
\* leaves activating set.
doActivate ==
  /\ activationRunning /\ activationRunning' = FALSE
  /\ lastFlushedVersion' = storedFlushedVersion
  /\ lastVersionToFlush' = storedFlushedVersion
  /\ \/ /\ nextID <= MaxVersion
        /\ setNextCurrentVersion /\ reported' = {}
        /\ active' = TRUE /\ activating' = FALSE
        /\ flushTimer' = TRUE /\ stuckVersion' = -1
        /\ UNCHANGED seqErrors
     \/ /\ seqErrors < MaxSeqErrors /\ seqErrors' = seqErrors + 1
        /\ UNCHANGED <<currentVersion, nextID, reported, active, activating,
                       flushTimer, stuckVersion>>
  /\ UNCHANGED <<shutdown, demoted, minCompletableVersion, lastCompletedVersion,
                 completionCount, currentCommandID, doomed, maxCompleted,
                 disableFlush, flushingClusterVersion, flushedEntries,
                 storedFlushedVersion, storeErrors, shutdownVars, failureVars,
                 failovers>>

-----------------------------------------------------------------------------
(***************************************************************************)
(* Completing and dooming versions.                                        *)
(***************************************************************************)
ForgetReportsOnChange(rep) ==
  reported' = IF currentVersion' = currentVersion THEN rep ELSE {}

\* doomVersion: skip past a version.  If GetNextID fails the count stays.
doomVersion(version) ==
  /\ minCompletableVersion' = version + 1
  /\ doomed' = doomed \cup {version}
  /\ \/ AdvanceTo(version + 1) /\ completionCount' = 0 /\ currentCommandID' = -1
     \/ AdvanceFails(version + 1) /\ UNCHANGED <<completionCount, currentCommandID>>
  /\ ForgetReportsOnChange(reported)
  /\ UNCHANGED <<lastCompletedVersion, maxCompleted>>

\* The last completion starts the goroutine of failureVersionsCompleted, at
\* most one at a time, when it is past the dead range.
startFailureVersionsCompleted(version) ==
  IF deadVersionRange # None /\ version >= deadVersionRange.end /\ registering.phase = "idle"
  THEN registering' = [range |-> deadVersionRange, cv |-> failureClusterVersion,
                       phase |-> "sending"]
  ELSE UNCHANGED registering

\* The completion that makes the count complete moves to the next version.  If
\* GetNextID fails the count is kept and the version stays current.
completeVersion ==
  /\ startFailureVersionsCompleted(currentVersion)
  /\ lastCompletedVersion' = currentVersion
  /\ maxCompleted' = IF currentVersion > maxCompleted THEN currentVersion ELSE maxCompleted
  /\ \/ /\ AdvanceTo(currentVersion + 1)
        /\ completionCount' = 0 /\ currentCommandID' = -1
     \/ /\ AdvanceFails(currentVersion + 1)
        /\ completionCount' = completionCount + 1 /\ UNCHANGED currentCommandID

countCompletion(c, commandID) ==
  /\ IF completionCount + 1 = Cardinality(Completer)
     THEN completeVersion
     ELSE /\ completionCount' = completionCount + 1
          /\ UNCHANGED <<lastCompletedVersion, maxCompleted, currentVersion, nextID,
                         seqErrors, currentCommandID, registering>>
  /\ ForgetReportsOnChange(reported \cup {<<c, commandID>>})
  /\ UNCHANGED <<minCompletableVersion, doomed>>

\* The early returns of VersionComplete.
Completable(version) ==
  /\ checkActive
  /\ version > lastCompletedVersion
  /\ version >= currentVersion
  /\ version >= minCompletableVersion

\* VersionComplete(version, required, commandID, doom = false).
VersionComplete(c, version, commandID) ==
  /\ Completable(version)
  /\ version = currentVersion
  /\ IF currentCommandID # -1 /\ currentCommandID # commandID
     THEN doomVersion(version) /\ UNCHANGED registering
     ELSE countCompletion(c, commandID)
  /\ UNCHANGED <<lifeVars, flushVars, shutdownVars, failureClusterVersion,
                 lastFailureFlushedVersion, versionWaitComplete,
                 failureProcessorCount, failureComplete, deadVersionRange,
                 deadRanges, levelClusterVersion, stuckVersion, failovers>>

\* VersionComplete(version, 0, -1, doom = true).
VersionDoomed(version) ==
  /\ Completable(version)
  /\ doomVersion(version)
  /\ UNCHANGED <<lifeVars, flushVars, shutdownVars, failureVars, stuckVersion, failovers>>

\* The stuck version timer.  It is not stopped when the node is demoted or the
\* version manager shut down.
checkStuckVersion ==
  /\ stuckVersion # -2
  /\ IF currentVersion = stuckVersion
     THEN doomVersion(currentVersion)
     ELSE UNCHANGED versionVars
  /\ stuckVersion' = currentVersion'
  /\ UNCHANGED <<lifeVars, flushVars, shutdownVars, failureVars, failovers>>

-----------------------------------------------------------------------------
(***************************************************************************)
(* Flushing versions.                                                      *)
(***************************************************************************)

LiveProcessorCount(entries) ==
  MapThenSumSet(LAMBDA m : entries[m].processorCount, DOMAIN entries)

\* VersionFlushed from node n: all its memtables up to version are pushed.  When
\* the nodes that have called in at this cluster version hold all processors,
\* the lowest of their versions is flushed.
VersionFlushed(n, version, liveProcessorCount, clusterVersion) ==
  LET kept == IF clusterVersion > flushingClusterVersion
              THEN [m \in Node |-> NoEntry] ELSE flushedEntries
      entries == [kept EXCEPT ![n] = [flushedVersion |-> version,
                                      processorCount |-> liveProcessorCount]]
      called == {m \in Node : entries[m] # NoEntry}
  IN
  /\ checkActive /\ ~disableFlush
  /\ version > lastVersionToFlush
  /\ clusterVersion >= flushingClusterVersion
  /\ flushingClusterVersion' = clusterVersion
  /\ flushedEntries' = entries
  /\ \E least \in {entries[m].flushedVersion : m \in called} :
       /\ \A m \in called : least <= entries[m].flushedVersion
       /\ IF LiveProcessorCount(entries) = RequiredProcessorCount /\ least > lastVersionToFlush
          THEN /\ lastVersionToFlush' = least
               /\ IF shutdownPhase = "waiting" /\ least >= shutdownFlushVersion
                  THEN /\ shutdownPhase' = "woken" /\ shutdownFlushVersion' = -1
                       /\ disableFlush' = TRUE
                  ELSE UNCHANGED <<shutdownPhase, shutdownFlushVersion, disableFlush>>
          ELSE UNCHANGED <<lastVersionToFlush, shutdownPhase, shutdownFlushVersion,
                           disableFlush>>
  /\ UNCHANGED <<lifeVars, versionVars, lastFlushedVersion, flushTimer,
                 storedFlushedVersion, storeErrors, shutdownLfv, shutdownTarget,
                 failureVars, stuckVersion, failovers>>

\* The flushed version timer.  A call that returns an error may still have
\* reached the level manager.
storeLastFlushedVersion ==
  /\ flushTimer
  /\ lastVersionToFlush # -1 /\ lastVersionToFlush # lastFlushedVersion
  /\ storedFlushedVersion' = lastVersionToFlush
  /\ \/ lastFlushedVersion' = lastVersionToFlush /\ UNCHANGED storeErrors
     \/ /\ storeErrors < MaxStoreErrors /\ storeErrors' = storeErrors + 1
        /\ UNCHANGED lastFlushedVersion
  /\ UNCHANGED <<lifeVars, versionVars, disableFlush, lastVersionToFlush,
                 flushingClusterVersion, flushedEntries, flushTimer,
                 shutdownVars, failureVars, stuckVersion, failovers>>

-----------------------------------------------------------------------------
(***************************************************************************)
(* Shutdown.                                                               *)
(***************************************************************************)
\* Mutant: waits only when nothing has been flushed at all.
MustWaitForFirstFlush == lastVersionToFlush = -1

MustWaitForFlush == lastVersionToFlush < lastCompletedVersion

ShutdownStart ==
  /\ checkActive /\ shutdownPhase = "none"
  /\ shutdownTarget' = lastCompletedVersion
  /\ IF MustWaitForFlush
     THEN /\ shutdownPhase' = "waiting"
          /\ shutdownFlushVersion' = lastCompletedVersion
          /\ flushTimer' = FALSE
     ELSE shutdownPhase' = "woken" /\ UNCHANGED <<shutdownFlushVersion, flushTimer>>
  /\ UNCHANGED <<lifeVars, versionVars, disableFlush, lastVersionToFlush,
                 lastFlushedVersion, flushingClusterVersion, flushedEntries,
                 storedFlushedVersion, storeErrors, shutdownLfv, failureVars,
                 stuckVersion, failovers>>

\* Back under the lock: what is flushed is read, and the code panics when that
\* is nothing.
ShutdownRead ==
  /\ shutdownPhase = "woken" /\ lastVersionToFlush # -1
  /\ shutdownPhase' = "storing" /\ shutdownLfv' = lastVersionToFlush
  /\ UNCHANGED <<lifeVars, versionVars, flushVars, shutdownFlushVersion,
                 shutdownTarget, failureVars, stuckVersion, failovers>>

\* Outside the lock: retried until the level manager has stored it.
ShutdownStore ==
  /\ shutdownPhase = "storing" /\ shutdownPhase' = "stored"
  /\ storedFlushedVersion' = shutdownLfv
  /\ UNCHANGED <<lifeVars, versionVars, disableFlush, lastVersionToFlush,
                 lastFlushedVersion, flushingClusterVersion, flushedEntries,
                 flushTimer, storeErrors, shutdownFlushVersion, shutdownLfv,
                 shutdownTarget, failureVars, stuckVersion, failovers>>

ShutdownFinish ==
  /\ shutdownPhase = "stored" /\ shutdownPhase' = "done"
  /\ lastFlushedVersion' = shutdownLfv
  /\ active' = FALSE /\ shutdown' = TRUE /\ flushTimer' = FALSE
  /\ UNCHANGED <<activating, activationRunning, demoted, versionVars, disableFlush,
                 lastVersionToFlush, flushingClusterVersion, flushedEntries,
                 storedFlushedVersion, storeErrors, shutdownFlushVersion,
                 shutdownLfv, shutdownTarget, failureVars, stuckVersion, failovers>>

-----------------------------------------------------------------------------
(***************************************************************************)
(* Failure of a node.                                                      *)
(***************************************************************************)
CountAfter(liveProcessorCount, clusterVersion) ==
  liveProcessorCount +
    (IF failureClusterVersion # -1 /\ clusterVersion > failureClusterVersion
     THEN 0 ELSE failureProcessorCount)

\* Mutant: flushing goes on while the dead range is pending.
fixDeadVersionRangeStillFlushing ==
  /\ deadVersionRange' = VersionRange(lastFlushedVersion + 1, currentVersion + 2)
  /\ AdvanceTo(currentVersion + 2)
  /\ completionCount' = 0
  /\ UNCHANGED <<disableFlush, lastVersionToFlush>>

\* Mutant: the completions of the skipped version still count.
fixDeadVersionRangeKeepsCount ==
  /\ deadVersionRange' = VersionRange(lastFlushedVersion + 1, currentVersion + 2)
  /\ AdvanceTo(currentVersion + 2)
  /\ disableFlush' = TRUE /\ lastVersionToFlush' = -1
  /\ UNCHANGED completionCount

\* All processors have called in: the versions after the last flushed one up to
\* currentVersion + 2 are dead, and currentVersion moves to the end of them.  If
\* GetNextID fails the range is kept but flushing goes on.
fixDeadVersionRange ==
  /\ deadVersionRange' = VersionRange(lastFlushedVersion + 1, currentVersion + 2)
  /\ \/ /\ AdvanceTo(currentVersion + 2)
        /\ completionCount' = 0
        /\ disableFlush' = TRUE /\ lastVersionToFlush' = -1
     \/ /\ AdvanceFails(currentVersion + 2)
        /\ UNCHANGED <<completionCount, disableFlush, lastVersionToFlush>>

\* FailureDetected from a node that leads liveProcessorCount processors.  At a
\* lower cluster version it is rejected (FailureCancelled).
FailureDetected(liveProcessorCount, clusterVersion) ==
  /\ checkActive
  /\ clusterVersion >= failureClusterVersion
  /\ failureClusterVersion' = clusterVersion
  /\ failureProcessorCount' = CountAfter(liveProcessorCount, clusterVersion)
  /\ IF failureProcessorCount' = RequiredProcessorCount
     THEN fixDeadVersionRange
     ELSE UNCHANGED <<deadVersionRange, currentVersion, nextID, seqErrors,
                      completionCount, disableFlush, lastVersionToFlush>>
  /\ ForgetReportsOnChange(reported)
  /\ UNCHANGED <<lifeVars, minCompletableVersion, lastCompletedVersion,
                 currentCommandID, doomed, maxCompleted, lastFlushedVersion,
                 flushingClusterVersion, flushedEntries, flushTimer,
                 storedFlushedVersion, storeErrors, shutdownVars,
                 lastFailureFlushedVersion, versionWaitComplete, failureComplete,
                 registering, deadRanges, levelClusterVersion, stuckVersion, failovers>>

\* Outside the lock: the level manager takes the range.  It ignores a range it
\* has, and asks for a retry when it knows a higher cluster version.
RegisterDeadVersionRange ==
  /\ registering.phase = "sending"
  /\ registering.cv >= levelClusterVersion
  /\ registering' = [registering EXCEPT !.phase = "registered"]
  /\ deadRanges' = deadRanges \cup {registering.range}
  /\ levelClusterVersion' = IF registering.range \in deadRanges
                            THEN levelClusterVersion ELSE registering.cv
  /\ UNCHANGED <<lifeVars, versionVars, flushVars, shutdownVars,
                 failureClusterVersion, lastFailureFlushedVersion,
                 versionWaitComplete, failureProcessorCount, failureComplete,
                 deadVersionRange, stuckVersion, failovers>>

\* Mutant: off by one.
rollbackVersionOffByOne == deadVersionRange.start

rollbackVersion == deadVersionRange.start - 1

\* Back under the lock: given up if a failure at a higher version came in.
failureVersionsCompleted ==
  /\ registering.phase = "registered" /\ registering' = NotRunning
  /\ IF failureClusterVersion > registering.cv
     THEN UNCHANGED <<lastFailureFlushedVersion, versionWaitComplete,
                      failureProcessorCount, deadVersionRange, disableFlush>>
     ELSE /\ lastFailureFlushedVersion' = rollbackVersion
          /\ versionWaitComplete' = TRUE
          /\ failureProcessorCount' = 0
          /\ deadVersionRange' = None
          /\ disableFlush' = FALSE
  /\ UNCHANGED <<lifeVars, versionVars, lastVersionToFlush, lastFlushedVersion,
                 flushingClusterVersion, flushedEntries, flushTimer,
                 storedFlushedVersion, storeErrors, shutdownVars,
                 failureClusterVersion, failureComplete, deadRanges,
                 levelClusterVersion, stuckVersion, failovers>>

\* What GetLastFailureFlushedVersion answers; -2 stands for "not yet".
LastFailureFlushedVersionReply ==
  IF versionWaitComplete THEN lastFailureFlushedVersion ELSE -2

\* FailureComplete from a node that has cleared its store.
FailureComplete(liveProcessorCount, clusterVersion) ==
  /\ checkActive
  /\ clusterVersion = failureClusterVersion /\ versionWaitComplete
  /\ failureProcessorCount' = failureProcessorCount + liveProcessorCount
  /\ failureComplete' = (failureComplete \/ failureProcessorCount' = RequiredProcessorCount)
  /\ UNCHANGED <<lifeVars, versionVars, flushVars, shutdownVars,
                 failureClusterVersion, lastFailureFlushedVersion,
                 versionWaitComplete, deadVersionRange, registering, deadRanges,
                 levelClusterVersion, stuckVersion, failovers>>

\* The node crashes, or is stopped, and another one creates the version
\* manager.  Ids the old process had reserved are lost with it.
Failover ==
  /\ failovers < MaxFailovers /\ failovers' = failovers + 1
  /\ active' = FALSE /\ activating' = FALSE /\ shutdown' = FALSE
  /\ activationRunning' = FALSE /\ demoted' = FALSE
  /\ currentVersion' = 0 /\ minCompletableVersion' = 0 /\ lastCompletedVersion' = -1
  /\ completionCount' = 0 /\ currentCommandID' = 0 /\ stuckVersion' = -2
  /\ disableFlush' = FALSE /\ lastVersionToFlush' = -1 /\ lastFlushedVersion' = -1
  /\ flushingClusterVersion' = -1 /\ flushedEntries' = [n \in Node |-> NoEntry]
  /\ flushTimer' = FALSE
  /\ shutdownPhase' = "none" /\ shutdownFlushVersion' = -1 /\ shutdownLfv' = -1
  /\ shutdownTarget' = -1
  /\ failureClusterVersion' = -1 /\ lastFailureFlushedVersion' = -1
  /\ versionWaitComplete' = FALSE /\ failureProcessorCount' = 0
  /\ failureComplete' = FALSE /\ deadVersionRange' = None /\ registering' = NotRunning
  /\ reported' = {}
  /\ \E skipped \in SkippedIDs : nextID' = nextID + skipped
  /\ UNCHANGED <<storedFlushedVersion, deadRanges, levelClusterVersion, doomed,
                 maxCompleted, seqErrors, storeErrors>>

-----------------------------------------------------------------------------
(***************************************************************************)
(* The calls the rest of the cluster makes.  A completer reports a version *)
(* once; a version is doomed by a node that has seen at most the current   *)
(* one (AfterReceiverChange dooms its version + 1); a node flushes a       *)
(* version it has seen completed; a demoted process is not promoted again, *)
(* because the cluster manager takes the leadership only from nodes that   *)
(* have left the cluster, and no cluster state arrives after Shutdown,     *)
(* because it is frozen by then.                                           *)
(***************************************************************************)
Next ==
  \/ ~demoted /\ ~shutdown /\ HandleClusterStateLeader
  \/ HandleClusterStateNotLeader
  \/ doActivate
  \/ \E c \in Completer, commandID \in Command :
       /\ \A r \in reported : r[1] # c
       /\ VersionComplete(c, currentVersion, commandID)
  \/ \E version \in {currentVersion, currentVersion + 1} : VersionDoomed(version)
  \/ checkStuckVersion
  \/ \E n \in Node, version \in 0..maxCompleted, count \in LiveCounts,
        clusterVersion \in 0..MaxClusterVersion :
       VersionFlushed(n, version, count, clusterVersion)
  \/ storeLastFlushedVersion
  \/ ShutdownStart \/ ShutdownRead \/ ShutdownStore \/ ShutdownFinish
  \/ \E count \in LiveCounts, clusterVersion \in 1..MaxClusterVersion :
       failureProcessorCount <= RequiredProcessorCount /\
       \/ FailureDetected(count, clusterVersion)
       \/ FailureComplete(count, clusterVersion)
  \/ RegisterDeadVersionRange
  \/ failureVersionsCompleted
  \/ Failover

Spec == Init /\ [][Next]_vars

-----------------------------------------------------------------------------
(***************************************************************************)
(* Properties.                                                             *)
(***************************************************************************)
Completes == lastCompletedVersion' # lastCompletedVersion /\ lastCompletedVersion' # -1

\* A version completes at most once in the life of the cluster, and versions
\* complete in increasing order, across crashes of the version manager and lost
\* sequence ids (VersionComplete, doActivate).
CompletesInOrder == [][Completes => lastCompletedVersion' > maxCompleted]_vars

\* A version completes only when every completer has reported that version: a
\* count left over from a version that was skipped (doomVersion,
\* FailureDetected) never counts for the next one.
CompletesWhenAllReported ==
  [][Completes /\ seqErrors = 0 =>
       Cardinality({r[1] : r \in reported}) = Cardinality(Completer) - 1]_vars

DoomedCompletes == Completes /\ lastCompletedVersion' \in doomed

\* A version that doomVersion was called for does not complete afterwards, as
\* long as no call of GetNextID has failed.
DoomedCompletesOnlyAfterSequenceError == [][DoomedCompletes => seqErrors > 0]_vars

\* The sanity check of doActivate never panics: the sequence is ahead of
\* whatever any earlier process has flushed.
ActivatesPastFlushed ==
  [][~active /\ active' => currentVersion' > lastFlushedVersion']_vars

\* While a dead range is pending, the current version is at its end or past it
\* and the flushed version stays just before it, so that no version inside it
\* completes or is flushed (FailureDetected, VersionFlushed,
\* storeLastFlushedVersion).
PendingDeadRangeIsSealed ==
  deadVersionRange # None /\ seqErrors = 0 =>
    /\ currentVersion >= deadVersionRange.end
    /\ disableFlush /\ lastVersionToFlush = -1
    /\ (shutdownPhase # "done" => lastFlushedVersion = deadVersionRange.start - 1)

\* The version the nodes are told to roll back to is the one just before a
\* range the level manager has been given as dead (failureVersionsCompleted).
RollbackIsRegistered ==
  versionWaitComplete /\ seqErrors = 0 =>
    \E r \in deadRanges : r.start = lastFailureFlushedVersion + 1

\* "Shutdown waits for the version to be flushed, then it makes sure the
\* flushedVersion has been written to the level manager" (vmgr.go:259), when no
\* failure comes in.
ShutdownStoresSnapshot ==
  shutdownPhase = "done" /\ failureClusterVersion = -1 =>
    storedFlushedVersion >= shutdownTarget

=============================================================================
