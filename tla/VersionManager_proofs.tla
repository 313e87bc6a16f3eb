------------------------ MODULE VersionManager_proofs ------------------------
(***************************************************************************)
(* Proofs about VersionManager, for all values of its constants.           *)
(***************************************************************************)
EXTENDS VersionManager, TLAPS

USE DEF None, VersionRange, NotRunning, NoEntry

\* What setNextCurrentVersion and the loops around it do to the two counters,
\* whether or not GetNextID fails.
LEMMA AdvanceType ==
  ASSUME currentVersion \in Nat, nextID \in Nat, seqErrors \in Nat, NEW target \in Nat,
         AdvanceTo(target) \/ AdvanceFails(target)
  PROVE  /\ currentVersion' \in Nat /\ nextID' \in Nat /\ seqErrors' \in Nat
         /\ nextID' >= nextID /\ seqErrors' >= seqErrors
<1>1. CASE AdvanceTo(target)
  BY <1>1 DEF AdvanceTo, Reach
<1>2. CASE AdvanceFails(target)
  BY <1>2 DEF AdvanceFails, Reach
<1> QED BY <1>1, <1>2

\* Dooming a version keeps the types of what it writes.
LEMMA DoomType ==
  ASSUME TypeOK, NEW version \in Nat, doomVersion(version)
  PROVE  /\ currentVersion' \in Nat /\ nextID' \in Nat /\ seqErrors' \in Nat
         /\ minCompletableVersion' \in Nat /\ doomed' \subseteq Nat
         /\ completionCount' \in Nat /\ currentCommandID' \in {0, -1}
         /\ reported' \subseteq (Completer \X Command)
         /\ lastCompletedVersion' \in Nat \cup {-1} /\ maxCompleted' \in Nat \cup {-1}
<1>1. AdvanceTo(version + 1) \/ AdvanceFails(version + 1)
  BY DEF doomVersion
<1>2. currentVersion' \in Nat /\ nextID' \in Nat /\ seqErrors' \in Nat
  BY <1>1, AdvanceType DEF TypeOK
<1> QED BY <1>2 DEF doomVersion, ForgetReportsOnChange, TypeOK

\* Counting a completion keeps the types of what it writes.
LEMMA CountType ==
  ASSUME TypeOK, NEW c \in Completer, NEW commandID \in Command, countCompletion(c, commandID)
  PROVE  /\ currentVersion' \in Nat /\ nextID' \in Nat /\ seqErrors' \in Nat
         /\ lastCompletedVersion' \in Nat \cup {-1} /\ maxCompleted' \in Nat \cup {-1}
         /\ completionCount' \in Nat /\ currentCommandID' \in {0, -1}
         /\ minCompletableVersion' \in Nat /\ doomed' \subseteq Nat
         /\ reported' \subseteq (Completer \X Command)
         /\ registering' \in [range : [start : Nat \cup {-1}, end : Nat \cup {-1}],
                               cv : Nat \cup {-1}, phase : {"idle", "sending", "registered"}]
<1> USE DEF TypeOK
<1>1. CASE completionCount + 1 = Cardinality(Completer)
  <2>1. completeVersion
    BY <1>1 DEF countCompletion
  <2>2. currentVersion' \in Nat /\ nextID' \in Nat /\ seqErrors' \in Nat
    BY <2>1, AdvanceType DEF completeVersion
  <2>3. registering' \in [range : [start : Nat \cup {-1}, end : Nat \cup {-1}],
                         cv : Nat \cup {-1}, phase : {"idle", "sending", "registered"}]
    BY <2>1 DEF completeVersion, startFailureVersionsCompleted
  <2>4. completionCount' \in Nat /\ currentCommandID' \in {0, -1}
    BY <2>1 DEF completeVersion
  <2> QED
    BY <2>1, <2>2, <2>3, <2>4 DEF countCompletion, completeVersion,
         ForgetReportsOnChange
<1>2. CASE completionCount + 1 # Cardinality(Completer)
  BY <1>2 DEF countCompletion, ForgetReportsOnChange
<1> QED BY <1>1, <1>2

\* failureVersionsCompleted runs only while a dead range is pending, so that the
\* version before its start is a version or -1.
RegisteringHasRange ==
  /\ deadVersionRange # None => deadVersionRange.start \in Nat
  /\ registering.phase # "idle" => deadVersionRange # None

TypeInv == TypeOK /\ RegisteringHasRange

\* The flags of TypeOK, apart for the prover's sake.
Flags ==
  /\ active \in BOOLEAN /\ activating \in BOOLEAN /\ shutdown \in BOOLEAN
  /\ activationRunning \in BOOLEAN /\ demoted \in BOOLEAN
  /\ disableFlush \in BOOLEAN /\ flushTimer \in BOOLEAN
  /\ versionWaitComplete \in BOOLEAN /\ failureComplete \in BOOLEAN

LEMMA TypeNext == TypeInv /\ [Next]_vars => TypeInv'
<1> SUFFICES ASSUME TypeInv, [Next]_vars PROVE TypeInv'
  OBVIOUS
<1> USE DEF TypeInv, lifeVars, versionVars, flushVars, shutdownVars, failureVars
<1>1. CASE HandleClusterStateLeader
  BY <1>1 DEF HandleClusterStateLeader, TypeOK, RegisteringHasRange
<1>2. CASE HandleClusterStateNotLeader
  <2>1. Flags'
    BY <1>2, Zenon DEF HandleClusterStateNotLeader, TypeOK, Flags
  <2>2. UNCHANGED <<versionVars, lastVersionToFlush, lastFlushedVersion,
                    flushingClusterVersion, flushedEntries, storedFlushedVersion,
                    storeErrors, shutdownVars, failureVars, stuckVersion, failovers>>
    BY <1>2, Zenon DEF HandleClusterStateNotLeader
  <2> QED BY <2>1, <2>2 DEF TypeOK, RegisteringHasRange, Flags
<1>3. CASE doActivate
  <2>1. Flags'
    BY <1>3, Zenon DEF doActivate, TypeOK, Flags
  <2>2. /\ lastFlushedVersion' = storedFlushedVersion
        /\ lastVersionToFlush' = storedFlushedVersion
        /\ \/ setNextCurrentVersion /\ reported' = {} /\ stuckVersion' = -1 /\ UNCHANGED seqErrors
           \/ /\ seqErrors' = seqErrors + 1
              /\ UNCHANGED <<currentVersion, nextID, reported, stuckVersion>>
        /\ UNCHANGED <<minCompletableVersion, lastCompletedVersion, completionCount,
                       currentCommandID, doomed, maxCompleted, flushingClusterVersion,
                       flushedEntries, storedFlushedVersion, storeErrors, shutdownVars,
                       failureVars, failovers>>
    BY <1>3, Zenon DEF doActivate
  <2> QED BY <2>1, <2>2 DEF setNextCurrentVersion, TypeOK, RegisteringHasRange, Flags
<1>4. ASSUME NEW c \in Completer, NEW commandID \in Command,
             VersionComplete(c, currentVersion, commandID)
      PROVE  TypeInv'
  <2>1. CASE doomVersion(currentVersion) /\ UNCHANGED registering
    <3>1. currentVersion \in Nat
      BY DEF TypeOK
    <3> QED BY <1>4, <2>1, <3>1, DoomType DEF VersionComplete, TypeOK, RegisteringHasRange
  <2>2. CASE countCompletion(c, commandID)
    <3>1. RegisteringHasRange'
      BY <1>4, <2>2 DEF VersionComplete, countCompletion, completeVersion,
           startFailureVersionsCompleted, TypeOK, RegisteringHasRange
    <3> QED BY <1>4, <2>2, <3>1, CountType DEF VersionComplete, TypeOK
  <2> QED BY <1>4, <2>1, <2>2 DEF VersionComplete
<1>5. ASSUME NEW version \in {currentVersion, currentVersion + 1}, VersionDoomed(version)
      PROVE  TypeInv'
  <2>1. version \in Nat
    BY DEF TypeOK
  <2> QED BY <1>5, <2>1, DoomType DEF VersionDoomed, TypeOK, RegisteringHasRange
<1>6. CASE checkStuckVersion
  <2>1. currentVersion \in Nat
    BY DEF TypeOK
  <2>2. CASE doomVersion(currentVersion)
    BY <1>6, <2>1, <2>2, DoomType DEF checkStuckVersion, TypeOK, RegisteringHasRange
  <2>3. CASE UNCHANGED versionVars
    BY <1>6, <2>1, <2>3, SMTT(30) DEF checkStuckVersion, TypeOK, RegisteringHasRange
  <2> QED BY <1>6, <2>2, <2>3 DEF checkStuckVersion
<1>7. ASSUME NEW n \in Node, NEW version \in 0..maxCompleted, NEW count \in LiveCounts,
             NEW clusterVersion \in 0..MaxClusterVersion,
             VersionFlushed(n, version, count, clusterVersion)
      PROVE  TypeInv'
  <2>1. version \in Nat /\ count \in Nat /\ clusterVersion \in Nat
    BY ConstantsAssumption, SMTT(30) DEF TypeOK
  <2>2. flushedEntries' \in [Node -> [flushedVersion : Nat \cup {-1}, processorCount : Nat]]
    BY <1>7, <2>1, SMTT(30) DEF VersionFlushed, TypeOK
  <2>3. PICK least \in {flushedEntries'[m].flushedVersion : m \in Node} :
          lastVersionToFlush' \in {least, lastVersionToFlush}
    BY <1>7, <2>1, SMTT(30) DEF VersionFlushed
  <2>4. lastVersionToFlush' \in Nat \cup {-1}
    BY <2>2, <2>3 DEF TypeOK
  <2>5. /\ shutdownPhase' \in {"none", "waiting", "woken", "storing", "stored", "done"}
        /\ shutdownFlushVersion' \in Nat \cup {-1} /\ disableFlush' \in BOOLEAN
        /\ flushingClusterVersion' \in Nat \cup {-1}
    BY <1>7, <2>1, Zenon DEF VersionFlushed, TypeOK
  <2> QED BY <1>7, <2>2, <2>4, <2>5 DEF VersionFlushed, TypeOK, RegisteringHasRange
<1>8. CASE storeLastFlushedVersion
  BY <1>8 DEF storeLastFlushedVersion, TypeOK, RegisteringHasRange
<1>9. CASE ShutdownStart
  <2>1. Flags'
    BY <1>9, Zenon DEF ShutdownStart, TypeOK, Flags
  <2>2. /\ shutdownTarget' = lastCompletedVersion
        /\ \/ shutdownPhase' = "waiting" /\ shutdownFlushVersion' = lastCompletedVersion
           \/ shutdownPhase' = "woken" /\ UNCHANGED shutdownFlushVersion
        /\ UNCHANGED <<versionVars, lastVersionToFlush, lastFlushedVersion,
                       flushingClusterVersion, flushedEntries, storedFlushedVersion,
                       storeErrors, shutdownLfv, failureVars, stuckVersion, failovers>>
    BY <1>9, Zenon DEF ShutdownStart
  <2> QED BY <2>1, <2>2 DEF TypeOK, RegisteringHasRange, Flags
<1>16. CASE ShutdownRead
  BY <1>16 DEF ShutdownRead, TypeOK, RegisteringHasRange
<1>18. CASE ShutdownStore
  BY <1>18 DEF ShutdownStore, TypeOK, RegisteringHasRange
<1>17. CASE ShutdownFinish
  <2>1. Flags'
    BY <1>17, Zenon DEF ShutdownFinish, TypeOK, Flags
  <2>2. /\ shutdownPhase' = "done" /\ lastFlushedVersion' = shutdownLfv
        /\ UNCHANGED <<versionVars, lastVersionToFlush, flushingClusterVersion,
                       flushedEntries, storedFlushedVersion, storeErrors,
                       shutdownFlushVersion, shutdownLfv, shutdownTarget, failureVars,
                       stuckVersion, failovers>>
    BY <1>17, Zenon DEF ShutdownFinish
  <2> QED BY <2>1, <2>2 DEF TypeOK, RegisteringHasRange, Flags
<1>10. ASSUME NEW count \in LiveCounts, NEW clusterVersion \in 1..MaxClusterVersion,
              FailureDetected(count, clusterVersion)
       PROVE  TypeInv'
  <2>1. count \in Nat /\ clusterVersion \in Nat
    BY ConstantsAssumption
  <2>2. failureProcessorCount' \in Nat /\ failureClusterVersion' \in Nat
    BY <1>10, <2>1 DEF FailureDetected, CountAfter, TypeOK
  <2>3. reported' \subseteq (Completer \X Command)
    BY <1>10 DEF FailureDetected, ForgetReportsOnChange, TypeOK
  <2>4. CASE fixDeadVersionRange
    <3>1. currentVersion' \in Nat /\ nextID' \in Nat /\ seqErrors' \in Nat
      BY <2>4, AdvanceType DEF fixDeadVersionRange, TypeOK
    <3>2. /\ deadVersionRange' \in [start : Nat \cup {-1}, end : Nat \cup {-1}]
          /\ deadVersionRange'.start \in Nat /\ deadVersionRange' # None
      BY <2>4 DEF fixDeadVersionRange, TypeOK
    <3>3. completionCount' \in Nat /\ lastVersionToFlush' \in Nat \cup {-1}
      BY <2>4 DEF fixDeadVersionRange, TypeOK
    <3>4. disableFlush' \in BOOLEAN
      BY <2>4, Zenon DEF fixDeadVersionRange, TypeOK
    <3> QED BY <1>10, <2>2, <2>3, <3>1, <3>2, <3>3, <3>4
           DEF FailureDetected, TypeOK, RegisteringHasRange
  <2>5. CASE UNCHANGED <<deadVersionRange, currentVersion, nextID, seqErrors,
                         completionCount, disableFlush, lastVersionToFlush>>
    BY <1>10, <2>2, <2>3, <2>5 DEF FailureDetected, TypeOK, RegisteringHasRange
  <2> QED BY <1>10, <2>4, <2>5 DEF FailureDetected
<1>11. ASSUME NEW count \in LiveCounts, NEW clusterVersion \in 1..MaxClusterVersion,
              FailureComplete(count, clusterVersion)
       PROVE  TypeInv'
  <2>1. count \in Nat
    BY ConstantsAssumption
  <2> QED BY <1>11, <2>1 DEF FailureComplete, TypeOK, RegisteringHasRange
<1>12. CASE RegisterDeadVersionRange
  <2>1. levelClusterVersion' \in Nat
    BY <1>12 DEF RegisterDeadVersionRange, TypeOK
  <2> QED BY <1>12, <2>1 DEF RegisterDeadVersionRange, TypeOK, RegisteringHasRange
<1>13. CASE failureVersionsCompleted
  <2>1. Flags'
    BY <1>13, Zenon DEF failureVersionsCompleted, TypeOK, Flags
  <2>2. /\ registering.phase = "registered" /\ registering' = NotRunning
        /\ \/ UNCHANGED <<lastFailureFlushedVersion, failureProcessorCount, deadVersionRange>>
           \/ /\ lastFailureFlushedVersion' = deadVersionRange.start - 1
              /\ failureProcessorCount' = 0 /\ deadVersionRange' = None
        /\ UNCHANGED <<versionVars, lastVersionToFlush, lastFlushedVersion,
                       flushingClusterVersion, flushedEntries, storedFlushedVersion,
                       storeErrors, shutdownVars, failureClusterVersion, deadRanges,
                       levelClusterVersion, stuckVersion, failovers>>
    BY <1>13, Zenon DEF failureVersionsCompleted, rollbackVersion
  <2> QED BY <2>1, <2>2 DEF TypeOK, RegisteringHasRange, Flags
<1>14. CASE Failover
  <2>1. nextID' \in Nat
    BY <1>14, ConstantsAssumption DEF Failover, TypeOK
  <2>2. Flags'
    BY <1>14, Zenon DEF Failover, Flags
  <2>3. /\ currentVersion' = 0 /\ minCompletableVersion' = 0 /\ lastCompletedVersion' = -1
        /\ completionCount' = 0 /\ currentCommandID' = 0 /\ stuckVersion' = -2
        /\ lastVersionToFlush' = -1 /\ lastFlushedVersion' = -1
        /\ flushingClusterVersion' = -1 /\ flushedEntries' = [n \in Node |-> NoEntry]
        /\ shutdownPhase' = "none" /\ shutdownFlushVersion' = -1 /\ shutdownLfv' = -1
        /\ shutdownTarget' = -1 /\ failureClusterVersion' = -1
        /\ lastFailureFlushedVersion' = -1 /\ failureProcessorCount' = 0
        /\ deadVersionRange' = None /\ registering' = NotRunning /\ reported' = {}
        /\ failovers' = failovers + 1
        /\ UNCHANGED <<storedFlushedVersion, deadRanges, levelClusterVersion, doomed,
                       maxCompleted, seqErrors, storeErrors>>
    BY <1>14, Zenon DEF Failover
  <2> QED BY <2>1, <2>2, <2>3, SMTT(30) DEF TypeOK, RegisteringHasRange, Flags
<1>15. CASE UNCHANGED vars
  BY <1>15 DEF vars, TypeOK, RegisteringHasRange
<1> QED BY <1>1, <1>2, <1>3, <1>4, <1>5, <1>6, <1>7, <1>8, <1>9, <1>10, <1>11, <1>12,
       <1>13, <1>14, <1>15, <1>16, <1>17,
       <1>18 DEF Next

\* The initial state has the types.
LEMMA InitTypeInv == Init => TypeInv
<1> SUFFICES ASSUME Init PROVE TypeInv
  OBVIOUS
<1>1. Flags
  BY Zenon DEF Init, NewVersionManager, Flags
<1>2. /\ currentVersion = 0 /\ minCompletableVersion = 0 /\ lastCompletedVersion = -1
      /\ completionCount = 0 /\ currentCommandID = 0 /\ stuckVersion = -2
      /\ lastVersionToFlush = -1 /\ lastFlushedVersion = -1
      /\ flushingClusterVersion = -1 /\ flushedEntries = [n \in Node |-> NoEntry]
      /\ shutdownPhase = "none" /\ shutdownFlushVersion = -1 /\ shutdownLfv = -1
      /\ shutdownTarget = -1 /\ failureClusterVersion = -1
      /\ lastFailureFlushedVersion = -1 /\ failureProcessorCount = 0
      /\ deadVersionRange = None /\ registering = NotRunning /\ reported = {}
      /\ nextID = 0 /\ storedFlushedVersion = -1 /\ deadRanges = {}
      /\ levelClusterVersion = 0 /\ doomed = {} /\ maxCompleted = -1
      /\ seqErrors = 0 /\ storeErrors = 0 /\ failovers = 0
  BY Zenon DEF Init, NewVersionManager
<1> QED BY <1>1, <1>2 DEF TypeInv, TypeOK, RegisteringHasRange, Flags

\* Type correctness of the version manager: every field keeps its type, and
\* the rolled back version computed by failureVersionsCompleted is never below -1.
THEOREM TypeCorrect == Spec => []TypeOK
<1>1. TypeInv => TypeOK
  BY DEF TypeInv
<1> QED BY <1>1, InitTypeInv, TypeNext, PTL DEF Spec
-----------------------------------------------------------------------------
(***************************************************************************)
(* The inductive invariant.                                                *)
(***************************************************************************)

\* Which combinations of the lifecycle flags occur, and that a process which has
\* not been activated yet has nothing of the other machinery running.
Lifecycle ==
  /\ activationRunning => ~active /\ ~demoted /\ ~shutdown
  /\ shutdown => ~active
  /\ shutdownPhase = "done" => shutdown
  /\ ~active /\ ~demoted /\ ~shutdown =>
       /\ deadVersionRange = None /\ registering = NotRunning
       /\ shutdownPhase = "none"

\* The sequence is ahead of the current version and of everything completed, and
\* nothing is flushed that has not been completed.
Ordered ==
  /\ maxCompleted < nextID
  /\ lastCompletedVersion <= maxCompleted
  /\ active => /\ currentVersion < nextID
               /\ currentVersion > maxCompleted \/ lastCompletedVersion = currentVersion
  /\ lastVersionToFlush <= maxCompleted /\ storedFlushedVersion <= maxCompleted
  /\ shutdownLfv <= maxCompleted
  /\ \A n \in Node : flushedEntries[n].flushedVersion <= maxCompleted

\* A doomed version is behind the current one.
DoomedPassed ==
  seqErrors = 0 => \A d \in doomed : d < nextID /\ (active => d < currentVersion)

\* What failureVersionsCompleted registers is the pending range, or an earlier
\* one with the same start.
RegistersPending ==
  seqErrors = 0 /\ registering.phase # "idle" =>
    /\ registering.range.start = deadVersionRange.start
    /\ registering.phase = "registered" => registering.range \in deadRanges

\* The version Shutdown waits for travels through its three steps.
ShutdownProgress ==
  failureClusterVersion = -1 =>
    /\ shutdownPhase = "waiting" => shutdownFlushVersion = shutdownTarget
    /\ shutdownPhase \in {"woken", "storing", "stored", "done"} =>
         lastVersionToFlush >= shutdownTarget
    /\ shutdownPhase \in {"storing", "stored", "done"} => shutdownLfv >= shutdownTarget
    /\ shutdownPhase \in {"stored", "done"} => storedFlushedVersion >= shutdownTarget

IInv ==
  /\ TypeInv /\ Lifecycle /\ Ordered /\ DoomedPassed
  /\ PendingDeadRangeIsSealed /\ RegistersPending /\ RollbackIsRegistered
  /\ ShutdownProgress


\* Every step preserves Lifecycle.
LEMMA LifecycleNext == IInv /\ [Next]_vars => Lifecycle'
<1> SUFFICES ASSUME TypeInv, Lifecycle, [Next]_vars PROVE Lifecycle'
  BY DEF IInv
<1> USE DEF lifeVars, versionVars, flushVars, shutdownVars, failureVars
<1>1. CASE ~demoted /\ ~shutdown /\ HandleClusterStateLeader
  BY <1>1, Zenon DEF HandleClusterStateLeader, Lifecycle
<1>2. CASE HandleClusterStateNotLeader
  <2>1. demoted' /\ ~active'
    BY <1>2, SMT DEF HandleClusterStateNotLeader
  <2>2. ~activationRunning'
    BY <1>2, Zenon DEF HandleClusterStateNotLeader, Lifecycle
  <2>3. UNCHANGED <<shutdown, shutdownPhase>>
    BY <1>2, Zenon DEF HandleClusterStateNotLeader
  <2> QED BY <2>1, <2>2, <2>3, Zenon DEF Lifecycle
<1>3. CASE doActivate
  BY <1>3, Zenon DEF doActivate, setNextCurrentVersion, Lifecycle
<1>4. ASSUME NEW c \in Completer, NEW commandID \in Command,
             VersionComplete(c, currentVersion, commandID)
      PROVE  Lifecycle'
  BY <1>4, Zenon DEF VersionComplete, Completable, checkActive, countCompletion,
       completeVersion, doomVersion,
       AdvanceTo, AdvanceFails, Reach, startFailureVersionsCompleted, Lifecycle
<1>5. ASSUME NEW version \in {currentVersion, currentVersion + 1}, VersionDoomed(version)
      PROVE  Lifecycle'
  BY <1>5, Zenon DEF VersionDoomed, doomVersion, AdvanceTo, AdvanceFails, Reach,
       Completable, checkActive, Lifecycle
<1>6. CASE checkStuckVersion
  BY <1>6, Zenon DEF checkStuckVersion, doomVersion, AdvanceTo, AdvanceFails, Reach,
       Lifecycle
<1>7. ASSUME NEW n \in Node, NEW version \in 0..maxCompleted, NEW count \in LiveCounts,
             NEW clusterVersion \in 0..MaxClusterVersion,
             VersionFlushed(n, version, count, clusterVersion)
      PROVE  Lifecycle'
  BY <1>7, Zenon DEF VersionFlushed, Lifecycle
<1>8. CASE storeLastFlushedVersion
  BY <1>8, Zenon DEF storeLastFlushedVersion, Lifecycle
<1>9. CASE ShutdownStart
  BY <1>9, SMT DEF ShutdownStart, checkActive, Lifecycle
<1>10. CASE ShutdownRead
  BY <1>10, Zenon DEF ShutdownRead, Lifecycle
<1>11. CASE ShutdownStore
  BY <1>11, Zenon DEF ShutdownStore, Lifecycle
<1>12. CASE ShutdownFinish
  BY <1>12, Zenon DEF ShutdownFinish, Lifecycle
<1>13. ASSUME NEW count \in LiveCounts, NEW clusterVersion \in 1..MaxClusterVersion,
              FailureDetected(count, clusterVersion)
       PROVE  Lifecycle'
  BY <1>13, Zenon DEF FailureDetected, checkActive, fixDeadVersionRange, AdvanceTo,
       AdvanceFails, Reach, Lifecycle
<1>14. ASSUME NEW count \in LiveCounts, NEW clusterVersion \in 1..MaxClusterVersion,
              FailureComplete(count, clusterVersion)
       PROVE  Lifecycle'
  BY <1>14, Zenon DEF FailureComplete, checkActive, Lifecycle
<1>15. CASE RegisterDeadVersionRange
  BY <1>15, SMT DEF RegisterDeadVersionRange, Lifecycle
<1>16. CASE failureVersionsCompleted
  BY <1>16, Zenon DEF failureVersionsCompleted, rollbackVersion, Lifecycle
<1>17. CASE Failover
  BY <1>17, Zenon DEF Failover, Lifecycle
<1>18. CASE UNCHANGED vars
  BY <1>18, Zenon DEF vars, Lifecycle
<1> QED BY <1>1, <1>2, <1>3, <1>4, <1>5, <1>6, <1>7, <1>8, <1>9, <1>10, <1>11, <1>12,
       <1>13, <1>14, <1>15, <1>16, <1>17, <1>18 DEF Next

-----------------------------------------------------------------------------
(***************************************************************************)
(* What the steps that move the current version do to the counters.        *)
(***************************************************************************)
Moves ==
  /\ nextID' >= nextID /\ seqErrors' >= seqErrors
  /\ \/ currentVersion' = currentVersion
     \/ nextID <= currentVersion' /\ currentVersion' < nextID'
  /\ seqErrors' = 0 => currentVersion <= currentVersion'

\* A loop of setNextCurrentVersion moves forward, and to its target unless
\* GetNextID fails.
LEMMA AdvanceMoves ==
  ASSUME currentVersion \in Nat, nextID \in Nat, seqErrors \in Nat, NEW target \in Nat,
         AdvanceTo(target) \/ AdvanceFails(target)
  PROVE  Moves /\ (seqErrors' = 0 => currentVersion' >= target)
<1>1. CASE AdvanceTo(target)
  BY <1>1 DEF AdvanceTo, Reach, Moves
<1>2. CASE AdvanceFails(target)
  <2>1. seqErrors' = seqErrors + 1
    BY <1>2 DEF AdvanceFails
  <2>2. PICK reached \in {currentVersion} \cup nextID..(Reach(target) - 1) :
          /\ currentVersion' = reached
          /\ nextID' = IF reached = currentVersion THEN nextID ELSE reached + 1
    BY <1>2 DEF AdvanceFails
  <2>3. reached \in Nat /\ (reached = currentVersion \/ reached >= nextID)
    BY <2>2
  <2> QED BY <2>1, <2>2, <2>3 DEF Moves
<1> QED BY <1>1, <1>2

\* doomVersion moves past the doomed version, unless GetNextID fails.
LEMMA DoomMoves ==
  ASSUME TypeOK, NEW version \in Nat, doomVersion(version)
  PROVE  /\ Moves /\ (seqErrors' = 0 => currentVersion' >= version + 1)
         /\ doomed' = doomed \cup {version}
         /\ UNCHANGED <<lastCompletedVersion, maxCompleted>>
<1>1. AdvanceTo(version + 1) \/ AdvanceFails(version + 1)
  BY DEF doomVersion
<1>2. version + 1 \in Nat /\ currentVersion \in Nat /\ nextID \in Nat /\ seqErrors \in Nat
  BY DEF TypeOK
<1>3. Moves /\ (seqErrors' = 0 => currentVersion' >= version + 1)
  BY <1>1, <1>2, AdvanceMoves
<1> QED BY <1>3 DEF doomVersion

\* Counting a completion changes nothing but the count, or completes the current
\* version and moves on.
LEMMA CountMoves ==
  ASSUME TypeOK, NEW c \in Completer, NEW commandID \in Command, countCompletion(c, commandID)
  PROVE  /\ Moves /\ UNCHANGED doomed
         /\ \/ UNCHANGED <<currentVersion, nextID, lastCompletedVersion, maxCompleted, registering>>
            \/ /\ completeVersion /\ lastCompletedVersion' = currentVersion
               /\ maxCompleted' = IF currentVersion > maxCompleted THEN currentVersion
                                  ELSE maxCompleted
<1>1. UNCHANGED doomed
  BY DEF countCompletion
<1>2. currentVersion \in Nat /\ nextID \in Nat /\ seqErrors \in Nat
  BY DEF TypeOK
<1>3. CASE completeVersion
  <2>1. AdvanceTo(currentVersion + 1) \/ AdvanceFails(currentVersion + 1)
    BY <1>3 DEF completeVersion
  <2>2. Moves
    BY <1>2, <2>1, AdvanceMoves
  <2> QED BY <1>1, <1>3, <2>2 DEF completeVersion
<1>4. CASE UNCHANGED <<lastCompletedVersion, maxCompleted, currentVersion, nextID,
                       seqErrors, registering>>
  <2>1. Moves
    BY <1>2, <1>4 DEF Moves
  <2> QED BY <1>1, <1>4, <2>1
<1> QED BY <1>3, <1>4 DEF countCompletion

\* FailureDetected moves past the range it declares dead, or leaves the
\* versions and the range alone.
LEMMA DetectedMoves ==
  ASSUME TypeOK, NEW count, NEW clusterVersion, FailureDetected(count, clusterVersion)
  PROVE  /\ Moves
         /\ \/ UNCHANGED <<deadVersionRange, currentVersion, nextID, seqErrors,
                           disableFlush, lastVersionToFlush>>
            \/ /\ deadVersionRange' = VersionRange(lastFlushedVersion + 1, currentVersion + 2)
               /\ \/ seqErrors' > 0 /\ UNCHANGED lastVersionToFlush
                  \/ /\ currentVersion' >= currentVersion + 2
                     /\ disableFlush' = TRUE /\ lastVersionToFlush' = -1
<1>1. currentVersion \in Nat /\ nextID \in Nat /\ seqErrors \in Nat /\ currentVersion + 2 \in Nat
  BY DEF TypeOK
<1>2. CASE UNCHANGED <<deadVersionRange, currentVersion, nextID, seqErrors,
                       completionCount, disableFlush, lastVersionToFlush>>
  BY <1>1, <1>2 DEF Moves
<1>3. CASE fixDeadVersionRange
  <2>1. AdvanceTo(currentVersion + 2) \/ AdvanceFails(currentVersion + 2)
    BY <1>3 DEF fixDeadVersionRange
  <2>2. Moves
    BY <1>1, <2>1, AdvanceMoves
  <2>3. AdvanceTo(currentVersion + 2) => currentVersion' >= currentVersion + 2
    BY <1>1 DEF AdvanceTo, Reach
  <2>4. AdvanceFails(currentVersion + 2) => seqErrors' > 0
    BY <1>1 DEF AdvanceFails
  <2>5. \/ AdvanceFails(currentVersion + 2) /\ UNCHANGED lastVersionToFlush
        \/ /\ AdvanceTo(currentVersion + 2)
           /\ disableFlush' = TRUE /\ lastVersionToFlush' = -1
    BY <1>3, Zenon DEF fixDeadVersionRange
  <2>6. deadVersionRange' = VersionRange(lastFlushedVersion + 1, currentVersion + 2)
    BY <1>3, Zenon DEF fixDeadVersionRange
  <2> QED BY <2>2, <2>3, <2>4, <2>5, <2>6, Zenon
<1> QED BY <1>2, <1>3, Zenon DEF FailureDetected

\* Every step preserves Ordered.
LEMMA OrderedNext == IInv /\ [Next]_vars => Ordered'
<1> SUFFICES ASSUME TypeInv, TypeInv', Lifecycle, Ordered, [Next]_vars PROVE Ordered'
  BY TypeNext DEF IInv
<1> USE DEF lifeVars, versionVars, flushVars, shutdownVars, failureVars
<1>0. /\ currentVersion \in Nat /\ nextID \in Nat /\ seqErrors \in Nat
      /\ currentVersion' \in Nat /\ nextID' \in Nat
      /\ lastCompletedVersion \in Nat \cup {-1} /\ maxCompleted \in Nat \cup {-1}
      /\ lastVersionToFlush \in Nat \cup {-1} /\ storedFlushedVersion \in Nat \cup {-1}
      /\ shutdownLfv \in Nat \cup {-1}
      /\ \A n \in Node : flushedEntries[n].flushedVersion \in Nat \cup {-1}
  BY DEF TypeInv, TypeOK
<1>1. ASSUME UNCHANGED <<nextID, maxCompleted, lastCompletedVersion, currentVersion,
                         lastVersionToFlush, storedFlushedVersion, shutdownLfv,
                         flushedEntries>>,
             active' => active
      PROVE  Ordered'
  BY <1>1, Zenon DEF Ordered
<1>2. ASSUME Moves, UNCHANGED <<active, maxCompleted, lastCompletedVersion,
                                storedFlushedVersion, shutdownLfv, flushedEntries>>,
             lastVersionToFlush' \in {lastVersionToFlush, -1}
      PROVE  Ordered'
  BY <1>0, <1>2 DEF Ordered, Moves
<1>3. CASE HandleClusterStateLeader \/ ShutdownStart \/ RegisterDeadVersionRange
           \/ failureVersionsCompleted \/ UNCHANGED vars
  <2>1. CASE HandleClusterStateLeader
    BY <1>1, <2>1, Zenon DEF HandleClusterStateLeader
  <2>2. CASE ShutdownStart
    BY <1>1, <2>2, Zenon DEF ShutdownStart
  <2>3. CASE RegisterDeadVersionRange
    BY <1>1, <2>3, Zenon DEF RegisterDeadVersionRange
  <2>4. CASE failureVersionsCompleted
    BY <1>1, <2>4, Zenon DEF failureVersionsCompleted
  <2>5. CASE UNCHANGED vars
    BY <1>1, <2>5, Zenon DEF vars
  <2> QED BY <1>3, <2>1, <2>2, <2>3, <2>4, <2>5
<1>4. ASSUME NEW count \in LiveCounts, NEW clusterVersion \in 1..MaxClusterVersion,
             FailureComplete(count, clusterVersion)
      PROVE  Ordered'
  BY <1>1, <1>4, Zenon DEF FailureComplete
<1>5. CASE doActivate
  <2>1. /\ lastVersionToFlush' = storedFlushedVersion
        /\ UNCHANGED <<lastCompletedVersion, maxCompleted, storedFlushedVersion,
                       shutdownLfv, flushedEntries>>
    BY <1>5, Zenon DEF doActivate
  <2>2. \/ currentVersion' = nextID /\ nextID' = nextID + 1
        \/ UNCHANGED <<active, currentVersion, nextID>>
    BY <1>5, Zenon DEF doActivate, setNextCurrentVersion
  <2> QED BY <1>0, <2>1, <2>2 DEF Ordered
<1>6. ASSUME NEW c \in Completer, NEW commandID \in Command,
             VersionComplete(c, currentVersion, commandID)
      PROVE  Ordered'
  <2>1. /\ active
        /\ UNCHANGED <<active, lastVersionToFlush, storedFlushedVersion, shutdownLfv,
                       flushedEntries>>
    BY <1>6 DEF VersionComplete, Completable, checkActive
  <2>2. CASE doomVersion(currentVersion)
    BY <1>0, <1>2, <2>1, <2>2, DoomMoves DEF TypeInv
  <2>3. CASE countCompletion(c, commandID)
    <3>1. CASE UNCHANGED <<currentVersion, nextID, lastCompletedVersion, maxCompleted>>
      BY <1>1, <2>1, <3>1
    <3>2. CASE /\ lastCompletedVersion' = currentVersion
               /\ maxCompleted' = IF currentVersion > maxCompleted THEN currentVersion
                                  ELSE maxCompleted
      <4>1. Moves
        BY <2>3, CountMoves DEF TypeInv
      <4> QED BY <1>0, <2>1, <3>2, <4>1 DEF Moves, Ordered
    <3> QED BY <2>3, <3>1, <3>2, CountMoves DEF TypeInv
  <2> QED BY <1>6, <2>2, <2>3 DEF VersionComplete
<1>7. ASSUME NEW version \in {currentVersion, currentVersion + 1}, VersionDoomed(version)
      PROVE  Ordered'
  <2>1. version \in Nat
    BY <1>0
  <2> QED BY <1>2, <1>7, <2>1, DoomMoves DEF VersionDoomed, TypeInv
<1>8. CASE checkStuckVersion
  <2>1. UNCHANGED <<active, lastVersionToFlush, storedFlushedVersion, shutdownLfv,
                    flushedEntries>>
    BY <1>8 DEF checkStuckVersion
  <2>2. CASE doomVersion(currentVersion)
    BY <1>0, <1>2, <2>1, <2>2, DoomMoves DEF TypeInv
  <2>3. CASE UNCHANGED versionVars
    BY <1>1, <2>1, <2>3, SMTT(30)
  <2> QED BY <1>8, <2>2, <2>3 DEF checkStuckVersion
<1>9. ASSUME NEW n \in Node, NEW version \in 0..maxCompleted, NEW count \in LiveCounts,
             NEW clusterVersion \in 0..MaxClusterVersion,
             VersionFlushed(n, version, count, clusterVersion)
      PROVE  Ordered'
  <2>1. UNCHANGED <<active, nextID, maxCompleted, lastCompletedVersion, currentVersion,
                    storedFlushedVersion, shutdownLfv>>
    BY <1>9, Zenon DEF VersionFlushed
  <2>6. \E kept \in {[m \in Node |-> NoEntry], flushedEntries} :
          flushedEntries' = [kept EXCEPT ![n] = [flushedVersion |-> version,
                                                 processorCount |-> count]]
    BY <1>9, Zenon DEF VersionFlushed
  <2>7. flushedEntries \in [Node -> [flushedVersion : Nat \cup {-1}, processorCount : Nat]]
    BY DEF TypeInv, TypeOK
  <2>2. \A m \in Node : \/ flushedEntries'[m].flushedVersion \in {-1, version}
                        \/ flushedEntries'[m] = flushedEntries[m]
    BY <2>6, <2>7
  <2>3. \A m \in Node : flushedEntries'[m].flushedVersion <= maxCompleted
    BY <1>0, <2>2 DEF Ordered
  <2>4. \E m \in Node : lastVersionToFlush' \in {flushedEntries'[m].flushedVersion, lastVersionToFlush}
    BY <1>9, Zenon DEF VersionFlushed
  <2>5. lastVersionToFlush' <= maxCompleted
    BY <2>3, <2>4 DEF Ordered
  <2> QED BY <2>1, <2>3, <2>5 DEF Ordered
<1>10. CASE storeLastFlushedVersion
  <2>1. /\ storedFlushedVersion' = lastVersionToFlush
        /\ UNCHANGED <<active, nextID, maxCompleted, lastCompletedVersion, currentVersion,
                       lastVersionToFlush, shutdownLfv, flushedEntries>>
    BY <1>10, Zenon DEF storeLastFlushedVersion
  <2> QED BY <2>1 DEF Ordered
<1>11. CASE ShutdownRead
  <2>1. /\ shutdownLfv' = lastVersionToFlush
        /\ UNCHANGED <<active, nextID, maxCompleted, lastCompletedVersion, currentVersion,
                       lastVersionToFlush, storedFlushedVersion, flushedEntries>>
    BY <1>11, Zenon DEF ShutdownRead
  <2> QED BY <2>1 DEF Ordered
<1>12. CASE ShutdownStore
  <2>1. /\ storedFlushedVersion' = shutdownLfv
        /\ UNCHANGED <<active, nextID, maxCompleted, lastCompletedVersion, currentVersion,
                       lastVersionToFlush, shutdownLfv, flushedEntries>>
    BY <1>12, Zenon DEF ShutdownStore
  <2> QED BY <2>1 DEF Ordered
<1>13. ASSUME NEW count \in LiveCounts, NEW clusterVersion \in 1..MaxClusterVersion,
              FailureDetected(count, clusterVersion)
       PROVE  Ordered'
  <2>1. UNCHANGED <<active, maxCompleted, lastCompletedVersion, storedFlushedVersion,
                    shutdownLfv, flushedEntries>>
    BY <1>13, Zenon DEF FailureDetected
  <2>2. Moves /\ lastVersionToFlush' \in {lastVersionToFlush, -1}
    BY <1>13, DetectedMoves, Zenon DEF TypeInv
  <2> QED BY <1>2, <2>1, <2>2
<1>14. CASE Failover
  <2>1. \E skipped \in SkippedIDs : nextID' = nextID + skipped
    BY <1>14, Zenon DEF Failover
  <2>2. ~active'
    BY <1>14, Zenon DEF Failover
  <2>3. /\ lastCompletedVersion' = -1 /\ lastVersionToFlush' = -1 /\ shutdownLfv' = -1
        /\ flushedEntries' = [n \in Node |-> NoEntry]
        /\ UNCHANGED <<storedFlushedVersion, maxCompleted>>
    BY <1>14, Zenon DEF Failover
  <2>4. nextID' >= nextID
    BY <1>0, <2>1, ConstantsAssumption
  <2> QED BY <1>0, <2>2, <2>3, <2>4 DEF Ordered
<1>15. CASE HandleClusterStateNotLeader
  BY <1>1, <1>15, Zenon DEF HandleClusterStateNotLeader
<1>16. CASE ShutdownFinish
  BY <1>1, <1>16, Zenon DEF ShutdownFinish
<1> QED BY <1>3, <1>4, <1>5, <1>6, <1>7, <1>8, <1>9, <1>10, <1>11, <1>12, <1>13, <1>14,
       <1>15, <1>16 DEF Next

\* Every step preserves DoomedPassed.
LEMMA DoomedPassedNext == IInv /\ [Next]_vars => DoomedPassed'
<1> SUFFICES ASSUME TypeInv, TypeInv', Lifecycle, Ordered, DoomedPassed, [Next]_vars
             PROVE  DoomedPassed'
  BY TypeNext DEF IInv
<1> USE DEF lifeVars, versionVars, flushVars, shutdownVars, failureVars
<1>0. /\ currentVersion \in Nat /\ nextID \in Nat /\ seqErrors \in Nat /\ doomed \subseteq Nat
      /\ currentVersion' \in Nat /\ nextID' \in Nat /\ seqErrors' \in Nat
  BY DEF TypeInv, TypeOK
<1>1. ASSUME UNCHANGED <<seqErrors, doomed, nextID, currentVersion>>, active' => active
      PROVE  DoomedPassed'
  BY <1>1, Zenon DEF DoomedPassed
<1>2. ASSUME Moves, UNCHANGED <<active, doomed>>
      PROVE  DoomedPassed'
  BY <1>0, <1>2 DEF DoomedPassed, Moves
<1>3. ASSUME NEW version \in Nat, doomVersion(version), version >= currentVersion, UNCHANGED active
      PROVE  DoomedPassed'
  <2>1. /\ Moves /\ (seqErrors' = 0 => currentVersion' >= version + 1)
        /\ doomed' = doomed \cup {version}
    BY <1>3, DoomMoves DEF TypeInv
  <2>2. seqErrors' = 0 => version < nextID' /\ version < currentVersion'
    BY <1>0, <1>3, <2>1 DEF Moves
  <2>3. ASSUME seqErrors' = 0, NEW d \in doomed PROVE d < nextID' /\ (active => d < currentVersion')
    BY <1>0, <2>1, <2>3 DEF Moves, DoomedPassed
  <2> QED BY <1>3, <2>1, <2>2, <2>3 DEF DoomedPassed
<1>4. currentVersion \in Nat /\ currentVersion >= currentVersion
  BY <1>0
<1>5. CASE HandleClusterStateLeader \/ storeLastFlushedVersion \/ ShutdownStart
           \/ ShutdownRead \/ ShutdownStore \/ RegisterDeadVersionRange
           \/ failureVersionsCompleted \/ UNCHANGED vars
  <2>1. CASE HandleClusterStateLeader
    BY <1>1, <2>1, Zenon DEF HandleClusterStateLeader
  <2>2. CASE storeLastFlushedVersion
    BY <1>1, <2>2, Zenon DEF storeLastFlushedVersion
  <2>3. CASE ShutdownStart
    BY <1>1, <2>3, Zenon DEF ShutdownStart
  <2>4. CASE ShutdownRead
    BY <1>1, <2>4, Zenon DEF ShutdownRead
  <2>5. CASE ShutdownStore
    BY <1>1, <2>5, Zenon DEF ShutdownStore
  <2>6. CASE RegisterDeadVersionRange
    BY <1>1, <2>6, Zenon DEF RegisterDeadVersionRange
  <2>7. CASE failureVersionsCompleted
    BY <1>1, <2>7, Zenon DEF failureVersionsCompleted
  <2>8. CASE UNCHANGED vars
    BY <1>1, <2>8, Zenon DEF vars
  <2> QED BY <1>5, <2>1, <2>2, <2>3, <2>4, <2>5, <2>6, <2>7, <2>8
<1>6. ASSUME NEW count \in LiveCounts, NEW clusterVersion \in 1..MaxClusterVersion,
             FailureComplete(count, clusterVersion)
      PROVE  DoomedPassed'
  BY <1>1, <1>6, Zenon DEF FailureComplete
<1>7. ASSUME NEW n \in Node, NEW version \in 0..maxCompleted, NEW count \in LiveCounts,
             NEW clusterVersion \in 0..MaxClusterVersion,
             VersionFlushed(n, version, count, clusterVersion)
      PROVE  DoomedPassed'
  BY <1>1, <1>7, Zenon DEF VersionFlushed
<1>8. CASE doActivate
  <2>1. \/ currentVersion' = nextID /\ nextID' = nextID + 1 /\ UNCHANGED <<seqErrors, doomed>>
        \/ UNCHANGED <<active, currentVersion, nextID, doomed>> /\ seqErrors' = seqErrors + 1
    BY <1>8, Zenon DEF doActivate, setNextCurrentVersion
  <2>2. CASE currentVersion' = nextID /\ nextID' = nextID + 1 /\ UNCHANGED <<seqErrors, doomed>>
    <3>1. seqErrors = 0 => \A d \in doomed : d < nextID' /\ d < currentVersion'
      BY <1>0, <2>2 DEF DoomedPassed
    <3> QED BY <2>2, <3>1, Zenon DEF DoomedPassed
  <2>3. CASE seqErrors' = seqErrors + 1
    BY <1>0, <2>3 DEF DoomedPassed
  <2> QED BY <2>1, <2>2, <2>3
<1>9. ASSUME NEW c \in Completer, NEW commandID \in Command,
             VersionComplete(c, currentVersion, commandID)
      PROVE  DoomedPassed'
  <2>1. UNCHANGED active
    BY <1>9, Zenon DEF VersionComplete
  <2>2. CASE doomVersion(currentVersion)
    BY <1>3, <1>4, <2>1, <2>2
  <2>3. CASE countCompletion(c, commandID)
    BY <1>2, <2>1, <2>3, CountMoves DEF TypeInv
  <2> QED BY <1>9, <2>2, <2>3, Zenon DEF VersionComplete
<1>10. ASSUME NEW version \in {currentVersion, currentVersion + 1}, VersionDoomed(version)
       PROVE  DoomedPassed'
  <2>1. version \in Nat /\ version >= currentVersion
    BY <1>4
  <2> QED BY <1>3, <1>10, <2>1 DEF VersionDoomed
<1>11. CASE checkStuckVersion
  <2>1. UNCHANGED active
    BY <1>11, Zenon DEF checkStuckVersion
  <2>2. CASE doomVersion(currentVersion)
    BY <1>3, <1>4, <2>1, <2>2
  <2>3. CASE UNCHANGED versionVars
    BY <1>1, <2>1, <2>3, Zenon
  <2> QED BY <1>11, <2>2, <2>3, Zenon DEF checkStuckVersion
<1>12. ASSUME NEW count \in LiveCounts, NEW clusterVersion \in 1..MaxClusterVersion,
              FailureDetected(count, clusterVersion)
       PROVE  DoomedPassed'
  <2>1. UNCHANGED <<active, doomed>>
    BY <1>12, Zenon DEF FailureDetected
  <2> QED BY <1>2, <1>12, <2>1, DetectedMoves, Zenon DEF TypeInv
<1>13. CASE Failover
  <2>1. \E skipped \in SkippedIDs : nextID' = nextID + skipped
    BY <1>13, Zenon DEF Failover
  <2>2. ~active' /\ UNCHANGED <<seqErrors, doomed>>
    BY <1>13, Zenon DEF Failover
  <2>3. nextID' >= nextID
    BY <1>0, <2>1, ConstantsAssumption
  <2> QED BY <1>0, <2>2, <2>3 DEF DoomedPassed
<1>14. CASE HandleClusterStateNotLeader
  BY <1>1, <1>14, Zenon DEF HandleClusterStateNotLeader
<1>15. CASE ShutdownFinish
  BY <1>1, <1>15, Zenon DEF ShutdownFinish
<1> QED BY <1>5, <1>6, <1>7, <1>8, <1>9, <1>10, <1>11, <1>12, <1>13, <1>14, <1>15 DEF Next

\* Every step preserves PendingDeadRangeIsSealed.
LEMMA SealedNext == IInv /\ [Next]_vars => PendingDeadRangeIsSealed'
<1> SUFFICES ASSUME TypeInv, TypeInv', Lifecycle, PendingDeadRangeIsSealed, [Next]_vars
             PROVE  PendingDeadRangeIsSealed'
  BY TypeNext DEF IInv
<1> USE DEF lifeVars, versionVars, flushVars, shutdownVars, failureVars
<1>0. /\ currentVersion \in Nat /\ currentVersion' \in Nat /\ seqErrors \in Nat
      /\ seqErrors' \in Nat /\ deadVersionRange.end \in Nat \cup {-1}
  BY DEF TypeInv, TypeOK
<1>1. ASSUME Moves, UNCHANGED <<deadVersionRange, disableFlush, lastVersionToFlush, lastFlushedVersion>>,
             shutdownPhase' # "done" => shutdownPhase # "done"
      PROVE  PendingDeadRangeIsSealed'
  BY <1>0, <1>1 DEF Moves, PendingDeadRangeIsSealed
<1>2. ASSUME UNCHANGED <<seqErrors, currentVersion, deadVersionRange, disableFlush,
                         lastVersionToFlush, lastFlushedVersion>>,
             shutdownPhase' # "done" => shutdownPhase # "done"
      PROVE  PendingDeadRangeIsSealed'
  BY <1>2, Zenon DEF PendingDeadRangeIsSealed
<1>3. CASE HandleClusterStateLeader \/ HandleClusterStateNotLeader \/ ShutdownStart
           \/ ShutdownRead \/ ShutdownStore \/ RegisterDeadVersionRange \/ UNCHANGED vars
  <2>1. UNCHANGED <<seqErrors, currentVersion, deadVersionRange, disableFlush,
                    lastVersionToFlush, lastFlushedVersion>>
    BY <1>3, Zenon DEF HandleClusterStateLeader, HandleClusterStateNotLeader,
         ShutdownStart, ShutdownRead, ShutdownStore, RegisterDeadVersionRange, vars
  <2>2. UNCHANGED shutdownPhase \/ shutdownPhase \in {"none", "woken", "storing"}
    BY <1>3, Zenon DEF HandleClusterStateLeader, HandleClusterStateNotLeader,
         ShutdownStart, ShutdownRead, ShutdownStore, RegisterDeadVersionRange, vars
  <2> QED BY <1>2, <2>1, <2>2
<1>4. ASSUME NEW count \in LiveCounts, NEW clusterVersion \in 1..MaxClusterVersion,
             FailureComplete(count, clusterVersion)
      PROVE  PendingDeadRangeIsSealed'
  BY <1>2, <1>4, Zenon DEF FailureComplete
<1>5. CASE doActivate
  <2>1. deadVersionRange = None
    BY <1>5, Zenon DEF doActivate, Lifecycle
  <2>2. UNCHANGED deadVersionRange
    BY <1>5, Zenon DEF doActivate
  <2> QED BY <2>1, <2>2 DEF PendingDeadRangeIsSealed
<1>6. ASSUME NEW c \in Completer, NEW commandID \in Command,
             VersionComplete(c, currentVersion, commandID)
      PROVE  PendingDeadRangeIsSealed'
  <2>1. UNCHANGED <<deadVersionRange, disableFlush, lastVersionToFlush,
                    lastFlushedVersion, shutdownPhase>>
    BY <1>6, Zenon DEF VersionComplete
  <2>2. CASE doomVersion(currentVersion)
    BY <1>0, <1>1, <2>1, <2>2, DoomMoves DEF TypeInv
  <2>3. CASE countCompletion(c, commandID)
    BY <1>1, <2>1, <2>3, CountMoves, SMTT(30) DEF TypeInv
  <2> QED BY <1>6, <2>2, <2>3, Zenon DEF VersionComplete
<1>7. ASSUME NEW version \in {currentVersion, currentVersion + 1}, VersionDoomed(version)
      PROVE  PendingDeadRangeIsSealed'
  <2>1. version \in Nat
    BY DEF TypeInv, TypeOK
  <2>2. UNCHANGED <<deadVersionRange, disableFlush, lastVersionToFlush,
                    lastFlushedVersion, shutdownPhase>>
    BY <1>7, Zenon DEF VersionDoomed
  <2> QED BY <1>1, <1>7, <2>1, <2>2, DoomMoves, SMTT(30) DEF VersionDoomed, TypeInv
<1>8. CASE checkStuckVersion
  <2>1. UNCHANGED <<deadVersionRange, disableFlush, lastVersionToFlush,
                    lastFlushedVersion, shutdownPhase>>
    BY <1>8, Zenon DEF checkStuckVersion
  <2>2. CASE doomVersion(currentVersion)
    BY <1>0, <1>1, <2>1, <2>2, DoomMoves DEF TypeInv
  <2>3. CASE UNCHANGED versionVars
    BY <1>2, <2>1, <2>3, Zenon
  <2> QED BY <1>8, <2>2, <2>3, Zenon DEF checkStuckVersion
<1>9. ASSUME NEW n \in Node, NEW version \in 0..maxCompleted, NEW count \in LiveCounts,
             NEW clusterVersion \in 0..MaxClusterVersion,
             VersionFlushed(n, version, count, clusterVersion)
      PROVE  PendingDeadRangeIsSealed'
  <2>1. ~disableFlush /\ UNCHANGED <<deadVersionRange, seqErrors>>
    BY <1>9, Zenon DEF VersionFlushed
  <2> QED BY <2>1, Zenon DEF PendingDeadRangeIsSealed
<1>10. CASE storeLastFlushedVersion
  <2>1. lastVersionToFlush # -1 /\ UNCHANGED <<deadVersionRange, seqErrors>>
    BY <1>10, Zenon DEF storeLastFlushedVersion
  <2> QED BY <2>1, Zenon DEF PendingDeadRangeIsSealed
<1>11. CASE ShutdownFinish
  <2>1. /\ shutdownPhase' = "done"
        /\ UNCHANGED <<seqErrors, currentVersion, deadVersionRange, disableFlush,
                       lastVersionToFlush>>
    BY <1>11, Zenon DEF ShutdownFinish
  <2> QED BY <2>1, Zenon DEF PendingDeadRangeIsSealed
<1>12. ASSUME NEW count \in LiveCounts, NEW clusterVersion \in 1..MaxClusterVersion,
              FailureDetected(count, clusterVersion)
       PROVE  PendingDeadRangeIsSealed'
  <2>1. UNCHANGED <<lastFlushedVersion, shutdownPhase>>
    BY <1>12, Zenon DEF FailureDetected
  <2>2. CASE UNCHANGED <<deadVersionRange, currentVersion, nextID, seqErrors,
                         disableFlush, lastVersionToFlush>>
    BY <1>2, <2>1, <2>2
  <2>3. CASE seqErrors' > 0
    BY <2>3, SMTT(30) DEF PendingDeadRangeIsSealed
  <2>5. currentVersion \in Nat /\ lastFlushedVersion \in Nat \cup {-1}
    BY DEF TypeInv, TypeOK
  <2>4. CASE /\ deadVersionRange' = VersionRange(lastFlushedVersion + 1, currentVersion + 2)
             /\ currentVersion' >= currentVersion + 2
             /\ disableFlush' = TRUE /\ lastVersionToFlush' = -1
    BY <2>1, <2>4, <2>5 DEF PendingDeadRangeIsSealed
  <2> QED BY <1>12, <2>2, <2>3, <2>4, DetectedMoves, Zenon DEF TypeInv
<1>13. CASE failureVersionsCompleted
  <2>1. \/ deadVersionRange' = None
        \/ UNCHANGED <<deadVersionRange, disableFlush>>
    BY <1>13, Zenon DEF failureVersionsCompleted
  <2>2. UNCHANGED <<seqErrors, currentVersion, lastVersionToFlush, lastFlushedVersion,
                    shutdownPhase>>
    BY <1>13, Zenon DEF failureVersionsCompleted
  <2> QED BY <2>1, <2>2, Zenon DEF PendingDeadRangeIsSealed
<1>14. CASE Failover
  BY <1>14, Zenon DEF Failover, PendingDeadRangeIsSealed
<1> QED BY <1>3, <1>4, <1>5, <1>6, <1>7, <1>8, <1>9, <1>10, <1>11, <1>12, <1>13, <1>14
       DEF Next

\* Every step preserves RegistersPending.
LEMMA RegistersNext == IInv /\ [Next]_vars => RegistersPending'
<1> SUFFICES ASSUME TypeInv, Lifecycle, PendingDeadRangeIsSealed, RegistersPending, [Next]_vars
             PROVE  RegistersPending'
  BY DEF IInv
<1> USE DEF lifeVars, versionVars, flushVars, shutdownVars, failureVars
<1>0. currentVersion \in Nat
  BY DEF TypeInv, TypeOK
<1>1. ASSUME UNCHANGED <<registering, deadVersionRange, deadRanges>>,
             seqErrors' = 0 => seqErrors = 0
      PROVE  RegistersPending'
  BY <1>1, Zenon DEF RegistersPending
<1>2. Moves => (seqErrors' = 0 => seqErrors = 0)
  BY DEF Moves, TypeInv, TypeOK
<1>3. CASE HandleClusterStateLeader \/ HandleClusterStateNotLeader \/ storeLastFlushedVersion
           \/ ShutdownStart \/ ShutdownRead \/ ShutdownStore \/ ShutdownFinish \/ UNCHANGED vars
  BY <1>1, <1>3, Zenon DEF HandleClusterStateLeader, HandleClusterStateNotLeader,
       storeLastFlushedVersion, ShutdownStart, ShutdownRead, ShutdownStore,
       ShutdownFinish, vars
<1>4. ASSUME NEW count \in LiveCounts, NEW clusterVersion \in 1..MaxClusterVersion,
             FailureComplete(count, clusterVersion)
      PROVE  RegistersPending'
  BY <1>1, <1>4, Zenon DEF FailureComplete
<1>5. ASSUME NEW n \in Node, NEW version \in 0..maxCompleted, NEW count \in LiveCounts,
             NEW clusterVersion \in 0..MaxClusterVersion,
             VersionFlushed(n, version, count, clusterVersion)
      PROVE  RegistersPending'
  BY <1>1, <1>5, Zenon DEF VersionFlushed
<1>6. CASE doActivate
  <2>1. UNCHANGED <<registering, deadVersionRange, deadRanges>> /\ seqErrors' \in {seqErrors, seqErrors + 1}
    BY <1>6, Zenon DEF doActivate
  <2>2. seqErrors' = 0 => seqErrors = 0
    BY <2>1 DEF TypeInv, TypeOK
  <2> QED BY <1>1, <2>1, <2>2
<1>7. ASSUME NEW c \in Completer, NEW commandID \in Command,
             VersionComplete(c, currentVersion, commandID)
      PROVE  RegistersPending'
  <2>1. UNCHANGED <<deadVersionRange, deadRanges>>
    BY <1>7, Zenon DEF VersionComplete
  <2>2. CASE doomVersion(currentVersion) /\ UNCHANGED registering
    BY <1>0, <1>1, <1>2, <2>1, <2>2, DoomMoves DEF TypeInv
  <2>3. CASE countCompletion(c, commandID)
    <3>1. Moves
      BY <2>3, CountMoves DEF TypeInv
    <3>2. \/ UNCHANGED registering
          \/ registering' = [range |-> deadVersionRange, cv |-> failureClusterVersion,
                             phase |-> "sending"]
      BY <2>3, Zenon DEF countCompletion, completeVersion, startFailureVersionsCompleted
    <3>3. CASE UNCHANGED registering
      BY <1>1, <1>2, <2>1, <3>1, <3>3
    <3>4. CASE registering' = [range |-> deadVersionRange, cv |-> failureClusterVersion,
                               phase |-> "sending"]
      BY <2>1, <3>4 DEF RegistersPending
    <3> QED BY <3>2, <3>3, <3>4
  <2> QED BY <1>7, <2>2, <2>3, Zenon DEF VersionComplete
<1>8. ASSUME NEW version \in {currentVersion, currentVersion + 1}, VersionDoomed(version)
      PROVE  RegistersPending'
  <2>1. version \in Nat
    BY DEF TypeInv, TypeOK
  <2>2. doomVersion(version) /\ UNCHANGED <<registering, deadVersionRange, deadRanges>>
    BY <1>8, Zenon DEF VersionDoomed
  <2> QED BY <1>1, <1>2, <2>1, <2>2, DoomMoves DEF TypeInv
<1>9. CASE checkStuckVersion
  <2>1. UNCHANGED <<registering, deadVersionRange, deadRanges>>
    BY <1>9, Zenon DEF checkStuckVersion
  <2>2. CASE doomVersion(currentVersion)
    BY <1>0, <1>1, <1>2, <2>1, <2>2, DoomMoves DEF TypeInv
  <2>3. CASE UNCHANGED versionVars
    BY <1>1, <2>1, <2>3, Zenon
  <2> QED BY <1>9, <2>2, <2>3, Zenon DEF checkStuckVersion
<1>10. ASSUME NEW count \in LiveCounts, NEW clusterVersion \in 1..MaxClusterVersion,
              FailureDetected(count, clusterVersion)
       PROVE  RegistersPending'
  <2>1. active /\ UNCHANGED <<registering, deadRanges>>
    BY <1>10, Zenon DEF FailureDetected, checkActive
  <2>2. Moves /\ \/ UNCHANGED deadVersionRange
                 \/ deadVersionRange' = VersionRange(lastFlushedVersion + 1, currentVersion + 2)
    BY <1>10, DetectedMoves, Zenon DEF TypeInv
  <2>3. CASE UNCHANGED deadVersionRange
    BY <1>1, <1>2, <2>1, <2>2, <2>3, SMTT(30)
  <2>4. CASE deadVersionRange' = VersionRange(lastFlushedVersion + 1, currentVersion + 2)
    <3>1. shutdownPhase # "done"
      BY <2>1, Zenon DEF Lifecycle
    <3>2. seqErrors = 0 /\ registering.phase # "idle" => lastFlushedVersion = deadVersionRange.start - 1
      BY <3>1, Zenon DEF PendingDeadRangeIsSealed, TypeInv, RegisteringHasRange
    <3>3. registering.phase # "idle" => deadVersionRange.start \in Nat
      BY DEF TypeInv, RegisteringHasRange
    <3> QED BY <1>2, <2>1, <2>2, <2>4, <3>2, <3>3 DEF RegistersPending, TypeInv, TypeOK
  <2> QED BY <2>2, <2>3, <2>4
<1>11. CASE RegisterDeadVersionRange
  <2>1. /\ registering.phase = "sending"
        /\ registering' = [registering EXCEPT !.phase = "registered"]
        /\ deadRanges' = deadRanges \cup {registering.range}
        /\ UNCHANGED <<deadVersionRange, seqErrors>>
    BY <1>11, Zenon DEF RegisterDeadVersionRange
  <2> QED BY <2>1 DEF RegistersPending, TypeInv, TypeOK
<1>12. CASE failureVersionsCompleted \/ Failover
  <2>1. registering' = NotRunning
    BY <1>12, Zenon DEF failureVersionsCompleted, Failover
  <2> QED BY <2>1 DEF RegistersPending
<1> QED BY <1>3, <1>4, <1>5, <1>6, <1>7, <1>8, <1>9, <1>10, <1>11, <1>12 DEF Next

\* Every step preserves RollbackIsRegistered.
LEMMA RollbackNext == IInv /\ [Next]_vars => RollbackIsRegistered'
<1> SUFFICES ASSUME TypeInv, RegistersPending, RollbackIsRegistered, [Next]_vars
             PROVE  RollbackIsRegistered'
  BY DEF IInv
<1> USE DEF lifeVars, versionVars, flushVars, shutdownVars, failureVars
<1>0. currentVersion \in Nat
  BY DEF TypeInv, TypeOK
<1>1. ASSUME UNCHANGED <<versionWaitComplete, lastFailureFlushedVersion>>,
             deadRanges \subseteq deadRanges', seqErrors' = 0 => seqErrors = 0
      PROVE  RollbackIsRegistered'
  BY <1>1, Zenon DEF RollbackIsRegistered
<1>2. Moves => (seqErrors' = 0 => seqErrors = 0)
  BY DEF Moves, TypeInv, TypeOK
<1>3. CASE HandleClusterStateLeader \/ HandleClusterStateNotLeader \/ storeLastFlushedVersion
           \/ ShutdownStart \/ ShutdownRead \/ ShutdownStore \/ ShutdownFinish
           \/ RegisterDeadVersionRange \/ UNCHANGED vars
  BY <1>1, <1>3, Zenon DEF HandleClusterStateLeader, HandleClusterStateNotLeader,
       storeLastFlushedVersion, ShutdownStart, ShutdownRead, ShutdownStore,
       ShutdownFinish, RegisterDeadVersionRange, vars
<1>4. ASSUME NEW count \in LiveCounts, NEW clusterVersion \in 1..MaxClusterVersion,
             FailureComplete(count, clusterVersion)
      PROVE  RollbackIsRegistered'
  BY <1>1, <1>4, Zenon DEF FailureComplete
<1>5. ASSUME NEW n \in Node, NEW version \in 0..maxCompleted, NEW count \in LiveCounts,
             NEW clusterVersion \in 0..MaxClusterVersion,
             VersionFlushed(n, version, count, clusterVersion)
      PROVE  RollbackIsRegistered'
  BY <1>1, <1>5, Zenon DEF VersionFlushed
<1>6. CASE doActivate
  <2>1. /\ UNCHANGED <<versionWaitComplete, lastFailureFlushedVersion, deadRanges>>
        /\ seqErrors' \in {seqErrors, seqErrors + 1}
    BY <1>6, Zenon DEF doActivate
  <2>2. seqErrors' = 0 => seqErrors = 0
    BY <2>1 DEF TypeInv, TypeOK
  <2> QED BY <1>1, <2>1, <2>2, Zenon
<1>7. ASSUME NEW c \in Completer, NEW commandID \in Command,
             VersionComplete(c, currentVersion, commandID)
      PROVE  RollbackIsRegistered'
  <2>1. UNCHANGED <<versionWaitComplete, lastFailureFlushedVersion, deadRanges>>
    BY <1>7, Zenon DEF VersionComplete
  <2>2. CASE doomVersion(currentVersion)
    BY <1>0, <1>1, <1>2, <2>1, <2>2, DoomMoves DEF TypeInv
  <2>3. CASE countCompletion(c, commandID)
    BY <1>1, <1>2, <2>1, <2>3, CountMoves DEF TypeInv
  <2> QED BY <1>7, <2>2, <2>3, Zenon DEF VersionComplete
<1>8. ASSUME NEW version \in {currentVersion, currentVersion + 1}, VersionDoomed(version)
      PROVE  RollbackIsRegistered'
  <2>1. version \in Nat
    BY DEF TypeInv, TypeOK
  <2>2. /\ doomVersion(version)
        /\ UNCHANGED <<versionWaitComplete, lastFailureFlushedVersion, deadRanges>>
    BY <1>8, Zenon DEF VersionDoomed
  <2> QED BY <1>1, <1>2, <2>1, <2>2, DoomMoves DEF TypeInv
<1>9. CASE checkStuckVersion
  <2>1. UNCHANGED <<versionWaitComplete, lastFailureFlushedVersion, deadRanges>>
    BY <1>9, Zenon DEF checkStuckVersion
  <2>2. CASE doomVersion(currentVersion)
    BY <1>0, <1>1, <1>2, <2>1, <2>2, DoomMoves DEF TypeInv
  <2>3. CASE UNCHANGED versionVars
    BY <1>1, <2>1, <2>3, Zenon
  <2> QED BY <1>9, <2>2, <2>3, Zenon DEF checkStuckVersion
<1>10. ASSUME NEW count \in LiveCounts, NEW clusterVersion \in 1..MaxClusterVersion,
              FailureDetected(count, clusterVersion)
       PROVE  RollbackIsRegistered'
  <2>1. UNCHANGED <<versionWaitComplete, lastFailureFlushedVersion, deadRanges>>
    BY <1>10, Zenon DEF FailureDetected
  <2>2. Moves
    BY <1>10, DetectedMoves, Zenon DEF TypeInv
  <2> QED BY <1>1, <1>2, <2>1, <2>2, Zenon
<1>11. CASE failureVersionsCompleted
  <2>1. registering.phase = "registered" /\ UNCHANGED <<deadRanges, seqErrors>>
    BY <1>11, Zenon DEF failureVersionsCompleted
  <2>2. CASE UNCHANGED <<versionWaitComplete, lastFailureFlushedVersion>>
    BY <2>1, <2>2, Zenon DEF RollbackIsRegistered
  <2>3. CASE lastFailureFlushedVersion' = rollbackVersion
    <3>1. seqErrors = 0 => /\ registering.range \in deadRanges
                           /\ registering.range.start = deadVersionRange.start
      BY <2>1 DEF RegistersPending
    <3>2. deadVersionRange.start = lastFailureFlushedVersion' + 1
      BY <2>3 DEF rollbackVersion, TypeInv, TypeOK
    <3> QED BY <2>1, <3>1, <3>2 DEF RollbackIsRegistered
  <2> QED BY <1>11, <2>2, <2>3, Zenon DEF failureVersionsCompleted
<1>12. CASE Failover
  BY <1>12, Zenon DEF Failover, RollbackIsRegistered
<1> QED BY <1>3, <1>4, <1>5, <1>6, <1>7, <1>8, <1>9, <1>10, <1>11, <1>12 DEF Next

\* Every step preserves ShutdownProgress.
LEMMA ShutdownNext == IInv /\ [Next]_vars => ShutdownProgress'
<1> SUFFICES ASSUME TypeInv, TypeInv', Lifecycle, ShutdownProgress, [Next]_vars
             PROVE  ShutdownProgress'
  BY TypeNext DEF IInv
<1> USE DEF lifeVars, versionVars, flushVars, shutdownVars, failureVars
<1>1. ASSUME UNCHANGED <<failureClusterVersion, shutdownVars, lastVersionToFlush, storedFlushedVersion>>
      PROVE  ShutdownProgress'
  BY <1>1, Zenon DEF ShutdownProgress
<1>2. CASE HandleClusterStateLeader \/ HandleClusterStateNotLeader \/ checkStuckVersion
           \/ RegisterDeadVersionRange \/ failureVersionsCompleted \/ UNCHANGED vars
  BY <1>1, <1>2, Zenon DEF HandleClusterStateLeader, HandleClusterStateNotLeader,
       checkStuckVersion, RegisterDeadVersionRange, failureVersionsCompleted, vars
<1>3. ASSUME NEW c \in Completer, NEW commandID \in Command,
             VersionComplete(c, currentVersion, commandID)
      PROVE  ShutdownProgress'
  BY <1>1, <1>3, Zenon DEF VersionComplete
<1>4. ASSUME NEW version \in {currentVersion, currentVersion + 1}, VersionDoomed(version)
      PROVE  ShutdownProgress'
  BY <1>1, <1>4, Zenon DEF VersionDoomed
<1>5. ASSUME NEW count \in LiveCounts, NEW clusterVersion \in 1..MaxClusterVersion,
             FailureComplete(count, clusterVersion)
      PROVE  ShutdownProgress'
  BY <1>1, <1>5, Zenon DEF FailureComplete
<1>6. CASE doActivate
  <2>1. shutdownPhase = "none" /\ UNCHANGED shutdownPhase
    BY <1>6, Zenon DEF doActivate, Lifecycle
  <2> QED BY <2>1 DEF ShutdownProgress
<1>7. ASSUME NEW n \in Node, NEW version \in 0..maxCompleted, NEW count \in LiveCounts,
             NEW clusterVersion \in 0..MaxClusterVersion,
             VersionFlushed(n, version, count, clusterVersion)
      PROVE  ShutdownProgress'
  <2>1. UNCHANGED <<failureClusterVersion, shutdownTarget, shutdownLfv, storedFlushedVersion>>
    BY <1>7, Zenon DEF VersionFlushed
  <2>2. \/ UNCHANGED <<lastVersionToFlush, shutdownPhase, shutdownFlushVersion>>
        \/ lastVersionToFlush' > lastVersionToFlush /\ UNCHANGED <<shutdownPhase, shutdownFlushVersion>>
        \/ /\ lastVersionToFlush' >= shutdownFlushVersion /\ shutdownPhase = "waiting"
           /\ shutdownPhase' = "woken"
    BY <1>7, Zenon DEF VersionFlushed
  <2>3. /\ lastVersionToFlush \in Nat \cup {-1} /\ lastVersionToFlush' \in Nat \cup {-1}
        /\ shutdownTarget \in Nat \cup {-1} /\ shutdownFlushVersion \in Nat \cup {-1}
    BY Zenon DEF TypeInv, TypeOK
  <2> QED BY <2>1, <2>2, <2>3 DEF ShutdownProgress
<1>8. CASE storeLastFlushedVersion
  BY <1>8, SMTT(30) DEF storeLastFlushedVersion, ShutdownProgress
<1>9. CASE ShutdownStart
  <2>1. \/ shutdownPhase' = "waiting" /\ shutdownFlushVersion' = shutdownTarget'
        \/ shutdownPhase' = "woken" /\ ~MustWaitForFlush /\ shutdownTarget' = lastCompletedVersion
    BY <1>9, Zenon DEF ShutdownStart
  <2>2. UNCHANGED <<failureClusterVersion, lastVersionToFlush>>
    BY <1>9, Zenon DEF ShutdownStart
  <2> QED BY <2>1, <2>2 DEF MustWaitForFlush, ShutdownProgress, TypeInv, TypeOK
<1>10. CASE ShutdownRead
  BY <1>10 DEF ShutdownRead, ShutdownProgress
<1>11. CASE ShutdownStore
  BY <1>11 DEF ShutdownStore, ShutdownProgress
<1>12. CASE ShutdownFinish
  <2>1. /\ shutdownPhase = "stored" /\ shutdownPhase' = "done"
        /\ UNCHANGED <<failureClusterVersion, shutdownTarget, shutdownLfv,
                       lastVersionToFlush, storedFlushedVersion>>
    BY <1>12, Zenon DEF ShutdownFinish
  <2> QED BY <2>1 DEF ShutdownProgress
<1>13. ASSUME NEW count \in LiveCounts, NEW clusterVersion \in 1..MaxClusterVersion,
              FailureDetected(count, clusterVersion)
       PROVE  ShutdownProgress'
  <2>1. failureClusterVersion' = clusterVersion /\ clusterVersion # -1
    BY <1>13, ConstantsAssumption DEF FailureDetected
  <2> QED BY <2>1, SMTT(30) DEF ShutdownProgress
<1>14. CASE Failover
  <2>1. shutdownPhase' = "none"
    BY <1>14, Zenon DEF Failover
  <2> QED BY <2>1 DEF ShutdownProgress
<1> QED BY <1>2, <1>3, <1>4, <1>5, <1>6, <1>7, <1>8, <1>9, <1>10, <1>11, <1>12, <1>13,
       <1>14 DEF Next

\* The initial state satisfies the inductive invariant.
LEMMA InitIInv == Init => IInv
<1> SUFFICES ASSUME Init PROVE IInv
  OBVIOUS
<1>1. TypeInv
  BY InitTypeInv
<1>2. Lifecycle
  BY Zenon DEF Init, NewVersionManager, Lifecycle
<1>3. ~active /\ ~versionWaitComplete
  BY Zenon DEF Init, NewVersionManager
<1>4. /\ maxCompleted = -1 /\ nextID = 0 /\ lastCompletedVersion = -1
      /\ lastVersionToFlush = -1 /\ storedFlushedVersion = -1 /\ shutdownLfv = -1
      /\ flushedEntries = [n \in Node |-> NoEntry] /\ doomed = {}
      /\ deadVersionRange = None /\ registering = NotRunning /\ shutdownPhase = "none"
  BY Zenon DEF Init, NewVersionManager
<1> QED BY <1>1, <1>2, <1>3, <1>4 DEF IInv, Ordered, DoomedPassed,
       PendingDeadRangeIsSealed, RegistersPending, RollbackIsRegistered, ShutdownProgress

\* IInv is an invariant of the version manager.
THEOREM Invariant == Spec => []IInv
<1>1. IInv /\ [Next]_vars => IInv'
  BY TypeNext, LifecycleNext, OrderedNext, DoomedPassedNext, SealedNext,
       RegistersNext,
     RollbackNext, ShutdownNext DEF IInv
<1> QED BY <1>1, InitIInv, PTL DEF Spec

\* While a dead version range is pending nothing in it completes or is flushed.
THEOREM DeadRangeSealed == Spec => []PendingDeadRangeIsSealed
<1>1. IInv => PendingDeadRangeIsSealed
  BY DEF IInv
<1> QED BY <1>1, Invariant, PTL

\* The version that nodes roll back to ends where a registered dead range begins.
THEOREM RollbackRegistered == Spec => []RollbackIsRegistered
<1>1. IInv => RollbackIsRegistered
  BY DEF IInv
<1> QED BY <1>1, Invariant, PTL

\* A Shutdown that no failure interrupts has stored all that was completed.
THEOREM ShutdownStored == Spec => []ShutdownStoresSnapshot
<1>1. IInv => ShutdownStoresSnapshot
  BY DEF IInv, ShutdownProgress, ShutdownStoresSnapshot
<1> QED BY <1>1, Invariant, PTL

\* A step that completes a version is a counted completion of the current one,
\* by an active process that has not completed it before.
LEMMA CompletesCurrent ==
  ASSUME IInv, [Next]_vars, Completes
  PROVE  /\ active /\ lastCompletedVersion' = currentVersion
         /\ currentVersion > maxCompleted
<1> USE DEF lifeVars, versionVars, flushVars, shutdownVars, failureVars
<1>1. CASE \E c \in Completer, commandID \in Command :
             VersionComplete(c, currentVersion, commandID)
  <2>1. PICK c \in Completer, commandID \in Command :
               VersionComplete(c, currentVersion, commandID)
    BY <1>1
  <2>2. active /\ currentVersion > lastCompletedVersion
    BY <2>1, SMTT(30) DEF VersionComplete, Completable, checkActive
  <2>3. lastCompletedVersion' \in {lastCompletedVersion, currentVersion}
    BY <2>1 DEF VersionComplete, doomVersion, countCompletion, completeVersion
  <2> QED BY <2>2, <2>3 DEF Completes, IInv, Ordered, TypeInv, TypeOK
<1>2. CASE UNCHANGED lastCompletedVersion
  BY <1>2 DEF Completes
<1>3. CASE lastCompletedVersion' = -1
  BY <1>3 DEF Completes
<1>4. \/ \E c \in Completer, commandID \in Command :
             VersionComplete(c, currentVersion, commandID)
      \/ UNCHANGED lastCompletedVersion
      \/ lastCompletedVersion' = -1
  <2>1. ASSUME NEW version, VersionDoomed(version) PROVE UNCHANGED lastCompletedVersion
    BY <2>1, Zenon DEF VersionDoomed, doomVersion
  <2>2. CASE checkStuckVersion
    BY <2>2, Zenon DEF checkStuckVersion, doomVersion
  <2>3. ASSUME NEW n, NEW version, NEW count, NEW clusterVersion,
               VersionFlushed(n, version, count, clusterVersion)
        PROVE  UNCHANGED lastCompletedVersion
    BY <2>3, Zenon DEF VersionFlushed
  <2>4. ASSUME NEW count, NEW clusterVersion,
               FailureDetected(count, clusterVersion) \/ FailureComplete(count, clusterVersion)
        PROVE  UNCHANGED lastCompletedVersion
    BY <2>4, Zenon DEF FailureDetected, FailureComplete
  <2>5. CASE \/ HandleClusterStateLeader \/ HandleClusterStateNotLeader \/ doActivate
             \/ storeLastFlushedVersion \/ ShutdownStart \/ ShutdownRead \/ ShutdownStore
             \/ ShutdownFinish \/ RegisterDeadVersionRange \/ failureVersionsCompleted
             \/ Failover \/ UNCHANGED vars
    BY <2>5, Zenon DEF HandleClusterStateLeader, HandleClusterStateNotLeader,
         doActivate,
         storeLastFlushedVersion, ShutdownStart, ShutdownRead, ShutdownStore,
         ShutdownFinish, RegisterDeadVersionRange, failureVersionsCompleted, Failover, vars
  <2> QED BY <2>1, <2>2, <2>3, <2>4, <2>5 DEF Next
<1> QED BY <1>1, <1>2, <1>3, <1>4, SMTT(30)

\* Versions complete at most once and in increasing order, whatever crashes.
THEOREM InOrder == Spec => CompletesInOrder
<1>1. IInv /\ [Next]_vars => [Completes => lastCompletedVersion' > maxCompleted]_vars
  BY CompletesCurrent
<1> QED BY <1>1, Invariant, PTL DEF Spec, CompletesInOrder

\* A doomed version completes only if a call of GetNextID has failed.
THEOREM DoomedDead == Spec => DoomedCompletesOnlyAfterSequenceError
<1>1. IInv /\ [Next]_vars => [DoomedCompletes => seqErrors > 0]_vars
  BY CompletesCurrent DEF DoomedCompletes, IInv, DoomedPassed, TypeInv, TypeOK
<1> QED BY <1>1, Invariant, PTL DEF Spec, DoomedCompletesOnlyAfterSequenceError

\* The sanity check of doActivate never panics.
THEOREM ActivationSane == Spec => ActivatesPastFlushed
<1>1. IInv /\ [Next]_vars => [~active /\ active' => currentVersion' > lastFlushedVersion']_vars
  <2> SUFFICES ASSUME IInv, [Next]_vars, ~active, active'
               PROVE  currentVersion' > lastFlushedVersion'
    OBVIOUS
  <2> USE DEF lifeVars, versionVars, flushVars, shutdownVars, failureVars
  <2>1. CASE doActivate
    <3>1. currentVersion' = nextID /\ lastFlushedVersion' = storedFlushedVersion
      BY <2>1, Zenon DEF doActivate, setNextCurrentVersion
    <3> QED BY <3>1 DEF IInv, Ordered, TypeInv, TypeOK
  <2>2. doActivate
    <3>1. ASSUME NEW c, NEW commandID, VersionComplete(c, currentVersion, commandID) PROVE FALSE
      BY <3>1, Zenon DEF VersionComplete
    <3>2. ASSUME NEW version, VersionDoomed(version) PROVE FALSE
      BY <3>2, Zenon DEF VersionDoomed
    <3>3. ASSUME NEW n, NEW version, NEW count, NEW clusterVersion,
                 VersionFlushed(n, version, count, clusterVersion)
          PROVE  FALSE
      BY <3>3, Zenon DEF VersionFlushed
    <3>4. ASSUME NEW count, NEW clusterVersion,
                 FailureDetected(count, clusterVersion) \/ FailureComplete(count, clusterVersion)
          PROVE  FALSE
      BY <3>4, Zenon DEF FailureDetected, FailureComplete
    <3>5. CASE \/ HandleClusterStateLeader \/ HandleClusterStateNotLeader \/ checkStuckVersion
               \/ storeLastFlushedVersion \/ ShutdownStart \/ ShutdownRead \/ ShutdownStore
               \/ ShutdownFinish \/ RegisterDeadVersionRange \/ failureVersionsCompleted
               \/ Failover \/ UNCHANGED vars
      BY <3>5, Zenon DEF HandleClusterStateLeader, HandleClusterStateNotLeader,
           checkStuckVersion, storeLastFlushedVersion, ShutdownStart, ShutdownRead,
           ShutdownStore, ShutdownFinish, RegisterDeadVersionRange,
           failureVersionsCompleted, Failover, vars
    <3> QED BY <3>1, <3>2, <3>3, <3>4, <3>5 DEF Next
  <2> QED BY <2>1, <2>2
<1> QED BY <1>1, Invariant, PTL DEF Spec, ActivatesPastFlushed

=============================================================================
