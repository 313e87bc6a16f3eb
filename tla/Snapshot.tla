------------------------------ MODULE Snapshot ------------------------------
(* What barriers promise (the comment at the head of proc/processor.go): a   *)
(* completed version is a consistent snapshot.  Batches are ingested into    *)
(* the version that is open at their processor, their effects are written    *)
(* later, and a version completes only once everything that was ingested     *)
(* into it or into an earlier version has been written, and so never         *)
(* changes again.                                                            *)
EXTENDS Integers

CONSTANTS Batch

VARIABLES
    version,     \* version[b]: the version batch b was ingested into, -1 before
    written,     \* the batches whose effects are all in the store
    completed    \* the last completed version

snapshotVars == <<version, written, completed>>

Init == version = [b \in Batch |-> -1] /\ written = {} /\ completed = -1

\* A batch goes into a version that has not completed.
Ingest(b) ==
    /\ version[b] = -1
    /\ version'[b] > completed
    /\ version' = [version EXCEPT ![b] = version'[b]]
    /\ UNCHANGED <<written, completed>>

\* Batches of versions that have not completed are written.
Write ==
    /\ written \subseteq written'
    /\ \A b \in written' \ written : version[b] > completed
    /\ UNCHANGED <<version, completed>>

\* Some version completes, with all that was ingested up to it.
Complete ==
    /\ completed' > completed
    /\ \A b \in Batch : version[b] # -1 /\ version[b] <= completed' => b \in written
    /\ UNCHANGED <<version, written>>

Next == (\E b \in Batch : Ingest(b)) \/ Write \/ Complete
Spec == Init /\ [][Next]_snapshotVars
=============================================================================
