-------------------------- MODULE MCVersionManager --------------------------
(* Instances of VersionManager for TLC. *)
EXTENDS VersionManager, TLC

CONSTANTS n1, n2, c1, c2, c3

MCNode == {n1, n2}
MCCompleter == {c1, c2}
MCThreeCompleters == {c1, c2, c3}
MCCommand == {0, 1}
MCOneCommand == {0}
MCOneEach == {1}
MCSkippedIDs == {0, 2}
MCNoneSkipped == {0}

(* Lost ids, failed calls, crashes and node failures share a budget.        *)
MCFaults == seqErrors + storeErrors + failovers + (IF failureClusterVersion > 0 THEN 1 ELSE 0)
MCSpec == Init /\ [][Next /\ MCFaults' <= 1]_vars

Symmetric == Permutations(MCNode) \cup Permutations(MCCompleter)
=============================================================================
