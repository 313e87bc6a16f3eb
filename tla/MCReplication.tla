--------------------------- MODULE MCReplication ---------------------------
(* Instances of Replication for TLC. *)
EXTENDS Replication, TLC

CONSTANTS n1, n2, n3

TwoNodes == {n1, n2}
ThreeNodes == {n1, n2, n3}

Symmetric == Permutations(Node)

\* All nodes are up and none restarts, or one is down and may start later; then
\* another one crashes, or a connection breaks.
MCInit ==
  \E group \in SUBSET Node, first \in Node :
    /\ first \in group
    /\ \/ group = Node /\ faults = [NoFaults EXCEPT !.restart = MaxRestarts]
       \/ /\ Cardinality(group) = 2
          /\ faults \in {[NoFaults EXCEPT !.crash = MaxCrashes - 1, !.break = MaxBreaks],
                         [NoFaults EXCEPT !.crash = MaxCrashes]}
    /\ FormedGroup(group, first)

MCSpec == MCInit /\ [][Next]_vars

=============================================================================
