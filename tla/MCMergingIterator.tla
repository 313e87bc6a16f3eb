-------------------------- MODULE MCMergingIterator -------------------------
(* Instances of MergingIterator for TLC.                                   *)
EXTENDS MergingIterator

\* Three versions of one key, after another one with a single version.
ThreeVersions == {<<1, 3>>, <<2, 1>>, <<2, 2>>, <<2, 3>>}
\* A version of each of two keys.
TwoKeys == {<<1, 1>>, <<2, 1>>}
=============================================================================
