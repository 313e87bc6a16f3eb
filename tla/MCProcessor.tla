----------------------------- MODULE MCProcessor -----------------------------
EXTENDS Processor, TLC
\* The first batch has rows for every destination, the others for one.
MCRows == [b \in Batch |-> IF b = 1 THEN Dest ELSE {CHOOSE d \in Dest : TRUE}]
\* Sources are alike.
SourceSymmetry == Permutations(Source)
=============================================================================
