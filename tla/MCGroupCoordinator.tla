------------------------- MODULE MCGroupCoordinator -------------------------
(***************************************************************************)
(* Instances of GroupCoordinator for TLC.                                  *)
(***************************************************************************)
EXTENDS GroupCoordinator

CONSTANTS a, b, c

TwoMembers == {a, b}
ThreeMembers == {a, b, c}
OneList == {<<"p">>}
TwoLists == {<<"p", "q">>, <<"q">>}
ThreeLists == {<<"p", "q">>, <<"q", "p">>, <<"q">>}

=============================================================================
