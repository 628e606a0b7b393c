----------------------- MODULE MCPublisherInfoDatabase -----------------------
(***************************************************************************)
(* Two callers, two publishers, one period and one media key; new files,   *)
(* files of the current version and files of a later one.                  *)
(***************************************************************************)
EXTENDS PublisherInfoDatabase, TLC

CONSTANTS c1, c2, p1, p2, t1, m1
TwoCallers == {c1, c2}
Publishers == {p1, p2}
Symmetry == Permutations(TwoCallers) \cup Permutations(Publishers)
AnyVersion == {0, 1, 2}
=============================================================================
