------------------------------ MODULE MCSessions ------------------------------
(***************************************************************************)
(* A small instance of Sessions for TLC: three generations of one sign-in. *)
(***************************************************************************)
EXTENDS Sessions, TLC

CONSTANTS s1, s2, s3, q1, q2

ThreeRows == {s1, s2, s3}
TwoRequests == {q1, q2}

Symmetry == Permutations(ThreeRows) \cup Permutations(TwoRequests)
=============================================================================
