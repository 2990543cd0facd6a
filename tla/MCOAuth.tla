-------------------------------- MODULE MCOAuth --------------------------------
(***************************************************************************)
(* A small instance of OAuth for TLC.                                      *)
(***************************************************************************)
EXTENDS OAuth, TLC

CONSTANTS x1, x2, g1, g2, c1, c2, i1, i2, i3

TwoClients == {x1, x2}
TwoGrants == {g1, g2}
TwoCodes == {c1, c2}
ThreeIssues == {i1, i2, i3}

Symmetry == Permutations(TwoClients) \cup Permutations(TwoGrants)
                \cup Permutations(TwoCodes) \cup Permutations(ThreeIssues)
=============================================================================
