--------------------------- MODULE MCPublicMutation ---------------------------
(***************************************************************************)
(* Small instances of PublicMutation for TLC.                              *)
(***************************************************************************)
EXTENDS PublicMutation, TLC

CONSTANTS m1, m2, r1, k1, k2, k3, k4

TwoMutations == {m1, m2}
OneReader == {r1}
FourKeys == {k1, k2, k3, k4}
ThreeKeys == {k1, k2, k3}

\* One key for each operation, or a shorter list.
AllKinds == k1 :> "unpublish" @@ k2 :> "delete" @@ k3 :> "edit" @@ k4 :> "publish"
NoPublish == k1 :> "unpublish" @@ k2 :> "delete" @@ k3 :> "edit"

Symmetry == Permutations(TwoMutations)
=============================================================================
