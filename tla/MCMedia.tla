-------------------------------- MODULE MCMedia --------------------------------
(***************************************************************************)
(* A small instance of Media for TLC.                                      *)
(***************************************************************************)
EXTENDS Media

CONSTANTS k1, k2, w1, w2

TwoKeys == {k1, k2}
TwoWorkers == {w1, w2}
=============================================================================
