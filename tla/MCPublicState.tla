---------------------------- MODULE MCPublicState ----------------------------
(***************************************************************************)
(* A small instance of PublicState for TLC, in which only finitely many    *)
(* transitions begin, so that liveness can be checked with the rest.       *)
(***************************************************************************)
EXTENDS PublicState

CONSTANTS
    t1, t2, l1,
    MaxStarts           \* bound: how many transitions begin

TwoTransitions == {t1, t2}
OneLease == {l1}

VARIABLE started        \* how many transitions have begun
boundedVars == <<vars, started>>

Starting == {t \in Transitions : phase[t] = "idle" /\ phase'[t] = "claiming"}

BoundedInit == Init /\ started = 0
BoundedNext ==
    /\ Next
    /\ started' = started + Cardinality(Starting)
    /\ started' <= MaxStarts
BoundedSpec == BoundedInit /\ [][BoundedNext]_boundedVars /\ Fairness
=============================================================================
