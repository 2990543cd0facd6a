------------------------------ MODULE MCAuthMail ------------------------------
(***************************************************************************)
(* Small instances of AuthMail for TLC.                                    *)
(***************************************************************************)
EXTENDS AuthMail, TLC

CONSTANTS t1, t2, n1, w1, w2

OneToken == {t1}
TwoTokens == {t1, t2}
OneNotice == {n1}
OneWorker == {w1}
TwoWorkers == {w1, w2}

\* One worker misses a key, as the old process does while a new one with a new
\* key takes over.
AllReadable == {}
FirstCannotReadNotice == {<<w1, n1>>}

WorkerSymmetry == Permutations(TwoWorkers)
=============================================================================
