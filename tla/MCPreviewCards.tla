----------------------------- MODULE MCPreviewCards -----------------------------
(***************************************************************************)
(* A small instance of PreviewCards for TLC: a card of two faces at one    *)
(* slug, one at another, one stream of the public page, and two changes.   *)
(***************************************************************************)
EXTENDS PreviewCards

CONSTANTS s1

OneStream == {s1}
ThreeVersions == {<<"a", 1>>, <<"a", 2>>, <<"b", 1>>}

AtRest ==
    /\ sweep.step = "done" /\ work = <<>> /\ worker = Idle
    /\ ~quiet /\ timers = 0
    /\ \A b \in Priorities : build[b] = NoBuild

\* Bound: the first change meets the cards at work, in every way.  The second
\* is for the streams: it finds the cards current and at rest, and keeps what
\* the card shows or ends the page.  Only changes are bounded, no fair step.
SecondChangeAtRest ==
    revision' = 3 /\ revision = 2 =>
        AtRest /\ ~Outdated /\ page' \in {page, Offline}
=============================================================================
