---------------------------- MODULE MCRenderQueue ----------------------------
(***************************************************************************)
(* Two calls of Queue.Render for TLC.                                      *)
(***************************************************************************)
EXTENDS RenderQueue

CONSTANTS r1, r2

One == {r1}
Two == {r1, r2}
=============================================================================
