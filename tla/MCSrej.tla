------------------------------- MODULE MCSrej -------------------------------
(***************************************************************************)
(* Instances of Srej for TLC.  The bounds of each run are in its cfg.      *)
(***************************************************************************)
EXTENDS SrejLocal

BothOutcomes == {TRUE, FALSE}
CanOpen == {TRUE}
=============================================================================
