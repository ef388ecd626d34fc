--------------------------- MODULE MCRailFailover ---------------------------
(***************************************************************************)
(* Instances of RailFailover for TLC.                                      *)
(***************************************************************************)
EXTENDS RailFailover

CONSTANTS r1, r2

TwoRails == <<r1, r2>>
=============================================================================
