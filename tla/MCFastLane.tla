------------------------------ MODULE MCFastLane ------------------------------
(* An instance of FastLane for TLC.                                        *)
EXTENDS FastLane

CONSTANTS c1
=============================================================================
