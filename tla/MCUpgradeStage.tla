----------------------------- MODULE MCUpgradeStage ----------------------------
(* One upgrade on each of the six hosts of Scenes, with two mishaps.        *)
EXTENDS UpgradeStage
=============================================================================
