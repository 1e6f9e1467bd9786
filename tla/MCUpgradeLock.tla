----------------------------- MODULE MCUpgradeLock -----------------------------
(* An instance of UpgradeLock for TLC.                                     *)
EXTENDS UpgradeLock

CONSTANTS p1
=============================================================================
