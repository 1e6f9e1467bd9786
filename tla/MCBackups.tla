------------------------------- MODULE MCBackups -------------------------------
(* An instance of Backups for TLC.                                         *)
EXTENDS Backups

CONSTANTS b1
=============================================================================
