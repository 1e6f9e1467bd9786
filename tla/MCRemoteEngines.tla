---------------------------- MODULE MCRemoteEngines ----------------------------
(* An instance of RemoteEngines for TLC.                                   *)
EXTENDS RemoteEngines

CONSTANTS t1
=============================================================================
