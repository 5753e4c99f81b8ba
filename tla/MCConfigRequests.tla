-------------------------- MODULE MCConfigRequests --------------------------
(* Small instances of ConfigRequests for TLC.                              *)
EXTENDS ConfigRequests

CONSTANTS v1, v2

EveryFault == DaemonFaults
NoFaults   == {}
=============================================================================
