---------------------------- MODULE MCMeterIngest ----------------------------
(* Small instances of MeterIngest for TLC.                                  *)
EXTENDS MeterIngest

EveryFault == {"insert", "commit", "crash"}
=============================================================================
