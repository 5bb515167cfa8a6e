---------------------------- MODULE MCHealthCheck ----------------------------
(* Small instances of HealthCheck.                                         *)
EXTENDS HealthCheck

CONSTANT w1

OneWorker == {w1}
==============================================================================
