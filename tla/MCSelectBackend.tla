--------------------------- MODULE MCSelectBackend ---------------------------
(* Small instances of SelectBackend.                                       *)
EXTENDS SelectBackend

CONSTANT w1

OneWorker == {w1}
==============================================================================
