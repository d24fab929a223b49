---------------------------- MODULE MCEnrollment ----------------------------
(* The instance TLC checks. *)
EXTENDS Enrollment, TLC

CONSTANTS v1, v2, w1, w2

MCVariants == {v1, v2}
MCWorkers  == {w1, w2}
=============================================================================
