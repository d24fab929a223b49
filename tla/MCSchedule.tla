----------------------------- MODULE MCSchedule -----------------------------
(* Schedule for TLC. *)
EXTENDS Schedule

CONSTANTS w1, w2

TwoWorkers == {w1, w2}
(* A window whose buffer is capped at half of it, and the same moved later. *)
TwoWindows == {[start |-> 1, end |-> 3, buffer |-> 2], [start |-> 2, end |-> 4, buffer |-> 0]}
=============================================================================
