---------------------------- MODULE MCDriftHold ----------------------------
(* DriftHold for TLC. *)
EXTENDS DriftHold, TLC

CONSTANTS v1, v2, a1, a2, e1, e2

OneVariant == {v1}
TwoVariants == {v1, v2}
OneAnswerer == {a1}
TwoAnswerers == {a1, a2}
TwoEdits == {e1, e2}
SymmetricEdits == Permutations(TwoEdits)
Symmetric == SymmetricEdits \cup Permutations(TwoAnswerers)

(* What a webhook or a run that is done had in hand matters to nothing. *)
View == <<campaign, live, sent, mirror, intents, baseline, queue, answer,
          IF hook.stage = "none" THEN "none" ELSE hook,
          IF run.stage = "none" THEN "none" ELSE run,
          excused, again, change, counts>>
=============================================================================
