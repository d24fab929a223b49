----------------------------- MODULE MCBaselines -----------------------------
(* Three prices, each half the one before; the lowest cannot be halved.  The view
   forgets what no later step or property reads: how a recapture that is over got
   there, and what a run that has written was asked. *)
EXTENDS Baselines, TLC

CONSTANTS r1, r2

MCPrices == {1, 2, 4}
MCSaleOf == [p \in MCPrices |-> IF p = 1 THEN 1 ELSE p \div 2]
OneRecapture == {r1}
TwoRecaptures == {r1, r2}
Symmetry == Permutations(TwoRecaptures)

RunLeft == CASE run.stage = "claimed"   -> run
             [] run.stage = "finishing" -> [NoRun EXCEPT !.stage = run.stage, !.kind = run.kind,
                                            !.whole = run.whole, !.failed = run.failed]
             [] OTHER                   -> [run EXCEPT !.typed = FALSE]
IsOver(r) == at[r] \in {"ended", "dead"} /\ row[r].state # "open"
Left(r) == IF IsOver(r) THEN <<SaysNothing(r) /\ wrote[r]>> ELSE <<at[r], over[r], took[r], row[r], wrote[r]>>
View == <<live, mirror, base, status, RunLeft, stint, took[Sync], [r \in Recaptures |-> Left(r)],
          merchant, sold, edits, runs, troubles>>
=============================================================================
