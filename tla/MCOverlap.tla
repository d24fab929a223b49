----------------------------- MODULE MCOverlap -----------------------------
(* Overlap for TLC.  Of the ledger, the view keeps what a later step can ask: of each
   campaign its latest run, whether it has ended, and since which of the landed rows,
   newest first; and of the rows that landed, the newest of each campaign. *)
EXTENDS Overlap, TLC

CONSTANTS c1, c2, c3, h1, h2

Two == {c1, c2}
Three == {c1, c2, c3}
MCRank == [x \in Three |-> IF x = c1 THEN 1 ELSE IF x = c2 THEN 2 ELSE 3]
RankOfTwo == [x \in Two |-> MCRank[x]]
OneHand == {h1}
TwoHands == {h1, h2}
Symmetry == Permutations(TwoHands)

NewestOf(x) == LET mine == Landed \cap RunsOf(x) IN IF mine = {} THEN 0 ELSE Max(mine)
Recency == {<<x, y>> \in Campaigns \X Campaigns : NewestOf(x) > NewestOf(y)}
OfLedger(i) == IF i = 0 THEN None ELSE ledger[i]
Answered(x) == Finished(x) # {} /\ ledger[Max(Finished(x))].state = "PARTIAL"
LedgerView ==
    <<[x \in Campaigns |-> <<OfLedger(LastRun(x)), Answered(x), Wrote(x), NewestOf(x) # 0,
                             Landed # {} /\ Max(Landed) > LastEnd(x)>>],
      OfLedger(Max({0} \cup Landed)), Recency>>

View == <<live, mirror, scope, status,
          [x \in Campaigns |-> IF AtWork(x) THEN before[x] ELSE "none"],
          [x \in Campaigns |-> [work[x] EXCEPT !.row = 0]], LedgerView, event, counts>>
=============================================================================
