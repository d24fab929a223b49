------------------------------ MODULE MCLedger ------------------------------
(* Ledger for TLC.  The variants of one campaign are interchangeable, and two
   states are told apart only by what a later step can read: Shopify's outcome
   of a row while the ledger waits for it, the status a claim came from while
   its run is under way. *)
EXTENDS Ledger, TLC

Symmetry == Permutations(Variants)

Awaited == [r \in Runs |-> [v \in Variants |->
              IF op[r][v] = "queued" \/ row[r][v] = "WRITING" THEN op[r][v] ELSE "none"]]

(* A row of a run that is over, settled and in nobody's hands matters only by
   having landed, which a later revert takes back. *)
Over(r) == r < cur /\ r \in settled /\ r # found /\ reap[r] = "idle" /\ ~InFlight(r) /\ ~Applying(r)
Rows == [r \in Runs |-> IF Over(r) THEN {v \in Variants : row[r][v] = "VERIFIED"} ELSE row[r]]

Resting == pc \in {"idle", "settled", "asked"}

View == <<live, ver, mirror, mver, campaign, IF Resting THEN campaign ELSE before,
          cur, kind, state, Rows, Awaited, {r \in rec : InFlight(r)}, pc,
          IF Resting THEN "none" ELSE got, found, early, reap, settled, edits, crashes>>
=============================================================================
