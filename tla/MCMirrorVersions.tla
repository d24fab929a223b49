------------------------- MODULE MCMirrorVersions -------------------------
(* MirrorVersions for TLC: what a process read is told apart only while it can
   still be written. *)
EXTENDS MirrorVersions

AllPrices == {"base", "sale", "edit"}

View == <<now, live, updated, sent, deletion, wrote = now,
          index, surface, version, IF index = "unknown" THEN syncedAt ELSE 0,
          deleted, intents, ledger, runs, edits,
          IF run.stage = "none" THEN "none" ELSE run,
          IF hand.stage = "none" THEN "none" ELSE hand,
          IF sync.stage = "none" THEN "none" ELSE sync,
          IF heal.stage = "none" THEN "none" ELSE heal>>
=============================================================================
