---------------------------- MODULE MirrorTables ----------------------------
(* What a reader of the mirror is promised: its two tables, the price they are a copy
   of, and whatever may still be written to them.  MirrorVersions has who writes what,
   and when. *)
EXTENDS Integers

VARIABLES
    live,      \* the price Shopify shows, "gone" once the product is deleted
    sent,      \* products/update deliveries not yet handled: what the product looked like
    deletion,  \* the products/delete delivery: "none", "sent" or "handled"
    index,     \* variant_index.price
    surface,   \* price_surface_entries.livePrice, which plans and drift read
    version,   \* variant_index.remoteUpdatedAt
    deleted,   \* variant_index.deletedAt is set
    run,       \* the run at work: its stage and its row
    hand,      \* the delivery the worker has checked and not yet written
    sync,      \* the catalogue sync
    heal       \* the audit, or a revert's check

Quiet == /\ sent = {} /\ deletion # "sent" /\ hand.stage = "none"
         /\ run.stage = "none" /\ sync.stage = "none" /\ heal.stage = "none"

(* However late, reordered or repeated its deliveries and reads were, once every
   one has been handled the mirror shows what Shopify shows or says it does not
   know: in both its tables, and a deleted product is a tombstone. *)
MirrorFollows ==
    Quiet => IF live = "gone" THEN deleted
             ELSE ~deleted /\ {index, surface} \subseteq {live, "unknown"}

(* No step takes the mirror's row back to an older version, and a deletion once handled
   is not undone by a delivery or a read from before it. *)
NothingIsUndone ==
    [][version' >= version /\ (deletion = "handled" => deleted')]_<<version, deleted>>
=============================================================================
