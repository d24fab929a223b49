--------------------------- MODULE MirrorVersions ---------------------------
(* Which price the mirror shows, when everything that writes it is late.

   One variant of one product.  Shopify stamps a product to the second
   (`updatedAt`) and sends a webhook for every change; webhooks arrive in any
   order, and a worker that died is given its last one again.  A catalogue sync
   writes a page some time after it read it.  A run writes a price, records the
   answer, and settles the mirror from its ledger.  The nightly audit and a
   revert's own check read a price and put it in the mirror.

   The mirror's row carries a version, the stamp it was written at, and a time
   of its own, `syncedAt`.  Time is counted in ticks, PerSecond to the second; a
   stamp is the tick its second began.  The two clocks, Shopify's and the app's,
   are taken to agree, an answer to take longer than a tick, and a sync not to
   begin in the very tick in which a price is said to be unknown.
   "unknown" is the mirror's null: the app has not looked. *)
EXTENDS Integers, MirrorTables

CONSTANTS
    Prices,      \* "base" and "sale" are the runs'; the others are only ever somebody's edit
    PerSecond,   \* ticks to a second
    Weak,        \* which of the gaps below can happen
    MaxTime,     \* bounds for TLC, none of them in the code: ticks,
    MaxRuns,     \* runs,
    MaxEdits     \* and edits

(* "check": something else writes the mirror between a webhook's version check
   and its two updates.  "heal": the audit, or a revert's check, which carry
   no version, write a price beside an older read or delivery that is still out,
   or after another writer came by.  "echo": somebody sets by hand
   a price a run recorded an intent for in the last fifteen minutes.  "second":
   an edit falls in the same second as an earlier change of the product, or after
   the mirror said in that second that it does not know; or a write whose answer
   is lost, or whose plan did not know the price it replaces, falls in the same
   second as a change before it.
   "unknown": something else writes the mirror between the two statements that
   say a price is unknown. *)
Gaps == {"check", "heal", "echo", "second", "unknown"}

ASSUME PricesAssumption == {"base", "sale"} \subseteq Prices /\ Prices \cap {"unknown", "gone"} = {}
ASSUME WeakAssumption == Weak \subseteq Gaps
ASSUME BoundsAssumption == /\ PerSecond \in Nat \ {0} /\ MaxTime \in Nat
                           /\ MaxRuns \in Nat /\ MaxEdits \in Nat

VARIABLES
    now,       \* the tick
    updated,   \* the product's updatedAt
    wrote,     \* the tick of the last write by a run, -1 before the first
    syncedAt,  \* variant_index.syncedAt
    intents,   \* prices with a write intent that has not expired
    ledger,    \* landed rows: the price replaced, the price written, the stamp
    runs,      \* how many runs there have been
    edits

shopify == <<live, updated, sent, deletion, wrote>>
mirror  == <<index, surface, version, syncedAt, deleted>>
books   == <<intents, ledger, run, runs>>
readers == <<hand, sync, heal>>
vars    == <<now, live, updated, sent, deletion, wrote, index, surface, version,
             syncedAt, deleted, intents, ledger, run, runs, hand, sync, heal, edits>>

Ticks  == 0 .. MaxTime
Shown  == Prices \cup {"unknown"}
Second(t) == t - (t % PerSecond)
Stamps == {Second(t) : t \in Ticks}

Reads  == [stamp : Stamps, price : Prices]
NoRead == [stamp |-> 0, price |-> "base"]
Rows   == [before : Shown, want : {"base", "sale"}, stamp : Stamps]
NoRow  == [before |-> "base", want |-> "base", stamp |-> 0]

Init ==
    /\ now = 0
    /\ live = "base" /\ updated = 0 /\ sent = {} /\ deletion = "none"
    /\ wrote = -1
    /\ index = "base" /\ surface = "base" /\ version = 0 /\ syncedAt = 0 /\ deleted = FALSE
    /\ intents = {} /\ ledger = {}
    /\ run = [stage |-> "none", row |-> NoRow] /\ runs = 0
    /\ hand = [stage |-> "none", read |-> NoRead]
    /\ sync = [stage |-> "none", at |-> 0, read |-> NoRead]
    /\ heal = [stage |-> "none", price |-> "base"]
    /\ edits = 0

Tick == /\ now < MaxTime
        /\ now' = now + 1
        /\ UNCHANGED <<shopify, mirror, books, readers, edits>>

-----------------------------------------------------------------------------
(* Shopify. *)

Changed(price) ==
    /\ live # "gone"
    /\ live' = price
    /\ updated' = Second(now)
    /\ sent' = sent \cup {[stamp |-> Second(now), price |-> price]}

(* The merchant, another app, an import in the admin. *)
Edit(price) ==
    /\ edits < MaxEdits /\ price # live
    /\ "echo" \in Weak \/ price \notin intents
    /\ "second" \in Weak \/ (updated # Second(now) /\ ~(index = "unknown" /\ Second(syncedAt) = Second(now)))
    /\ Changed(price)
    /\ edits' = edits + 1
    /\ UNCHANGED <<now, deletion, wrote, mirror, books, readers>>

(* Another variant's price, a tag, an order: the product moves and this price stays. *)
Touch ==
    /\ edits < MaxEdits
    /\ Changed(live)
    /\ edits' = edits + 1
    /\ UNCHANGED <<now, deletion, wrote, mirror, books, readers>>

Delete ==
    /\ edits < MaxEdits
    /\ live # "gone"
    /\ live' = "gone" /\ updated' = now
    /\ deletion' = "sent"
    /\ edits' = edits + 1
    /\ UNCHANGED <<now, sent, wrote, mirror, books, readers>>

-----------------------------------------------------------------------------
(* The rule.  HeldIsNewer: the mirror holds a newer version of the variant than
   `read`, which can describe the product no earlier than `taken`. *)

(* Mutant, as before #1107: the version alone. *)
HeldByVersion(read, taken) ==
    \/ version > read.stamp
    \/ /\ version = read.stamp /\ read.price # index
       /\ \E c \in ledger : c.stamp = read.stamp /\ c.before = read.price /\ c.want # read.price

HeldIsNewer(read, taken) ==
    \/ version > read.stamp
    \/ index = "unknown" /\ syncedAt > taken
    \/ /\ version = read.stamp /\ read.price # index
       /\ \E c \in ledger : c.stamp = read.stamp /\ c.before = read.price /\ c.want # read.price

-----------------------------------------------------------------------------
(* The worker's deliveries. *)

(* Nobody has read something it is about to write the mirror from, or the gap is open. *)
NoneChecked == "check" \in Weak \/ hand.stage = "none"
NoneHealing == "heal" \in Weak \/ heal.stage = "none"
NoneUnsaid  == "unknown" \in Weak \/ run.stage # "unsaid"
NotChecked  == NoneChecked /\ NoneHealing

Mirrored(price) == /\ index' = price /\ surface' = price
                   /\ syncedAt' = now

(* A price with an intent, on a delivery that shows nothing else the mirror has
   not: dropped before any other work. *)
EchoDropped(read) ==
    /\ read \in sent /\ hand.stage = "none"
    /\ read.price \in intents /\ ~deleted
    /\ sent' = sent \ {read}
    /\ UNCHANGED <<now, live, updated, deletion, wrote, mirror, books, readers, edits>>

(* Another delivery for the product that waits beside it is newer. *)
Superseded(read) ==
    /\ read \in sent
    /\ deletion = "sent" \/ \E other \in sent : other.stamp > read.stamp
    /\ sent' = sent \ {read}
    /\ UNCHANGED <<now, live, updated, deletion, wrote, mirror, books, readers, edits>>

Stale(read) ==
    /\ read \in sent /\ hand.stage = "none"
    /\ HeldIsNewer(read, read.stamp)
    /\ sent' = sent \ {read}
    /\ UNCHANGED <<now, live, updated, deletion, wrote, mirror, books, readers, edits>>

(* newerInMirror has said no; the worker may die before the delivery is settled
   and is then given it again. *)
Take(read) ==
    /\ read \in sent /\ hand.stage = "none"
    /\ ~HeldIsNewer(read, read.stamp)
    /\ NoneUnsaid
    /\ hand' = [stage |-> "checked", read |-> read]
    /\ sent' \in {sent, sent \ {read}}
    /\ UNCHANGED <<now, live, updated, deletion, wrote, mirror, books, sync, heal, edits>>

WebhookIndex ==
    /\ hand.stage = "checked" /\ NoneUnsaid
    /\ index' = hand.read.price
    /\ version' = hand.read.stamp
    /\ syncedAt' = now
    /\ deleted' = FALSE
    /\ hand' = [hand EXCEPT !.stage = "indexed"]
    /\ UNCHANGED <<now, shopify, surface, books, sync, heal, edits>>

WebhookSurface ==
    /\ hand.stage = "indexed" /\ NoneUnsaid
    /\ surface' = hand.read.price
    /\ hand' = [hand EXCEPT !.stage = "none"]
    /\ UNCHANGED <<now, shopify, index, version, syncedAt, deleted, books, sync, heal, edits>>

(* Mutant, as before #730: a tombstone without a version. *)
TombstoneUnstamped ==
    /\ deletion = "sent" /\ hand.stage = "none" /\ now > updated
    /\ deletion' = "handled"
    /\ deleted' = TRUE
    /\ UNCHANGED <<now, live, updated, sent, wrote, index, surface, version, syncedAt,
                   books, readers, edits>>

(* A delete carries no stamp: the tombstone is stamped with the time it was handled. *)
Tombstone ==
    /\ deletion = "sent" /\ hand.stage = "none" /\ now > updated
    /\ deletion' = "handled"
    /\ deleted' = TRUE
    /\ version' = now
    /\ UNCHANGED <<now, live, updated, sent, wrote, index, surface, syncedAt,
                   books, readers, edits>>

-----------------------------------------------------------------------------
(* The catalogue syncs, and the two readers that carry no version. *)


SyncBegin ==
    /\ sync.stage = "none"
    /\ sync' = [stage |-> "begun", at |-> now, read |-> NoRead]
    /\ UNCHANGED <<now, shopify, mirror, books, hand, heal, edits>>

SyncRead ==
    /\ sync.stage = "begun"
    /\ sync' = IF live = "gone" THEN [sync EXCEPT !.stage = "none"]
               ELSE [sync EXCEPT !.stage = "read", !.read = [stamp |-> updated, price |-> live]]
    /\ UNCHANGED <<now, shopify, mirror, books, hand, heal, edits>>

(* writeCatalogRows: the rule is the update's own condition, both rows in one statement. *)
SyncWrite ==
    /\ sync.stage = "read" /\ NotChecked /\ NoneUnsaid
    /\ \/ HeldIsNewer(sync.read, sync.at) /\ UNCHANGED mirror
       \/ /\ ~HeldIsNewer(sync.read, sync.at)
          /\ Mirrored(sync.read.price)
          /\ version' = sync.read.stamp /\ deleted' = FALSE
    /\ sync' = [sync EXCEPT !.stage = "none"]
    /\ UNCHANGED <<now, shopify, books, hand, heal, edits>>

(* The audit samples rows that are not tombstoned; a revert asks about prices it
   is about to skip. *)
HealRead ==
    /\ heal.stage = "none" /\ ~deleted /\ live # "gone"
    /\ "heal" \in Weak \/ (sync.stage = "none" /\ \A read \in sent : read.price = live)
    /\ heal' = [stage |-> "read", price |-> live]
    /\ UNCHANGED <<now, shopify, mirror, books, hand, sync, edits>>

HealWrite ==
    /\ heal.stage = "read" /\ NoneChecked /\ NoneUnsaid
    /\ \/ heal.price = index /\ UNCHANGED mirror
       \/ Mirrored(heal.price) /\ UNCHANGED <<version, deleted>>
    /\ heal' = [heal EXCEPT !.stage = "none"]
    /\ UNCHANGED <<now, shopify, books, hand, sync, edits>>

-----------------------------------------------------------------------------
(* Runs, one after another. *)

(* A price the mirror already shows is not written; intents come before the first price. *)
Plan(want) ==
    /\ run.stage = "none" /\ runs < MaxRuns /\ ~deleted
    /\ surface # want
    /\ intents' = intents \cup {want}
    /\ run' = [stage |-> "planned", row |-> [before |-> surface, want |-> want, stamp |-> 0]]
    /\ runs' = runs + 1
    /\ UNCHANGED <<now, shopify, mirror, ledger, readers, edits>>

(* The price lands and Shopify's answer says so, with the product's stamp... *)
Lands ==
    /\ run.stage = "planned"
    /\ Changed(run.row.want)
    /\ wrote' = now
    /\ \E stage \in {"landed", "lost"} :
          /\ \/ "second" \in Weak \/ updated # Second(now)
             \/ stage = "landed" /\ run.row.before = live
          /\ run' = [stage |-> stage, row |-> [run.row EXCEPT !.stamp = Second(now)]]
    /\ UNCHANGED <<now, deletion, mirror, intents, ledger, runs, readers, edits>>

(* ...or nobody heard it; or it did not land and nobody can say so... *)
Fails ==
    /\ run.stage = "planned"
    /\ wrote' = now
    /\ run' = [run EXCEPT !.stage = "lost"]
    /\ UNCHANGED <<now, live, updated, sent, deletion, mirror, intents, ledger, runs,
                   readers, edits>>

(* ...or the variant is gone, and the row says skipped. *)
Skips ==
    /\ run.stage = "planned" /\ live = "gone"
    /\ run' = [run EXCEPT !.stage = "none"]
    /\ UNCHANGED <<now, shopify, mirror, intents, ledger, runs, readers, edits>>

Record ==
    /\ run.stage = "landed"
    /\ ledger' = ledger \cup {run.row}
    /\ run' = [run EXCEPT !.stage = "recorded"]
    /\ UNCHANGED <<now, shopify, mirror, intents, runs, readers, edits>>

NotNewer == version <= run.row.stamp

(* settleMirror: the landed price and its version, unless the mirror has a later one; *)
SettleIndex ==
    /\ run.stage = "recorded" /\ NotChecked /\ now > wrote
    /\ \/ NotNewer /\ index' = run.row.want /\ version' = run.row.stamp /\ syncedAt' = now
       \/ ~NotNewer /\ UNCHANGED <<index, version, syncedAt>>
    /\ run' = [run EXCEPT !.stage = "stamped"]
    /\ UNCHANGED <<now, shopify, surface, deleted, intents, ledger, runs, readers, edits>>

(* then the surface row, by the same condition; *)
SettleSurface ==
    /\ run.stage = "stamped" /\ NotChecked
    /\ surface' = IF NotNewer THEN run.row.want ELSE surface
    /\ run' = [run EXCEPT !.stage = "none"]
    /\ UNCHANGED <<now, shopify, index, version, syncedAt, deleted, intents, ledger, runs, readers, edits>>

(* a price nobody can vouch for is unknown, on both, and the version stays. *)
UnknownSurface ==
    /\ run.stage = "lost" /\ NotChecked /\ now > wrote
    /\ surface' = "unknown"
    /\ run' = [run EXCEPT !.stage = "unsaid"]
    /\ UNCHANGED <<now, shopify, index, version, syncedAt, deleted, intents, ledger, runs, readers, edits>>

UnknownIndex ==
    /\ run.stage = "unsaid" /\ NotChecked
    /\ sync.stage # "none" => now > sync.at
    /\ index' = "unknown" /\ syncedAt' = now
    /\ run' = [run EXCEPT !.stage = "none"]
    /\ UNCHANGED <<now, shopify, surface, version, deleted, intents, ledger, runs, readers, edits>>

(* Fifteen minutes later. *)
Expire ==
    /\ run.stage = "none" /\ intents # {}
    /\ intents' = {}
    /\ UNCHANGED <<now, shopify, mirror, ledger, run, runs, readers, edits>>

-----------------------------------------------------------------------------
Delivery(read) == EchoDropped(read) \/ Superseded(read) \/ Stale(read) \/ Take(read)

Drain == /\ NoneHealing
         /\ \/ \E read \in sent : Delivery(read)
            \/ WebhookIndex \/ WebhookSurface \/ Tombstone

Sync == SyncBegin \/ SyncRead \/ SyncWrite

Heal == HealRead \/ HealWrite

Run == \/ \E want \in {"base", "sale"} : Plan(want)
       \/ Lands \/ Fails \/ Skips \/ Record
       \/ SettleIndex \/ SettleSurface \/ UnknownSurface \/ UnknownIndex \/ Expire

Next == \/ Tick \/ Touch \/ Delete \/ (\E price \in Prices : Edit(price))
        \/ Drain \/ Sync \/ Heal \/ Run

Spec == Init /\ [][Next]_vars

-----------------------------------------------------------------------------
(* The types of every variable. *)
TypeOK ==
    /\ now \in Ticks
    /\ live \in Prices \cup {"gone"}
    /\ updated \in Ticks
    /\ sent \subseteq Reads
    /\ deletion \in {"none", "sent", "handled"}
    /\ wrote \in Ticks \cup {-1}
    /\ index \in Shown /\ surface \in Shown
    /\ version \in Ticks /\ syncedAt \in Ticks /\ deleted \in BOOLEAN
    /\ intents \subseteq {"base", "sale"}
    /\ ledger \subseteq Rows
    /\ run \in [stage : {"none", "planned", "landed", "lost", "recorded", "stamped", "unsaid"},
                row : Rows]
    /\ runs \in 0 .. MaxRuns
    /\ hand \in [stage : {"none", "checked", "indexed"}, read : Reads]
    /\ sync \in [stage : {"none", "begun", "read"}, at : Ticks, read : Reads]
    /\ heal \in [stage : {"none", "read"}, price : Prices]
    /\ edits \in 0 .. MaxEdits
=============================================================================
