------------------------------ MODULE Baselines ------------------------------
(* The reference price a sale is computed from, and who may replace it.

   A baseline is a variant's normal price.  A campaign's apply discounts it and
   its revert puts it back, so a sale price that becomes a baseline is put back
   as the normal price and discounted again by the next apply.  Baselines are
   recorded by the catalogue sync, where there is none; by an import or a kept
   edit; and by a recapture, which records what the mirror shows, over a running
   sale too if the merchant was shown it and typed the phrase.

   A recapture runs in the request, or in the worker behind a row of its own, or
   for Flow without a row.  It looks at the running campaigns, reads the mirror,
   reads wholesale ladders from Shopify, and records in one transaction; a row
   that is silent for ten minutes is taken for a dead process's.

   One variant, one campaign, one price.  Runs follow one another, as in
   CampaignRuns; what a run leaves behind when it stops is Ledger's, and here
   only what a recapture can see of it.  A hold (HELD) is in Running: for the
   prices it is like ACTIVE. *)
EXTENDS Integers, FiniteSets

CONSTANTS
    Prices,
    SaleOf,      \* the campaign's rule
    Recaptures,
    Weak,        \* which of the gaps in Gaps can happen
    MaxEdits,    \* bounds for TLC: edits and imports,
    MaxRuns,     \* runs of the campaign,
    MaxTroubles  \* and everything that fails, together

(* "looked": a campaign goes live after a recapture's look and before its next
   statement.  "unrecorded": a sale is recaptured whose write the ledger does not have, or
   one read then is recorded while the next is on its way.
   "putback": an edit is put back in a sale that has been recaptured.  "died": a
   recapture's process dies after its transaction and before its row says so.
   "silent": a process that works is taken for dead. *)
Gaps == {"looked", "unrecorded", "putback", "died", "silent"}

ASSUME PricesAssumption == Prices \subseteq Nat \ {0} /\ SaleOf \in [Prices -> Prices]
ASSUME WeakAssumption   == Weak \subseteq Gaps
ASSUME NamesAssumption  == "sync" \notin Recaptures
ASSUME BoundsAssumption == MaxEdits \in Nat /\ MaxRuns \in Nat /\ MaxTroubles \in Nat

VARIABLES
    live,      \* the price Shopify shows
    mirror,    \* the price in price_surface_entries, 0 for null
    base,      \* the current baseline
    status,    \* Campaign.status
    run,       \* the run in hand
    stint,     \* what the ledger has of the campaign's writes since it last reverted
    at,        \* how far each recapture's process is
    over,      \* whether it was confirmed over the campaign
    took,      \* what a recapture, or the sync, holds to record
    row,       \* the row in baseline_recaptures
    wrote,     \* history: whether a recapture recorded a baseline,
    merchant,  \* the prices the merchant set, or agreed to record,
    sold,      \* and those the campaign put up since the sale began
    edits, runs, troubles

sale  == <<status, run, stint, sold, runs>>
jobs  == <<at, over, row, wrote>>
vars  == <<live, mirror, base, status, run, stint, at, over, took, row, wrote,
           merchant, sold, edits, runs, troubles>>

Sync    == "sync"
Running == {"ACTIVE", "PARTIAL"}
Claims  == {"APPLYING", "REVERTING"}
States  == Running \cup Claims \cup {"DRAFT", "COMPLETED"}
Phases  == {"queued", "checking", "baselines"}
Said    == {"", "outcome", "nothing", "kept"}
Stages  == {"unborn", "checked", "enqueueing", "queued", "started", "looked",
            "holding", "recorded", "tracked", "dead", "ended"}

NoBase  == [price |-> 0, gen |-> 0, late |-> FALSE, ofSale |-> FALSE]
NoRun   == [stage |-> "idle", kind |-> "APPLY", whole |-> FALSE, from |-> "DRAFT", typed |-> FALSE,
            want |-> 0, before |-> 0, failed |-> FALSE]
NoStint == [first |-> -1, wrote |-> {}]
NoRow   == [state |-> "none", phase |-> "queued", said |-> "", quiet |-> FALSE]
Nothing == [price |-> 0, gen |-> -1, ofSale |-> FALSE]

Init ==
    /\ live \in {p \in Prices : SaleOf[p] # p} /\ mirror = live
    /\ base \in {NoBase, [price |-> live, gen |-> 1, late |-> FALSE, ofSale |-> FALSE]}
    /\ status = "DRAFT" /\ run = NoRun /\ stint = NoStint
    /\ at = [r \in Recaptures |-> "unborn"]
    /\ over = [r \in Recaptures |-> FALSE]
    /\ took = [r \in Recaptures \cup {Sync} |-> Nothing]
    /\ row = [r \in Recaptures |-> NoRow]
    /\ wrote = [r \in Recaptures |-> FALSE]
    /\ merchant = {live} /\ sold = {}
    /\ edits = 0 /\ runs = 0 /\ troubles = 0

Trouble == troubles < MaxTroubles /\ troubles' = troubles + 1

(* Mutant: a campaign that stopped, or is being ended, has no prices live (#708). *)
ActiveOnly == {"APPLYING", "ACTIVE"}

(* PRICES_MAY_BE_LIVE. *)
MayBeLive == Running \cup Claims

-----------------------------------------------------------------------------
(* The merchant, Shopify's news of it, and the captures without a warning. *)

Edit(p) ==
    /\ edits < MaxEdits /\ p # live
    /\ edits' = edits + 1
    /\ live' = p
    /\ merchant' = merchant \cup {p}
    /\ UNCHANGED <<mirror, base, took, troubles, sale, jobs>>

(* A webhook or a sync shows the mirror what Shopify shows. *)
Deliver ==
    /\ mirror # live
    /\ mirror' = live
    /\ UNCHANGED <<live, base, took, merchant, edits, troubles, sale, jobs>>

HasStint == stint.first # -1
HasBase  == base.price # 0

(* The current baseline is retired and replaced in one transaction; it is `late`
   when it is captured after the row of the first write of the campaign's, and
   `ofSale` (history) when it is a sale price that a recapture read. *)
Replace(p, ofSale) ==
    base' = [price |-> p, gen |-> base.gen + 1, late |-> HasStint \/ run.stage \in {"rowed", "written"},
             ofSale |-> ofSale]

(* An imported price, or a kept edit. *)
Adopt(p) ==
    /\ edits < MaxEdits
    /\ edits' = edits + 1
    /\ Replace(p, FALSE)
    /\ merchant' = merchant \cup {p}
    /\ UNCHANGED <<live, mirror, took, troubles, sale, jobs>>

(* captureBaselines for a sync or an enrolment: only where there is no baseline. *)
SyncReads ==
    /\ took[Sync].price = 0
    /\ ~HasBase
    /\ mirror # 0
    /\ took' = [took EXCEPT ![Sync] = [price |-> mirror, gen |-> base.gen, ofSale |-> FALSE]]
    /\ UNCHANGED <<live, mirror, base, merchant, edits, troubles, sale, jobs>>

(* The index on current baselines refuses a second one. *)
SyncRecords ==
    /\ took[Sync].price # 0
    /\ IF took[Sync].gen = base.gen THEN Replace(took[Sync].price, FALSE) ELSE UNCHANGED base
    /\ took' = [took EXCEPT ![Sync] = Nothing]
    /\ UNCHANGED <<live, mirror, merchant, edits, troubles, sale, jobs>>

-----------------------------------------------------------------------------
(* The campaign's runs. *)

(* Mutant: a baseline that the storefront shows is taken for the merchant's own. *)
UnlessShown == HasStint /\ base.late /\ base.price \in stint.wrote /\ mirror # base.price

(* recapturedAtSale: the baseline was captured after the first write of the
   stint, at a price the campaign put up, which is not the one before it. *)
RecapturedAtSale ==
    HasStint /\ base.late /\ base.price \in stint.wrote /\ stint.first \notin {0, base.price}

Lawful == [APPLY |-> {"DRAFT", "ACTIVE", "PARTIAL", "COMPLETED"}, REVERT |-> {"ACTIVE", "PARTIAL"}]

ClaimOf(k) == IF k = "APPLY" THEN "APPLYING" ELSE "REVERTING"

(* A whole run is pressed or due; `typed` is the word, or a confirmation stored with the campaign. *)
Press(k, typed) ==
    /\ run.stage = "idle" /\ runs < MaxRuns
    /\ status \in Lawful[k]
    /\ typed => k = "APPLY"
    /\ runs' = runs + 1
    /\ status' = ClaimOf(k)
    /\ run' = [NoRun EXCEPT !.stage = "claimed", !.kind = k, !.whole = TRUE, !.from = status, !.typed = typed]
    /\ UNCHANGED <<live, mirror, base, took, stint, sold, merchant, edits, troubles, jobs>>

(* reassertDrift: an edit the mirror shows is put back, by an apply of this variant alone. *)
PutBack ==
    /\ run.stage = "idle" /\ runs < MaxRuns
    /\ status \in Running
    /\ HasStint /\ mirror \notin stint.wrote
    /\ runs' = runs + 1
    /\ run' = [NoRun EXCEPT !.stage = "claimed", !.from = status]
    /\ UNCHANGED <<live, mirror, base, took, status, stint, sold, merchant, edits, troubles, jobs>>

Wanted == IF run.kind = "APPLY" THEN SaleOf[base.price] ELSE base.price

(* A revert does not take the mirror's word that there is nothing to do. *)
Shown == IF run.kind = "REVERT" /\ mirror = Wanted THEN live ELSE mirror

Compounds == run.kind = "APPLY" /\ run.whole /\ RecapturedAtSale

PlanNothing ==
    /\ run.stage = "claimed"
    /\ HasBase => Wanted = Shown
    /\ run' = [run EXCEPT !.stage = "finishing"]
    /\ UNCHANGED <<live, mirror, base, took, status, stint, sold, runs, merchant, edits, troubles, jobs>>

(* refuseUntypedPress, refuseUnconfirmedStart. *)
AskForTheWord ==
    /\ run.stage = "claimed"
    /\ HasBase /\ Wanted # Shown
    /\ Compounds /\ ~run.typed
    /\ status' = run.from
    /\ run' = NoRun
    /\ UNCHANGED <<live, mirror, base, took, stint, sold, runs, merchant, edits, troubles, jobs>>

(* The ledger row, before the price. *)
PlanWrite ==
    /\ run.stage = "claimed"
    /\ HasBase /\ Wanted # Shown
    /\ Compounds => run.typed
    /\ run.whole \/ "putback" \in Weak \/ ~RecapturedAtSale
    /\ run' = [run EXCEPT !.stage = "rowed", !.want = Wanted, !.before = Shown]
    /\ base' = [base EXCEPT !.late = HasStint /\ @]
    /\ mirror' = Shown
    /\ UNCHANGED <<live, took, status, stint, sold, runs, merchant, edits, troubles, jobs>>

Write ==
    /\ run.stage = "rowed"
    /\ live' = run.want
    /\ sold' = IF run.kind = "APPLY" THEN sold \cup {run.want} ELSE {}
    /\ run' = [run EXCEPT !.stage = "written"]
    /\ UNCHANGED <<mirror, base, took, status, stint, runs, merchant, edits, troubles, jobs>>

(* Read back, recorded as landed, and settled in the mirror. *)
Verify ==
    /\ run.stage = "written"
    /\ live = run.want
    /\ stint' = IF run.kind = "REVERT" THEN NoStint
                ELSE [first |-> IF HasStint THEN stint.first ELSE run.before, wrote |-> stint.wrote \cup {run.want}]
    /\ mirror' = run.want
    /\ run' = [run EXCEPT !.stage = "finishing"]
    /\ UNCHANGED <<live, base, took, status, sold, runs, merchant, edits, troubles, jobs>>

(* Somebody's edit came after the write: the row has failed, and the price is not known. *)
Mismatch ==
    /\ run.stage = "written"
    /\ live # run.want
    /\ mirror' = 0
    /\ run' = [run EXCEPT !.stage = "finishing", !.failed = TRUE]
    /\ UNCHANGED <<live, base, took, status, stint, sold, runs, merchant, edits, troubles, jobs>>

Outcome == IF run.failed THEN "PARTIAL" ELSE IF run.kind = "APPLY" THEN "ACTIVE" ELSE "COMPLETED"

(* A whole revert that completes ends the sale, written or not (sinceItEnded). *)
Finish ==
    /\ run.stage = "finishing"
    /\ status' = IF run.whole THEN Outcome ELSE status
    /\ IF run.whole /\ Outcome = "COMPLETED" THEN stint' = NoStint /\ sold' = {} ELSE UNCHANGED <<stint, sold>>
    /\ run' = NoRun
    /\ UNCHANGED <<live, mirror, base, took, runs, merchant, edits, troubles, jobs>>

(* It throws, or dies and is reaped, before anything is sent: the claim goes back. *)
StopEarly ==
    /\ run.stage = "claimed"
    /\ Trouble
    /\ status' = run.from
    /\ run' = NoRun
    /\ UNCHANGED <<live, mirror, base, took, stint, sold, runs, merchant, edits, jobs>>

(* Mutant: the claim is given back as if nothing had been sent. *)
HandedBack == run.from

PartWay == IF run.whole THEN "PARTIAL" ELSE status

(* It stops with the write not recorded: the mirror is settled to unknown. *)
StopLate ==
    /\ run.stage \in {"rowed", "written"}
    /\ Trouble
    /\ status' = PartWay
    /\ mirror' = 0
    /\ run' = NoRun
    /\ UNCHANGED <<live, base, took, stint, sold, runs, merchant, edits, jobs>>

RunStep == PlanNothing \/ AskForTheWord \/ PlanWrite \/ Write \/ Verify \/ Mismatch \/ Finish

-----------------------------------------------------------------------------
(* Recaptures: the look, the claim, the worker's half. *)

Overlaps == status \in MayBeLive

Move(r, stage) == at' = [at EXCEPT ![r] = stage]
Settled == <<live, mirror, base, merchant, edits, sale>>

(* checkRecapture on the page: over a running campaign the phrase is typed. *)
Check(r) ==
    /\ at[r] = "unborn"
    /\ Move(r, "checked")
    /\ over' = [over EXCEPT ![r] = Overlaps]
    /\ UNCHANGED <<took, row, wrote, troubles, Settled>>

(* captureRefusal: Flow never captures while prices are live.  The phrase is then
   made from the plan and handed back. *)
FlowLooks(r) ==
    /\ at[r] = "unborn"
    /\ Move(r, IF Overlaps THEN "ended" ELSE "looked")
    /\ UNCHANGED <<over, took, row, wrote, troubles, Settled>>

Open == {r \in Recaptures : row[r].state = "open"}

Close(r, said) ==
    row' = [row EXCEPT ![r] = IF @.state = "open" THEN [@ EXCEPT !.state = "closed", !.said = said] ELSE @]

(* claimRecapture: silent rows are closed, and the index lets one be open. *)
Claim(r, k) ==
    /\ at[r] = "checked"
    /\ LET free == \A q \in Open : row[q].quiet
           swept == [q \in Recaptures |-> IF q \in Open /\ row[q].quiet
                                          THEN [row[q] EXCEPT !.state = "closed"] ELSE row[q]]
       IN /\ row' = IF free THEN [swept EXCEPT ![r] = [NoRow EXCEPT !.state = "open",
                                          !.phase = IF k = "page" THEN "checking" ELSE "queued"]]
                    ELSE swept
          /\ Move(r, IF ~free THEN "ended" ELSE IF k = "page" THEN "looked" ELSE "enqueueing")
    /\ UNCHANGED <<over, took, wrote, troubles, Settled>>

(* Redis may take the job and not be heard: the page deletes the row all the same. *)
Enqueue(r) ==
    /\ at[r] = "enqueueing"
    /\ \/ Move(r, "queued") /\ UNCHANGED <<row, troubles>>
       \/ Trouble /\ row' = [row EXCEPT ![r].state = "deleted"] /\ \E s \in {"queued", "ended"} : Move(r, s)
    /\ UNCHANGED <<over, took, wrote, Settled>>

(* Mutant: the job runs whatever its row says. *)
Anyway(r) == FALSE

(* Closed, gone, or waited longer than the page does. *)
TooLate(r) == row[r].state # "open" \/ row[r].quiet

Start(r) ==
    /\ at[r] = "queued"
    /\ Move(r, IF TooLate(r) THEN "ended" ELSE "started")
    /\ IF TooLate(r) THEN Close(r, "") ELSE row' = [row EXCEPT ![r].phase = "checking"]
    /\ UNCHANGED <<over, took, wrote, troubles, Settled>>

(* Checked again: a campaign gone live since is refused. *)
Recheck(r) ==
    /\ at[r] = "started"
    /\ IF Overlaps /\ ~over[r]
       THEN Move(r, "ended") /\ Close(r, "nothing")
       ELSE Move(r, "looked") /\ UNCHANGED row
    /\ UNCHANGED <<over, took, wrote, troubles, Settled>>

-----------------------------------------------------------------------------
(* recaptureChecked and captureBaselines. *)

(* A write of this sale that the ledger does not have as landed, or has without
   the price before it. *)
Unrecorded == sold # {} /\ (stint.first \in {-1, 0} \/ ~(sold \subseteq stint.wrote))

(* An apply is between its ledger row and what it reads back. *)
Selling == run.kind = "APPLY" /\ run.stage \in {"rowed", "written"}

(* No price to record, or the one the baseline has already. *)
AlreadyCurrent == mirror \in {0, base.price}

Looked(r) == at[r] = "looked" /\ ("looked" \in Weak \/ over[r] \/ ~Overlaps)

Read(r) ==
    /\ Looked(r) /\ ~AlreadyCurrent
    /\ "unrecorded" \in Weak \/ ~Unrecorded
    /\ Move(r, "holding")
    /\ took' = [took EXCEPT ![r] = [price |-> mirror, gen |-> base.gen, ofSale |-> mirror \in sold]]
    /\ UNCHANGED <<over, row, wrote, troubles, Settled>>

KeepBaseline(r) ==
    /\ Looked(r) /\ AlreadyCurrent
    /\ Move(r, "ended")
    /\ Close(r, "outcome")
    /\ UNCHANGED <<over, took, wrote, troubles, Settled>>

(* In one transaction, over the baseline it read.  What the merchant was shown
   and typed the phrase for is the merchant's price. *)
Record(r) ==
    /\ at[r] = "holding"
    /\ took[r].gen = base.gen
    /\ "unrecorded" \in Weak \/ ~(took[r].ofSale /\ (Unrecorded \/ Selling))
    /\ Replace(took[r].price, took[r].ofSale)
    /\ merchant' = IF over[r] THEN merchant \cup {took[r].price} ELSE merchant
    /\ wrote' = [wrote EXCEPT ![r] = TRUE]
    /\ took' = [took EXCEPT ![r] = Nothing]
    /\ Move(r, "recorded")
    /\ UNCHANGED <<live, mirror, row, over, edits, troubles, sale>>

(* Another capture came first: the index refuses, and nothing is written. *)
Collide(r) ==
    /\ at[r] = "holding"
    /\ took[r].gen # base.gen
    /\ Move(r, "ended")
    /\ Close(r, "nothing")
    /\ took' = [took EXCEPT ![r] = Nothing]
    /\ UNCHANGED <<over, wrote, troubles, Settled>>

Track(r) ==
    /\ at[r] = "recorded"
    /\ Move(r, "tracked")
    /\ row' = [row EXCEPT ![r].phase = IF row[r].state = "open" THEN "baselines" ELSE @]
    /\ UNCHANGED <<over, took, wrote, troubles, Settled>>

EndRecapture(r) ==
    /\ at[r] = "tracked"
    /\ Move(r, "ended")
    /\ \/ Close(r, "outcome") /\ UNCHANGED troubles
       \/ Trouble /\ Close(r, "kept")
    /\ UNCHANGED <<over, took, wrote, Settled>>

(* It throws before it has recorded anything. *)
Throw(r) ==
    /\ at[r] \in {"started", "looked", "holding"}
    /\ Trouble
    /\ Move(r, "ended")
    /\ Close(r, "nothing")
    /\ took' = [took EXCEPT ![r] = Nothing]
    /\ UNCHANGED <<over, wrote, Settled>>

Die(r) ==
    /\ at[r] \in {"enqueueing", "started", "looked", "holding", "recorded", "tracked"}
    /\ at[r] = "recorded" => "died" \in Weak
    /\ Trouble
    /\ Move(r, "dead")
    /\ took' = [took EXCEPT ![r] = Nothing]
    /\ UNCHANGED <<over, row, wrote, Settled>>

(* Ten minutes without a sign of life. *)
GoQuiet(r) ==
    /\ row[r].state = "open" /\ ~row[r].quiet
    /\ at[r] \in {"queued", "dead"} \/ "silent" \in Weak
    /\ row' = [row EXCEPT ![r].quiet = TRUE]
    /\ UNCHANGED <<over, at, took, wrote, troubles, Settled>>

-----------------------------------------------------------------------------
RecaptureStep(r) ==
    \/ Check(r) \/ FlowLooks(r) \/ \E k \in {"page", "queue"} : Claim(r, k)
    \/ Enqueue(r) \/ Start(r) \/ Recheck(r)
    \/ Read(r) \/ KeepBaseline(r) \/ Record(r) \/ Collide(r) \/ Track(r) \/ EndRecapture(r)
    \/ Throw(r) \/ Die(r) \/ GoQuiet(r)

Next ==
    \/ \E p \in Prices : Edit(p) \/ Adopt(p)
    \/ Deliver \/ SyncReads \/ SyncRecords
    \/ \E k \in {"APPLY", "REVERT"}, typed \in BOOLEAN : Press(k, typed)
    \/ PutBack \/ RunStep \/ StopEarly \/ StopLate
    \/ \E r \in Recaptures : RecaptureStep(r)

Spec == Init /\ [][Next]_vars

-----------------------------------------------------------------------------
Bases  == [price : Prices \cup {0}, gen : Nat, late : BOOLEAN, ofSale : BOOLEAN]
Runs   == [stage : {"idle", "claimed", "rowed", "written", "finishing"}, kind : {"APPLY", "REVERT"},
           whole : BOOLEAN, from : States \ Claims, typed : BOOLEAN, want : Prices \cup {0},
           before : Prices \cup {0}, failed : BOOLEAN]
Stints == [first : Prices \cup {0, -1}, wrote : SUBSET Prices]
Holds  == [price : Prices \cup {0}, gen : Nat \cup {-1}, ofSale : BOOLEAN]
Rows   == [state : {"none", "open", "closed", "deleted"}, phase : Phases, said : Said, quiet : BOOLEAN]

TypeOK ==
    /\ live \in Prices /\ mirror \in Prices \cup {0}
    /\ base \in Bases /\ status \in States /\ run \in Runs /\ stint \in Stints
    /\ at \in [Recaptures -> Stages]
    /\ over \in [Recaptures -> BOOLEAN] /\ wrote \in [Recaptures -> BOOLEAN]
    /\ took \in [Recaptures \cup {Sync} -> Holds]
    /\ row \in [Recaptures -> Rows]
    /\ merchant \subseteq Prices /\ sold \subseteq Prices
    /\ edits \in 0 .. MaxEdits /\ runs \in 0 .. MaxRuns /\ troubles \in 0 .. MaxTroubles

(* A baseline is never a sale price the merchant did not agree to: whatever runs,
   stops, is edited or recaptured beside it, it is a price the merchant set, or one
   recorded over a sale that the merchant was shown and typed the phrase for
   (recapture.server.ts:5-8). *)
BaselineIsTheMerchants == HasBase => base.price \in merchant

(* When no sale is on, the storefront shows a price the merchant set or agreed to:
   a revert leaves no sale price up, nor does a start that was given back. *)
NoSaleLeftUp == status \notin MayBeLive => live \in merchant

(* No apply discounts the campaign's own sale price, recaptured while it was up,
   unless the word was typed (#781); a price the rule leaves as it is, is not discounted. *)
AsksBeforeCompounding ==
    [][(run.stage = "claimed" /\ run'.stage = "rowed" /\ run.kind = "APPLY" /\ ~run.typed)
          => ~(base.ofSale /\ base.price \in sold /\ base.price \notin {stint.first, SaleOf[base.price]})]_vars

(* A recapture whose page says that nothing was recaptured has recorded nothing,
   whether it was refused, collided, threw, was never started or fell silent. *)
SaysNothing(r) ==
    \/ row[r].state = "deleted"
    \/ row[r].state = "closed" /\ row[r].said = "nothing"
    \/ /\ row[r].said = "" /\ row[r].phase # "baselines"
       /\ row[r].state = "closed" \/ (row[r].state = "open" /\ row[r].quiet)

SaidTruly == \A r \in Recaptures : SaysNothing(r) => ~wrote[r]
=============================================================================
