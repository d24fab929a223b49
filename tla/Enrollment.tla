----------------------------- MODULE Enrollment -----------------------------
(* A sale and the products that join it while it runs.

   A product's webhook brings the mirror up to date, decides whether its variant
   is new to a running campaign, and then adds it to the campaign's mark.  A
   worker's tick prices what is marked: it looks whether the sale is being
   ended, takes the mark, and runs an apply over those variants alone.  Such a
   run never holds the campaign; it writes its row and then looks for a claim,
   as a whole run takes its claim and then looks for such a row.

   `missed` records what the code lets go of: a variant in it is not priced
   until its product's next edit, or the next whole apply.  One campaign; the
   filter for Anchor's own echoes is left out, so every price a revert puts back
   comes round as an edit of the product.  Holds are DriftHold's. *)
EXTENDS Integers, FiniteSets

CONSTANTS
    Variants,
    Workers,
    Overtaken,   \* whether a revert may begin between a drain's look and its run's own
    MaxEdits,    \* bounds for TLC: edits of a product, presses of Apply and Revert, and
    MaxPresses,
    MaxTroubles  \* everything that fails, together

ASSUME OvertakenAssumption == Overtaken \in BOOLEAN
ASSUME BoundsAssumption    == MaxEdits \in Nat /\ MaxPresses \in Nat /\ MaxTroubles \in Nat

VARIABLES
    shop,     \* the variants the campaign's filter covers, at Shopify
    scope,    \* the same, as the mirror has it
    mail,     \* the variants with a delivery on its way
    hook,     \* how far each variant's delivery has been handled
    marks,    \* enrollPendingVariantGids
    status,   \* Campaign.status
    latest,   \* the kind of the campaign's latest whole run
    rows,     \* the variants with a ledger row since the last revert
    onSale,   \* the variants at their sale price
    whole,    \* the whole run in hand
    drain,    \* where each worker's tick is in pricing what is marked
    missed,   \* history: the variants in scope that were let go of
    edits, presses, troubles

vars == <<shop, scope, mail, hook, marks, status, latest, rows, onSale, whole, drain, missed,
          edits, presses, troubles>>
hooks  == <<shop, scope, mail, hook, edits>>
prices == <<rows, onSale>>
runs   == <<status, latest, whole, presses>>

Running == {"ACTIVE", "PARTIAL"}
Claims  == {"APPLYING", "REVERTING"}
States  == Running \cup Claims \cup {"DRAFT", "COMPLETED"}
Kinds   == {"APPLY", "REVERT"}
Page    == "page"
Stages  == {"idle", "tail", "listed", "ranlisted", "dropping", "checked", "ready", "holding",
            "begun", "writing"}

NoRun == [by |-> Page, kind |-> "APPLY", stage |-> "idle", from |-> "DRAFT", left |-> {}]
Idle  == [stage |-> "idle", hand |-> {}]

Init ==
    /\ shop = {} /\ scope = {} /\ mail = {}
    /\ hook = [v \in Variants |-> "idle"]
    /\ marks = {}
    /\ status = "DRAFT" /\ latest = "none"
    /\ rows = {} /\ onSale = {}
    /\ whole = NoRun
    /\ drain = [w \in Workers |-> Idle]
    /\ missed = {}
    /\ edits = 0 /\ presses = 0 /\ troubles = 0

(* Mutant: nobody asks whether the sale is being ended, as before #805. *)
NeverEnding == FALSE

(* endingSinceLastApply. *)
Ending == latest = "REVERT"

Trouble == troubles < MaxTroubles /\ troubles' = troubles + 1

(* What is let go of when these are: in scope, unplanned and not at a sale price
   of a sale that nobody is ending. *)
LetGo(vs) == missed' = IF Ending THEN missed ELSE missed \cup ((vs \cap scope) \ (rows \cup onSale))

-----------------------------------------------------------------------------
(* The product's webhook. *)

(* A merchant edits a product: it joins the campaign's filter, leaves it, or neither. *)
Edit(v, in) ==
    /\ edits < MaxEdits
    /\ edits' = edits + 1
    /\ shop' = IF in THEN shop \cup {v} ELSE shop \ {v}
    /\ mail' = mail \cup {v}
    /\ missed' = missed \ {v}
    /\ UNCHANGED <<scope, hook, marks, drain, troubles, prices, runs>>

Deliver(v) ==
    /\ v \in mail
    /\ hook[v] = "idle"
    /\ mail' = mail \ {v}
    /\ scope' = (scope \ {v}) \cup (shop \cap {v})
    /\ hook' = [hook EXCEPT ![v] = "mirrored"]
    /\ UNCHANGED <<shop, edits, marks, drain, missed, troubles, prices, runs>>

(* enrollNewVariants' test. *)
Joins(v) == status \in Running /\ ~Ending /\ v \in scope /\ v \notin rows

Decide(v) ==
    /\ hook[v] = "mirrored"
    /\ hook' = [hook EXCEPT ![v] = IF Joins(v) THEN "joined" ELSE "idle"]
    /\ IF status \in Claims THEN LetGo({v}) ELSE UNCHANGED missed
    /\ UNCHANGED <<shop, scope, mail, edits, marks, drain, troubles, prices, runs>>

(* Mutant: the list is read, added to and written back, not appended to. *)
MarkOver(v) == marks' = {v}

Append(v) == marks' = marks \cup {v}

Mark(v) ==
    /\ hook[v] = "joined"
    /\ hook' = [hook EXCEPT ![v] = "idle"]
    /\ Append(v)
    /\ UNCHANGED <<shop, scope, mail, edits, drain, missed, troubles, prices, runs>>

(* Enrolling fails; the delivery does not. *)
HookFails(v) ==
    /\ hook[v] \in {"mirrored", "joined"}
    /\ Trouble
    /\ hook' = [hook EXCEPT ![v] = "idle"]
    /\ LetGo({v})
    /\ UNCHANGED <<shop, scope, mail, edits, marks, drain, prices, runs>>

-----------------------------------------------------------------------------
(* Whole runs, pressed on the page or due in a worker's tick. *)

Lawful == [APPLY |-> {"DRAFT", "ACTIVE", "PARTIAL", "COMPLETED"}, REVERT |-> {"ACTIVE", "PARTIAL"}]

ClaimOf(kind) == IF kind = "APPLY" THEN "APPLYING" ELSE "REVERTING"

Press(by, kind) ==
    /\ presses < MaxPresses
    /\ whole.stage = "idle"
    /\ by \in Workers => drain[by].stage = "idle"
    /\ status \in Lawful[kind]
    /\ presses' = presses + 1
    /\ status' = ClaimOf(kind)
    /\ whole' = [by |-> by, kind |-> kind, stage |-> "claimed", from |-> status, left |-> {}]
    /\ UNCHANGED <<latest, marks, drain, missed, troubles, hooks, prices>>

ScopedRuns == {w \in Workers : drain[w].stage \in {"begun", "writing"}}

GiveBack == /\ status' = whole.from
            /\ whole' = NoRun
            /\ UNCHANGED <<latest, presses, marks, drain, missed, hooks, prices>>

StandDown == whole.stage = "claimed" /\ ScopedRuns # {} /\ GiveBack /\ UNCHANGED troubles

LookForScoped ==
    /\ whole.stage = "claimed"
    /\ ScopedRuns = {}
    /\ whole' = [whole EXCEPT !.stage = "looked"]
    /\ UNCHANGED <<status, latest, presses, marks, drain, missed, troubles, hooks, prices>>

(* It throws before its row, or dies there and the reaper puts the campaign back. *)
Refuse == whole.stage \in {"claimed", "looked"} /\ Trouble /\ GiveBack

(* The drains that have looked for a revert and whose run has yet to look for a claim. *)
Looked == {w \in Workers : drain[w].stage \in {"checked", "ready", "holding", "begun"}}

BeginApply ==
    /\ whole.stage = "looked" /\ whole.kind = "APPLY"
    /\ latest' = "APPLY"
    /\ whole' = [whole EXCEPT !.stage = "writing", !.left = scope \ onSale]
    /\ rows' = rows \cup (scope \ onSale)
    /\ missed' = missed \ scope
    /\ UNCHANGED <<status, presses, onSale, marks, drain, troubles, hooks>>

(* A revert takes back everything the campaign wrote, in scope or not. *)
BeginRevert ==
    /\ whole.stage = "looked" /\ whole.kind = "REVERT"
    /\ Overtaken \/ Looked = {}
    /\ latest' = "REVERT"
    /\ whole' = [whole EXCEPT !.stage = "writing", !.left = onSale]
    /\ rows' = {}
    /\ UNCHANGED <<status, presses, onSale, marks, drain, missed, troubles, hooks>>

WriteWhole(v) ==
    /\ whole.stage = "writing"
    /\ v \in whole.left
    /\ whole' = [whole EXCEPT !.left = @ \ {v}]
    /\ IF whole.kind = "APPLY"
       THEN onSale' = onSale \cup {v} /\ UNCHANGED mail
       ELSE onSale' = onSale \ {v} /\ mail' = mail \cup {v}
    /\ UNCHANGED <<shop, scope, hook, edits, status, latest, presses, rows, marks, drain, missed, troubles>>

(* The tick that ran it goes on to price what is marked. *)
Finish ==
    /\ whole.stage = "writing" /\ whole.left = {}
    /\ status' = IF whole.kind = "APPLY" THEN "ACTIVE" ELSE "COMPLETED"
    /\ drain' = IF whole.by = Page THEN drain ELSE [drain EXCEPT ![whole.by] = [Idle EXCEPT !.stage = "tail"]]
    /\ whole' = NoRun
    /\ UNCHANGED <<latest, presses, marks, missed, troubles, hooks, prices>>

(* Mutant: the campaign is given its run's status. *)
FailedRun == "FAILED"

PartWay == "PARTIAL"

(* It throws part-way, or dies there and is reaped. *)
StopPartWay ==
    /\ whole.stage = "writing"
    /\ Trouble
    /\ status' = PartWay
    /\ whole' = NoRun
    /\ UNCHANGED <<latest, presses, marks, drain, missed, hooks, prices>>

-----------------------------------------------------------------------------
(* drainEnrollments, in worker w's tick. *)

Put(w, stage, hand) == drain' = [drain EXCEPT ![w] = [stage |-> stage, hand |-> hand]]

(* Mutant: a campaign that ended up Partial is not looked at. *)
PendingInActive == marks # {} /\ status = "ACTIVE"

Pending == marks # {} /\ status \in Running

List(w) ==
    /\ IF drain[w].stage = "tail"
       THEN Put(w, IF Pending THEN "ranlisted" ELSE "idle", {})
       ELSE drain[w].stage = "idle" /\ Pending /\ (whole.stage # "idle" => whole.by # w) /\ Put(w, "listed", {})
    /\ UNCHANGED <<marks, missed, troubles, hooks, prices, runs>>

(* A transition of this tick's own is taken to have priced what is marked. *)
Check(w) ==
    /\ drain[w].stage \in {"listed", "ranlisted"}
    /\ Put(w, IF drain[w].stage = "ranlisted" \/ Ending THEN "dropping" ELSE "checked", {})
    /\ UNCHANGED <<marks, missed, troubles, hooks, prices, runs>>

Drop(w) ==
    /\ drain[w].stage = "dropping"
    /\ Put(w, "idle", {})
    /\ marks' = {}
    /\ LetGo(marks)
    /\ UNCHANGED <<troubles, hooks, prices, runs>>

(* Mutant: the mark goes before there is a client, as before #707. *)
NoClientDrops == marks' = {}

NoClientKeeps == marks' = marks

Client(w) ==
    /\ drain[w].stage = "checked"
    /\ \/ Put(w, "ready", {}) /\ UNCHANGED <<marks, troubles>>
       \/ Trouble /\ Put(w, "idle", {}) /\ NoClientKeeps
    /\ UNCHANGED <<missed, hooks, prices, runs>>

(* claimEnrollment: read and cleared under the row's lock. *)
ClaimEnrollment(w) ==
    /\ drain[w].stage = "ready"
    /\ IF marks = {} THEN Put(w, "idle", {}) ELSE Put(w, "holding", marks)
    /\ marks' = {}
    /\ UNCHANGED <<missed, troubles, hooks, prices, runs>>

(* The run throws before its row, or the worker dies holding what it claimed. *)
Throw(w) ==
    /\ drain[w].stage \in {"ready", "holding"}
    /\ Trouble
    /\ Put(w, "idle", {})
    /\ LetGo(drain[w].hand)
    /\ UNCHANGED <<marks, hooks, prices, runs>>

(* Planned within the campaign's scope, then the run's row. *)
BeginScoped(w) ==
    /\ drain[w].stage = "holding"
    /\ Put(w, "begun", drain[w].hand \cap scope)
    /\ UNCHANGED <<marks, missed, troubles, hooks, prices, runs>>

LookForHolder(w) ==
    /\ drain[w].stage = "begun"
    /\ IF status \in Claims
       THEN Put(w, "idle", {}) /\ LetGo(drain[w].hand) /\ UNCHANGED rows
       ELSE /\ Put(w, "writing", drain[w].hand)
            /\ rows' = rows \cup drain[w].hand
            /\ UNCHANGED missed
    /\ UNCHANGED <<marks, onSale, troubles, hooks, runs>>

WriteScoped(w, v) ==
    /\ drain[w].stage = "writing"
    /\ v \in drain[w].hand
    /\ Put(w, "writing", drain[w].hand \ {v})
    /\ onSale' = onSale \cup {v}
    /\ UNCHANGED <<rows, marks, missed, troubles, hooks, runs>>

(* It has written them all, or it stops with its rows behind it. *)
EndScoped(w) ==
    /\ drain[w].stage = "writing"
    /\ \/ drain[w].hand = {} /\ UNCHANGED troubles
       \/ Trouble
    /\ Put(w, "idle", {})
    /\ UNCHANGED <<marks, missed, hooks, prices, runs>>

-----------------------------------------------------------------------------
DrainStep(w) ==
    \/ List(w) \/ Check(w) \/ Drop(w) \/ Client(w) \/ ClaimEnrollment(w) \/ BeginScoped(w)
    \/ LookForHolder(w) \/ EndScoped(w) \/ \E v \in Variants : WriteScoped(w, v)

WholeStep == StandDown \/ LookForScoped \/ BeginApply \/ BeginRevert \/ Finish \/ \E v \in Variants : WriteWhole(v)

Next ==
    \/ \E v \in Variants : Deliver(v) \/ Decide(v) \/ Mark(v) \/ HookFails(v) \/ \E in \in BOOLEAN : Edit(v, in)
    \/ \E kind \in Kinds, by \in Workers \cup {Page} : Press(by, kind)
    \/ WholeStep \/ Refuse \/ StopPartWay
    \/ \E w \in Workers : DrainStep(w) \/ Throw(w)

(* Deliveries come and are handled; a run goes on; every worker's ticks come round. *)
Fairness ==
    /\ \A v \in Variants : WF_vars(Deliver(v)) /\ WF_vars(Decide(v) \/ Mark(v))
    /\ WF_vars(WholeStep)
    /\ \A w \in Workers : WF_vars(DrainStep(w))

Spec == Init /\ [][Next]_vars /\ Fairness

-----------------------------------------------------------------------------
TypeOK ==
    /\ shop \subseteq Variants /\ scope \subseteq Variants /\ mail \subseteq Variants
    /\ hook \in [Variants -> {"idle", "mirrored", "joined"}]
    /\ marks \subseteq Variants
    /\ status \in States
    /\ latest \in Kinds \cup {"none"}
    /\ rows \subseteq Variants /\ onSale \subseteq Variants
    /\ whole \in [by : Workers \cup {Page}, kind : Kinds, stage : {"idle", "claimed", "looked", "writing"},
                  from : States \ Claims, left : SUBSET Variants]
    /\ drain \in [Workers -> [stage : Stages, hand : SUBSET Variants]]
    /\ missed \subseteq Variants
    /\ edits \in 0 .. MaxEdits /\ presses \in 0 .. MaxPresses /\ troubles \in 0 .. MaxTroubles

InHand(v) == v \in mail \/ hook[v] # "idle" \/ v \in marks \/ \E w \in Workers : v \in drain[w].hand

(* While the sale runs and nobody has asked to end it, a variant in its scope
   that has no price of it is on its way to one: in a delivery, in the mark, in
   a drain's hands or in the ledger.  Between them the webhook, the drain and
   the runs forget only what `missed` says. *)
NothingForgotten ==
    status \in Running /\ ~Ending => \A v \in scope : v \in onSale \cup rows \cup missed \/ InHand(v)

(* Once a revert has begun no variant goes on sale, until somebody applies the
   campaign again: not by a product that joins, nor by one marked before (#805). *)
NoSaleAfterRevert == [][latest = "REVERT" => onSale' \subseteq onSale]_vars

(* A product that joins a running sale ends up priced by it. *)
EventuallyPriced ==
    <>[](status \in Running /\ ~Ending => shop \subseteq onSale \cup rows \cup missed)
=============================================================================
