------------------------------ MODULE DriftHold ------------------------------
(* A price edited under a running campaign: who is asked, and what holds meanwhile.

   The products webhook finds that a price is neither the mirror's nor one a run
   said it would write.  It records an event for the campaign that prices the
   variant, then holds that campaign, each in statements of its own.  The merchant
   keeps the change, leaves it or has it put back, one event at a time or many at
   once; a run that writes over an edit closes its event.  Whoever resolves the
   last event releases the hold.

   One campaign, whose price for every variant is "sale".  A change of a price has
   a number, so that the webhook and the mirror tell older from newer without
   fail; MirrorVersions is about how well they can.  A run's claim, row, plan and
   intents are one step: CampaignRuns and Ledger take them apart. *)
EXTENDS Integers, FiniteSets

CONSTANTS
    Variants,    \* what the campaign prices
    Edits,       \* prices nobody but the merchant sets
    Answerers,   \* calls that resolve drift, pages and workers alike
    Weak,        \* which of the gaps below can happen
    MaxEvents,   \* bounds for TLC, none of them in the code: events,
    MaxEdits,    \* edits,
    MaxRuns,     \* runs
    MaxCrashes   \* and deaths of a worker

(* "answer": an event is resolved between the webhook's look at it and its hold, or
   before the price it is about is in the mirror.
   "release": a webhook looks whether to hold, or a run claims the campaign, between a
   release's count and its move.
   "close": an edit made after a run wrote the price is recorded before
   that run closes what it wrote over, or the campaign is held between a whole run's
   move and that close.  "twice": two decisions, or a decision and
   the webhook, have the same event in hand.  "shown": the mirror's price, or the
   event, moves between a keep's look and its baseline.  "check": a run settles
   while a delivery it replaced is in hand.  "late": intents expire before
   the run's own deliveries are handled.  "again": a worker dies between an event and the mirror,
   or the hold is refused, and a newer delivery, an edit or a run comes before the delivery is
   handled again.
   "sync": a catalogue read mirrors an edit before its webhook.  "died": a decision's process dies
   after its first write. *)
Gaps == {"answer", "release", "close", "twice", "shown", "check", "late", "again",
         "sync", "died"}

Prices == Edits \cup {"sale", "base"}

ASSUME VariantsAssumption == Variants # {}
ASSUME EditsAssumption == Edits \cap {"sale", "base", "unknown"} = {}
ASSUME WeakAssumption == Weak \subseteq Gaps
ASSUME BoundsAssumption == {MaxEvents, MaxEdits, MaxRuns, MaxCrashes} \subseteq Nat

VARIABLES
    status,     \* Campaign.status
    ending,     \* its latest whole-campaign run is a revert
    heldFrom,   \* where a released hold goes back to (the audit log)
    live,       \* the price Shopify shows
    change,     \* how many times it has changed
    sent,       \* deliveries on their way or waiting
    surface,    \* price_surface_entries.livePrice, "unknown" when null
    seen,       \* the change the mirror's row is from
    intents,    \* prices with a write intent that has not expired
    baseline,   \* the current baseline
    events,     \* drift_events
    made,       \* how many there are
    hook,       \* the webhook at work
    answer,     \* each decision at work
    run,        \* the run at work
    excused,    \* history: the last change of each price nobody had to be asked about
    again,      \* history: variants with a delivery to be handled again that has recorded its event
    runs, wholes, edits, crashes

campaign == <<status, ending, heldFrom>>
shopify  == <<live, change, sent>>
mirror   == <<surface, seen>>
queue    == <<events, made>>
history  == <<excused, again>>
counts   == <<runs, wholes, edits, crashes>>
vars     == <<status, ending, heldFrom, live, change, sent, surface, seen, intents, baseline,
              events, made, hook, answer, run, excused, again, runs, wholes, edits, crashes>>

Ids      == 1 .. MaxEvents
Reads    == [price : Prices, change : Nat, by : {"edit", "run"}]
NoRead   == [price |-> "base", change |-> 0, by |-> "edit"]
Verdicts == {"ADOPTED", "IGNORED", "REASSERTED"}
Someone  == CHOOSE v \in Variants : TRUE
NoEvent  == [variant |-> Someone, observed |-> "base", by |-> "edit", resolution |-> "NONE"]

Running     == {"ACTIVE", "PARTIAL", "HELD"}
Pending     == {e \in Ids : events[e].resolution = "PENDING"}
PendingOf(v) == {e \in Pending : events[e].variant = v}

(* controllingCampaign: keeping its prices live, and not being ended. *)
Controls == status \in Running /\ ~ending

(* The moves of the campaign's state machine among the states met here. *)
Legal == ({"APPLYING"}  \X {"ACTIVE", "PARTIAL", "HELD", "COMPLETED"}) \cup
         ({"REVERTING"} \X {"COMPLETED", "PARTIAL"}) \cup
         ({"ACTIVE"}    \X {"PARTIAL", "HELD", "COMPLETED"}) \cup
         ({"PARTIAL"}   \X {"ACTIVE", "HELD", "COMPLETED"}) \cup
         ({"HELD"}      \X {"ACTIVE", "PARTIAL"})
MayMove(to) == status = to \/ <<status, to>> \in Legal
MoveIfLegal(to) == status' = IF MayMove(to) THEN to ELSE status

Idle    == [stage |-> "none", event |-> 0, to |-> "ADOPTED", price |-> "base", batch |-> {}]
NoRun   == [stage |-> "none", event |-> 0, to |-> [v \in Variants |-> "sale"], wants |-> {},
            done |-> {}, lost |-> {}, at |-> [v \in Variants |-> 0]]
NoHook  == [stage |-> "none", variant |-> Someone, read |-> NoRead, event |-> 0]

Init ==
    /\ status \in {"ACTIVE", "PARTIAL"} /\ ending = FALSE /\ heldFrom = "ACTIVE"
    /\ live = [v \in Variants |-> "sale"] /\ change = [v \in Variants |-> 0]
    /\ sent = [v \in Variants |-> {}]
    /\ surface = live /\ seen = change
    /\ intents = [v \in Variants |-> {}]
    /\ baseline = [v \in Variants |-> "base"]
    /\ events = [e \in Ids |-> NoEvent] /\ made = 0
    /\ hook = NoHook /\ answer = [a \in Answerers |-> Idle] /\ run = NoRun
    /\ excused = [v \in Variants |-> 0] /\ again = {}
    /\ runs = 0 /\ wholes = 0 /\ edits = 0 /\ crashes = 0

-----------------------------------------------------------------------------
(* Who has what in hand, when the gaps are closed. *)

Answering(e) == \E a \in Answerers : answer[a].stage \in {"read", "adopted"} /\ answer[a].event = e
Marking(e)   == run.stage = "mark" /\ run.event = e
NotInHand(e) == "twice" \in Weak \/ (~Answering(e) /\ ~Marking(e))

NotBeingHeld(e) == \/ "answer" \in Weak
                   \/ /\ ~(hook.stage \in {"update", "hold", "holding", "mirror"} /\ hook.event = e)
                      /\ events[e].variant \notin again

NotReleasing == \/ "release" \in Weak
                \/ run.stage # "release" /\ \A a \in Answerers : answer[a].stage # "release"

(* Nobody is between a look at the mirror's price of v and the baseline it keeps. *)
Keeping(v) == \E a \in Answerers :
    /\ answer[a].to = "ADOPTED"
    /\ \/ answer[a].stage = "read" /\ events[answer[a].event].variant = v
       \/ answer[a].stage = "batch" /\ \E e \in answer[a].batch : events[e].variant = v
NotKeeping(v) == "shown" \in Weak \/ ~Keeping(v)

Owed(v) == "again" \notin Weak /\ v \in again

InHook(v) == hook.stage # "none" /\ hook.variant = v

-----------------------------------------------------------------------------
(* The merchant, and time. *)

Sold(v, price, by) ==
    /\ live' = [live EXCEPT ![v] = price]
    /\ change' = [change EXCEPT ![v] = @ + 1]
    /\ sent' = [sent EXCEPT ![v] = @ \cup {[price |-> price, change |-> change[v] + 1, by |-> by]}]
    /\ excused' = IF by = "run" THEN [excused EXCEPT ![v] = change[v] + 1] ELSE excused

(* To a price of the merchant's own, or by hand back to the campaign's. *)
Edit(v, price) ==
    /\ edits < MaxEdits /\ price # live[v]
    /\ "close" \in Weak \/ run.stage \notin {"write", "final", "close"} \/ v \notin run.done
    /\ ~Owed(v)
    /\ Sold(v, price, "edit")
    /\ edits' = edits + 1
    /\ UNCHANGED <<campaign, mirror, intents, baseline, queue, hook, answer, run, again,
                   runs, wholes, crashes>>

(* Fifteen minutes after they were recorded. *)
Expire(v) ==
    /\ intents[v] # {}
    /\ \/ "late" \in Weak
       \/ run.stage = "none" /\ ~InHook(v) /\ \A read \in sent[v] : read.by = "edit"
    /\ intents' = [intents EXCEPT ![v] = {}]
    /\ UNCHANGED <<campaign, shopify, mirror, baseline, queue, hook, answer, run, history, counts>>

(* A sync or the audit reads what is live. *)
Sync(v) ==
    /\ surface[v] # live[v]
    /\ "sync" \in Weak \/ (sent[v] = {} /\ ~InHook(v))
    /\ NotKeeping(v)
    /\ surface' = [surface EXCEPT ![v] = live[v]]
    /\ seen' = [seen EXCEPT ![v] = change[v]]
    /\ UNCHANGED <<campaign, shopify, intents, baseline, queue, hook, answer, run, history, counts>>

-----------------------------------------------------------------------------
(* The webhook.  A worker takes the newest of a product's waiting deliveries. *)

IsOurEcho(read, v) == read.price \in intents[v]

AtHook(at) == hook.stage = at
HookTo(stage) == hook' = [hook EXCEPT !.stage = stage]
Excused(v, read) == excused' = [excused EXCEPT ![v] = IF @ < read.change THEN read.change ELSE @]

(* An echo is dropped, or, when something else of the product changed too, mirrored. *)
Take(v, read) ==
    /\ AtHook("none") /\ read \in sent[v]
    /\ sent' = [sent EXCEPT ![v] = {d \in @ : d.change > read.change}]
    /\ \E stage \in IF read.change < seen[v] THEN {"none"}
                    ELSE IF IsOurEcho(read, v) THEN {"none", "mirror"}
                    ELSE IF surface[v] \in {read.price, "unknown"} THEN {"mirror"}
                    ELSE {"find"} :
          hook' = [stage |-> stage, variant |-> v, read |-> read, event |-> 0]
    /\ again' = IF hook'.stage = "none" THEN again \ {v} ELSE again
    /\ IF \/ read.change >= seen[v] /\ surface[v] = "unknown"
          \/ surface[v] = read.price /\ excused[v] \in seen[v] .. read.change
       THEN Excused(v, read) ELSE UNCHANGED excused
    /\ UNCHANGED <<campaign, live, change, mirror, intents, baseline, queue, answer, run, counts>>

(* Who prices it, and is there an open event already? *)
Find ==
    LET v == hook.variant IN
    /\ AtHook("find") /\ NotKeeping(v)
    /\ \A e \in PendingOf(v) : NotInHand(e)
    /\ \/ /\ ~Controls
          /\ HookTo("mirror")
          /\ Excused(v, hook.read)
       \/ /\ Controls
          /\ UNCHANGED excused
          /\ \/ PendingOf(v) = {} /\ HookTo("create")
             \/ \E e \in PendingOf(v) : hook' = [hook EXCEPT !.stage = "update", !.event = e]
    /\ UNCHANGED <<campaign, shopify, mirror, intents, baseline, queue, answer, run, again, counts>>

(* By id alone: the event need not be open any more. *)
Update ==
    /\ AtHook("update")
    /\ events' = [events EXCEPT ![hook.event].observed = hook.read.price, ![hook.event].by = hook.read.by]
    /\ HookTo("hold")
    /\ UNCHANGED <<campaign, shopify, mirror, intents, baseline, made, answer, run, history, counts>>

Create ==
    /\ AtHook("create") /\ made < MaxEvents
    /\ events' = [events EXCEPT ![made + 1] =
                     [variant |-> hook.variant, observed |-> hook.read.price, by |-> hook.read.by,
                      resolution |-> "PENDING"]]
    /\ made' = made + 1
    /\ hook' = [hook EXCEPT !.stage = "hold", !.event = made + 1]
    /\ UNCHANGED <<campaign, shopify, mirror, intents, baseline, answer, run, history, counts>>

(* holdForDrift: a look, then a move along the state machine from wherever the campaign is then. *)
HoldLook ==
    /\ AtHook("hold") /\ NotReleasing
    /\ HookTo(IF status \in {"ACTIVE", "PARTIAL"} THEN "holding" ELSE "mirror")
    /\ UNCHANGED <<campaign, shopify, mirror, intents, baseline, queue, answer, run, history, counts>>

(* Mutant: back to whatever it was held from. *)
ReleaseToAny(from) == from

(* Where a hold of a campaign in this state will be released to. *)
ReleaseTo(from) == IF from = "PARTIAL" THEN "PARTIAL" ELSE "ACTIVE"

(* The delivery in hand has recorded its event, now or when it was handled before. *)
HasRecorded == \/ hook.stage \in {"hold", "holding"} \/ (hook.stage = "mirror" /\ hook.event # 0)
               \/ hook.variant \in again

PutBackDelivery ==
    /\ HasRecorded => "again" \in Weak \/ (sent[hook.variant] = {} /\ run.stage = "none")
    /\ sent' = [sent EXCEPT ![hook.variant] = @ \cup {hook.read}]
    /\ again' = IF HasRecorded THEN again \cup {hook.variant} ELSE again
    /\ HookTo("none")

(* A move the machine refuses throws, and the delivery is put back. *)
Hold ==
    /\ AtHook("holding")
    /\ "close" \in Weak \/ run.stage # "close" \/ run.event # 0
    /\ MoveIfLegal("HELD")
    /\ heldFrom' = IF <<status, "HELD">> \in Legal THEN ReleaseTo(status) ELSE heldFrom
    /\ IF MayMove("HELD")
       THEN HookTo("mirror") /\ UNCHANGED <<sent, again>>
       ELSE PutBackDelivery
    /\ UNCHANGED <<ending, live, change, mirror, intents, baseline, queue, answer, run, excused, counts>>

Mirror ==
    LET v == hook.variant IN
    /\ AtHook("mirror") /\ NotKeeping(v)
    /\ surface' = [surface EXCEPT ![v] = hook.read.price]
    /\ seen' = [seen EXCEPT ![v] = hook.read.change]
    /\ HookTo("none")
    /\ again' = again \ {v}
    /\ UNCHANGED <<campaign, shopify, intents, baseline, queue, answer, run, excused, counts>>

(* The worker dies, and the delivery is handled again. *)
HookDies ==
    /\ hook.stage # "none" /\ crashes < MaxCrashes
    /\ PutBackDelivery
    /\ crashes' = crashes + 1
    /\ UNCHANGED <<campaign, live, change, mirror, intents, baseline, queue, answer, run, excused,
                   runs, wholes, edits>>

-----------------------------------------------------------------------------
(* The merchant answers: one event (resolveDrift), or all of them (executeDriftBatch). *)

Doing(a, stage) == answer' = [answer EXCEPT ![a].stage = stage]
Stays == <<shopify, mirror, intents, made, hook, run, history, counts>>

(* Mutant, as before #755: any open event can be kept. *)
AnyCanBeKept(e) == TRUE

(* An edit the storefront no longer shows is not kept. *)
CanBeKept(e) == surface[events[e].variant] \in {events[e].observed, "unknown"}

AnswerBegin(a, e, to) ==
    /\ answer[a].stage = "none"
    /\ e \in Pending /\ NotInHand(e)
    /\ "twice" \in Weak \/ NotBeingHeld(e)
    /\ to = "ADOPTED" => CanBeKept(e)
    /\ answer' = [answer EXCEPT ![a] = [stage |-> "read", event |-> e, to |-> to,
                                        price |-> events[e].observed, batch |-> {}]]
    /\ UNCHANGED <<campaign, baseline, events, Stays>>

AnswerAdopt(a) ==
    /\ answer[a].stage = "read" /\ answer[a].to = "ADOPTED"
    /\ baseline' = [baseline EXCEPT ![events[answer[a].event].variant] = answer[a].price]
    /\ Doing(a, "adopted")
    /\ UNCHANGED <<campaign, events, Stays>>

(* By id alone. *)
AnswerClose(a) ==
    /\ \/ answer[a].stage = "adopted"
       \/ answer[a].stage = "read" /\ answer[a].to = "IGNORED"
    /\ NotBeingHeld(answer[a].event)
    /\ events' = [events EXCEPT ![answer[a].event].resolution = answer[a].to]
    /\ Doing(a, "count")
    /\ UNCHANGED <<campaign, baseline, Stays>>

BatchBegin(a, to) ==
    LET chosen == {e \in Pending : to = "ADOPTED" => CanBeKept(e)} IN
    /\ answer[a].stage = "none" /\ chosen # {}
    /\ \A e \in chosen : "shown" \in Weak \/ NotBeingHeld(e)
    /\ answer' = [answer EXCEPT ![a] = [stage |-> "batch", event |-> 0, to |-> to,
                                        price |-> "base", batch |-> chosen]]
    /\ UNCHANGED <<campaign, baseline, events, Stays>>

(* Mutant: by id alone, as one answer is. *)
BatchClaimAll(a) ==
    /\ answer[a].stage = "batch"
    /\ events' = [e \in Ids |-> IF e \in answer[a].batch THEN [events[e] EXCEPT !.resolution = answer[a].to]
                                ELSE events[e]]
    /\ Doing(a, "count")
    /\ UNCHANGED <<campaign, baseline, Stays>>

(* Those still open, and their baselines with them, in one transaction. *)
BatchClaim(a) ==
    LET claimed == answer[a].batch \cap Pending IN
    /\ answer[a].stage = "batch"
    /\ \A e \in claimed : NotInHand(e) /\ NotBeingHeld(e)
    /\ events' = [e \in Ids |-> IF e \in claimed THEN [events[e] EXCEPT !.resolution = answer[a].to]
                                ELSE events[e]]
    /\ baseline' = [v \in Variants |->
                       IF answer[a].to = "ADOPTED" /\ \E e \in claimed : events[e].variant = v
                       THEN events[CHOOSE e \in claimed : events[e].variant = v].observed
                       ELSE baseline[v]]
    /\ Doing(a, "count")
    /\ UNCHANGED <<campaign, Stays>>

(* Mutant: nobody counts. *)
ReleasesAtOnce == status = "HELD"

(* releaseHold: held, and nothing left open; then the move. *)
ReleasesFrom == status = "HELD" /\ Pending = {}

AnswerCount(a) ==
    /\ answer[a].stage = "count"
    /\ Doing(a, IF ReleasesFrom THEN "release" ELSE "none")
    /\ UNCHANGED <<campaign, baseline, events, Stays>>

AnswerRelease(a) ==
    /\ answer[a].stage = "release"
    /\ MoveIfLegal(heldFrom)
    /\ Doing(a, "none")
    /\ UNCHANGED <<ending, heldFrom, baseline, events, Stays>>

AnswerDies(a) ==
    /\ answer[a].stage \in {"read", "batch"} \/ ("died" \in Weak /\ answer[a].stage # "none")
    /\ crashes < MaxCrashes
    /\ Doing(a, "none")
    /\ crashes' = crashes + 1
    /\ UNCHANGED <<campaign, shopify, mirror, intents, baseline, queue, hook, run, history,
                   runs, wholes, edits>>

-----------------------------------------------------------------------------
(* Runs: Put it back, which is a run over the event's variant, Apply and Revert. *)

RunTo(stage) == run' = [run EXCEPT !.stage = stage]

(* Mutant, as before #731: prices are written before anything says so. *)
PlannedSilently(to, wants, event, stage) ==
    /\ run' = [NoRun EXCEPT !.stage = stage, !.event = event, !.to = to, !.wants = wants]
    /\ UNCHANGED intents

(* Plans, and records an intent for every price it is about to write. *)
Planned(to, wants, event, stage) ==
    /\ run' = [NoRun EXCEPT !.stage = stage, !.event = event, !.to = to, !.wants = wants]
    /\ intents' = [v \in Variants |-> intents[v] \cup IF v \in wants THEN {to[v]} ELSE {}]

Differing(to) == {v \in Variants : surface[v] # to[v]}
AllSale == [v \in Variants |-> "sale"]

Begins == run.stage = "none" /\ runs < MaxRuns /\ status \in Running /\ runs' = runs + 1
          /\ \A v \in Variants : ~Owed(v)

(* A variant the mirror already shows at its price plans nothing;
   reassertDrift then closes the event itself. *)
PutBack(e) ==
    LET wants == {events[e].variant} \cap Differing(AllSale) IN
    /\ Begins
    /\ e \in Pending /\ NotInHand(e) /\ ("twice" \in Weak \/ NotBeingHeld(e))
    /\ Planned(AllSale, wants, e, IF wants = {} THEN "mark" ELSE "write")
    /\ UNCHANGED <<campaign, shopify, mirror, baseline, queue, hook, answer, history,
                   wholes, edits, crashes>>

Apply ==
    /\ Begins /\ NotReleasing
    /\ Planned(AllSale, Differing(AllSale), 0, "write")
    /\ status' = "APPLYING" /\ ending' = FALSE
    /\ wholes' = wholes + 1
    /\ UNCHANGED <<heldFrom, shopify, mirror, baseline, queue, hook, answer, history, edits, crashes>>

(* With every price an open event is about kept, or with none. *)
Revert ==
    /\ Begins /\ NotReleasing
    /\ \E kept \in {{}, {events[e].variant : e \in Pending}} :
          Planned(baseline, Differing(baseline) \ kept, 0, "write")
    /\ status' = "REVERTING" /\ ending' = TRUE
    /\ wholes' = wholes + 1
    /\ UNCHANGED <<heldFrom, shopify, mirror, baseline, queue, hook, answer, history, edits, crashes>>

(* Written and read back; or nobody knows, whether or not it landed. *)
RunWrite(v) ==
    /\ run.stage = "write" /\ v \in run.wants \ (run.done \cup run.lost)
    /\ \/ /\ Sold(v, run.to[v], "run")
          /\ \E how \in {"done", "lost"} :
                run' = [run EXCEPT !.done = @ \cup IF how = "done" THEN {v} ELSE {},
                                   !.lost = @ \cup IF how = "lost" THEN {v} ELSE {},
                                   !.at[v] = change[v] + 1]
       \/ /\ run' = [run EXCEPT !.lost = @ \cup {v}, !.at[v] = change[v]]
          /\ UNCHANGED <<shopify, excused>>
    /\ UNCHANGED <<campaign, mirror, intents, baseline, queue, hook, answer, again, counts>>

(* settleMirror: what was read back, or unknown, where the mirror has nothing newer. *)
RunSettle ==
    LET wrote == run.done \cup run.lost
        mine == {v \in wrote : seen[v] <= run.at[v]} IN
    /\ run.stage = "write" /\ run.wants = wrote
    /\ \A v \in mine : NotKeeping(v) /\ ("check" \in Weak \/ ~InHook(v))
    /\ surface' = [v \in Variants |-> IF v \notin mine THEN surface[v]
                                      ELSE IF v \in run.done THEN run.to[v] ELSE "unknown"]
    /\ seen' = [v \in Variants |-> IF v \in mine THEN run.at[v] ELSE seen[v]]
    /\ RunTo(IF run.event = 0 THEN "final" ELSE "close")
    /\ UNCHANGED <<campaign, shopify, intents, baseline, queue, hook, answer, history, counts>>

(* Whole campaigns: through the state machine, from wherever the campaign is by
   now.  A move it refuses throws, and nothing is closed. *)
RunFinal ==
    LET to == IF run.lost # {} THEN "PARTIAL" ELSE IF ending THEN "COMPLETED" ELSE "ACTIVE" IN
    /\ run.stage = "final"
    /\ MoveIfLegal(to)
    /\ RunTo(IF MayMove(to) THEN "close" ELSE "none")
    /\ UNCHANGED <<ending, heldFrom, shopify, mirror, intents, baseline, queue, hook, answer, history, counts>>

(* Mutant: what the run set out to write. *)
ClosesPlanned == {e \in Pending : events[e].variant \in run.wants}

(* resolveOverwrittenDrift: the open events of what it wrote and read back. *)
Overwritten == {e \in Pending : events[e].variant \in run.done}

RunClose ==
    /\ run.stage = "close"
    /\ \A e \in Overwritten : NotInHand(e) /\ NotBeingHeld(e)
    /\ events' = [e \in Ids |-> IF e \in Overwritten THEN [events[e] EXCEPT !.resolution = "REASSERTED"]
                                ELSE events[e]]
    /\ RunTo(IF run.event = 0 \/ events'[run.event].resolution = "PENDING" THEN "none" ELSE "count")
    /\ UNCHANGED <<campaign, shopify, mirror, intents, baseline, made, hook, answer, history, counts>>

(* By id alone. *)
RunMark ==
    /\ run.stage = "mark" /\ NotBeingHeld(run.event)
    /\ events' = [events EXCEPT ![run.event].resolution = "REASSERTED"]
    /\ RunTo("count")
    /\ UNCHANGED <<campaign, shopify, mirror, intents, baseline, made, hook, answer, history, counts>>

RunCount ==
    /\ run.stage = "count"
    /\ RunTo(IF ReleasesFrom THEN "release" ELSE "none")
    /\ UNCHANGED <<campaign, shopify, mirror, intents, baseline, queue, hook, answer, history, counts>>

RunRelease ==
    /\ run.stage = "release"
    /\ MoveIfLegal(heldFrom)
    /\ RunTo("none")
    /\ UNCHANGED <<ending, heldFrom, shopify, mirror, intents, baseline, queue, hook, answer, history, counts>>

-----------------------------------------------------------------------------
Merchant == \/ \E v \in Variants, price \in Edits \cup {"sale"} : Edit(v, price)
            \/ \E v \in Variants : Expire(v) \/ Sync(v)
Webhook  == \/ \E v \in Variants : \E read \in sent[v] : Take(v, read)
            \/ Find \/ Update \/ Create \/ HoldLook \/ Hold \/ Mirror \/ HookDies
Decision(a) == \/ \E e \in Ids, to \in {"ADOPTED", "IGNORED"} : AnswerBegin(a, e, to)
               \/ \E to \in {"ADOPTED", "IGNORED"} : BatchBegin(a, to)
               \/ AnswerAdopt(a) \/ AnswerClose(a) \/ BatchClaim(a)
               \/ AnswerCount(a) \/ AnswerRelease(a) \/ AnswerDies(a)
Run      == \/ \E e \in Ids : PutBack(e)
            \/ Apply \/ Revert
            \/ \E v \in Variants : RunWrite(v)
            \/ RunSettle \/ RunFinal \/ RunClose \/ RunMark \/ RunCount \/ RunRelease

Next == Merchant \/ Webhook \/ Run \/ \E a \in Answerers : Decision(a)
Spec == Init /\ [][Next]_vars

-----------------------------------------------------------------------------
States == Running \cup {"APPLYING", "REVERTING", "COMPLETED"}
Events == [variant : Variants, observed : Prices, by : {"edit", "run"},
           resolution : Verdicts \cup {"NONE", "PENDING"}]
Hooks  == [stage : {"none", "find", "update", "create", "hold", "holding", "mirror"},
           variant : Variants, read : Reads, event : 0 .. MaxEvents]
Answers == [stage : {"none", "read", "adopted", "batch", "count", "release"},
            event : 0 .. MaxEvents, to : {"ADOPTED", "IGNORED"}, price : Prices, batch : SUBSET Ids]
Runs   == [stage : {"none", "write", "final", "close", "mark", "count", "release"},
           event : 0 .. MaxEvents, to : [Variants -> Prices], wants : SUBSET Variants,
           done : SUBSET Variants, lost : SUBSET Variants, at : [Variants -> Nat]]

(* Every variable keeps its type: above all, a hold is only ever released to a running
   state (lifecycle.server.ts:494), never to the claim it may have been taken from. *)
TypeOK ==
    /\ status \in States /\ ending \in BOOLEAN /\ heldFrom \in {"ACTIVE", "PARTIAL"}
    /\ live \in [Variants -> Prices] /\ change \in [Variants -> Nat]
    /\ sent \in [Variants -> SUBSET Reads]
    /\ surface \in [Variants -> Prices \cup {"unknown"}] /\ seen \in [Variants -> Nat]
    /\ intents \in [Variants -> SUBSET Prices] /\ baseline \in [Variants -> Prices]
    /\ events \in [Ids -> Events] /\ made \in 0 .. MaxEvents
    /\ hook \in Hooks /\ answer \in [Answerers -> Answers] /\ run \in Runs
    /\ excused \in [Variants -> Nat] /\ again \subseteq Variants
    /\ runs \in Nat /\ wholes \in Nat /\ edits \in Nat /\ crashes \in Nat

Quiet == /\ hook.stage = "none" /\ run.stage = "none"
         /\ \A a \in Answerers : answer[a].stage = "none"
         /\ \A v \in Variants : sent[v] = {}

(* A hold is a question: once everything is handled, a held campaign has an open event to
   release it, and (no whole run having moved it since) a campaign with an open event is held.
   drift.server.ts:579 "a campaign with nothing left pending runs again" and :341
   "Recording alone would leave the campaign looking healthy". *)
HoldIsAQuestion ==
    Quiet => /\ status = "HELD" => Pending # {}
             /\ (wholes = 0 /\ Pending # {}) => status = "HELD"

(* Every edit is asked about: while the campaign controls a price, the storefront shows the
   campaign's price, or a price some event put to the merchant and that was not answered
   by putting it back, or one a run wrote, or one set when nobody had to be asked.
   products-webhook.server.ts:252. *)
EveryEditIsAsked ==
    (Quiet /\ Controls) =>
        \A v \in Variants :
            \/ live[v] = "sale" \/ excused[v] = change[v]
            \/ \E e \in 1 .. made : /\ events[e].variant = v /\ events[e].observed = live[v]
                                    /\ events[e].resolution # "REASSERTED"

(* No run's own write is ever put to the merchant as an edit (drift.server.ts:60). *)
NoFalseAlarm == \A e \in 1 .. made : events[e].by = "edit"

(* An answer is given once, to the question as it stands, and never changes
   (drift.server.ts:591 "must not rewrite the first"). *)
AnswersStand ==
    [][/\ \A e \in Ids : events[e].resolution \in Verdicts => events'[e] = events[e]
       /\ \A a \in Answerers :
             (answer[a].stage \in {"read", "adopted"} /\ answer'[a].stage = "count")
                => events[answer[a].event].observed = answer[a].price]_vars

(* A baseline is never moved to a price the mirror contradicts at that moment
   (drift.server.ts:602 "it must still be the price on the storefront"). *)
KeptWasShown ==
    [][\A v \in Variants : baseline'[v] # baseline[v] => surface[v] \in {baseline'[v], "unknown"}]_vars
=============================================================================
