------------------------------ MODULE Overlap ------------------------------
(* Several campaigns on one variant: who prices it, what a revert puts back, and
   whom an edit is asked of.

   Prices never stack.  Every plan resolves anew which of the campaigns that are
   pricing covers the variant and outranks the others, and writes that one's price;
   a revert resolves without its own campaign and so may write another's, under its
   own row.  Whose price that is, the ledger does not say: the drift detector and the
   other campaign's revert ask the planner (D16).

   One variant.  A run is its claim, its plan with its row, and its write with all
   that follows; CampaignRuns, Ledger and DriftHold take those steps apart.  Each
   campaign has one price of its own, each edit a price that is nobody's. *)
EXTENDS Integers, Sequences, FiniteSetsExt

CONSTANTS
    Campaigns,
    Rank,        \* compareCampaigns: priority, then start, then id
    Hands,       \* prices set outside the app
    Weak,        \* which of the gaps in Gaps can happen
    MaxRuns,     \* bounds for TLC: runs,
    MaxEdits,    \* edits,
    MaxMoves,    \* changes of a scope,
    MaxTroubles  \* and everything that fails

(* "beside": two campaigns' runs at once.  "givenback": a revert fails before its first
   price.  "unlanded": a price that was stored without being recorded replaces an edit
   that is being asked about, is itself edited, or leaves the scope it came from.
   "forother": an apply writes the price of a campaign that outranks its own.
   "collapse": an edit comes upon the open question of another campaign, or is on its
   way when a run begins with a question open.  "during": an edit, an answer or a change
   of scope comes while a run is at work. *)
Gaps == {"beside", "givenback", "unlanded", "forother", "collapse", "during"}

Base    == "base"
Unknown == "unknown"
None    == "none"
Kept    == "kept"
Prices  == Campaigns \cup Hands \cup {Base}

ASSUME CampaignsAssumption == IsFiniteSet(Campaigns)
ASSUME NamesAssumption  == Prices \cap {Unknown, None, Kept} = {} /\ Base \notin Campaigns \cup Hands
                           /\ Campaigns \cap Hands = {}
ASSUME RankAssumption   == /\ Rank \in [Campaigns -> Nat \ {0}]
                           /\ \A c, d \in Campaigns : Rank[c] = Rank[d] => c = d
ASSUME WeakAssumption   == Weak \subseteq Gaps
ASSUME BoundsAssumption == /\ MaxRuns \in Nat /\ MaxEdits \in Nat
                           /\ MaxMoves \in Nat /\ MaxTroubles \in Nat

VARIABLES
    live,     \* the price Shopify shows
    mirror,   \* the price in price_surface_entries
    scope,    \* the campaigns whose scope covers the variant now
    status,   \* Campaign.status
    before,   \* the state each claim was taken from
    work,     \* the run each campaign has under way
    ledger,   \* whole-campaign runs, oldest first, with the row each has of this variant
    event,    \* the campaign the variant's open drift event names
    runs, edits, moves, troubles

counts == <<runs, edits, moves, troubles>>
vars   == <<live, mirror, scope, status, before, work, ledger, event, counts>>

Rest    == {"DRAFT", "ACTIVE", "PARTIAL", "HELD", "COMPLETED"}
Kinds   == {"APPLY", "REVERT"}
NoWork  == [stage |-> "idle", kind |-> "APPLY", resume |-> FALSE, row |-> 0, want |-> None]

Init ==
    /\ live = Base /\ mirror = Base
    /\ scope \in SUBSET Campaigns
    /\ status = [c \in Campaigns |-> "DRAFT"]
    /\ before = [c \in Campaigns |-> "DRAFT"]
    /\ work = [c \in Campaigns |-> NoWork]
    /\ ledger = << >>
    /\ event = None
    /\ runs = 0 /\ edits = 0 /\ moves = 0 /\ troubles = 0

AtWork(c) == work[c].stage # "idle"
AtRest    == \A c \in Campaigns : ~AtWork(c)

Trouble == troubles < MaxTroubles /\ troubles' = troubles + 1

-----------------------------------------------------------------------------
(* What the ledger says. *)

RunsOf(c) == {i \in DOMAIN ledger : ledger[i].camp = c}
Landed    == {i \in DOMAIN ledger : ledger[i].out \in Prices}
Newest    == ledger[Max(Landed)]

LastEnd(c) == Max({0} \cup {i \in RunsOf(c) : ledger[i].kind = "REVERT" /\ ledger[i].state = "COMPLETED"})

(* runToResume: the campaign's latest whole run, whatever became of it. *)
LastRun(c) == Max({0} \cup RunsOf(c))

(* endingAmong: the latest whole run is a revert. *)
Ending(c) == LastRun(c) # 0 /\ ledger[LastRun(c)].kind = "REVERT"

Pricing == {"APPLYING", "ACTIVE", "HELD", "PARTIAL"}

(* Mutant: only a campaign that reads ACTIVE prices its products (#821). *)
ActiveOnly == {c \in Campaigns : status[c] = "ACTIVE" /\ ~Ending(c)}

(* competingCampaigns. *)
Competing == {c \in Campaigns : status[c] \in Pricing /\ ~Ending(c)}

(* selectWinner. *)
Best(C) == CHOOSE c \in C : \A d \in C : Rank[d] <= Rank[c]
Resolve(C) == IF C = {} THEN Base ELSE Best(C)

(* pricesWrittenBy: landed by an apply since the campaign last ended. *)
Wrote(c) == \E i \in Landed \cap RunsOf(c) : ledger[i].kind = "APPLY" /\ i > LastEnd(c)

(* inheritors: the campaign the planner leaves the variant with, were price p live.
   An open event keeps it for the campaign that was asked; a price that the scopes no
   longer account for is still its own campaign's. *)
Inheritor(C, p) == IF event \in C THEN event ELSE IF p \in C THEN p ELSE None

(* inheritedBy: the newest landed row is another campaign's revert, and gave c's price. *)
Inherited(c) ==
    /\ Landed # {} /\ Max(Landed) > LastEnd(c)
    /\ Newest.kind = "REVERT" /\ Newest.camp # c
    /\ Inheritor({c} \cup Competing, Newest.out) = c

(* Mutant: a revert takes back what its own campaign wrote, and no more (#998). *)
OwnOnly(c) == Wrote(c)

(* revertTakesBack. *)
TakesBack(c) == Wrote(c) \/ Inherited(c)

-----------------------------------------------------------------------------
(* A run. *)

From == [APPLY  |-> {"DRAFT", "ACTIVE", "HELD", "PARTIAL", "COMPLETED"},
         REVERT |-> {"ACTIVE", "HELD", "PARTIAL"}]

Claim(c, kind, resume) ==
    /\ ~AtWork(c) /\ runs < MaxRuns
    /\ "beside" \in Weak \/ AtRest
    /\ "collapse" \in Weak \/ event = None \/ mirror = live
    /\ status[c] \in From[kind]
    /\ resume => status[c] = "PARTIAL" /\ ledger[LastRun(c)].kind = kind
    /\ runs' = runs + 1
    /\ status' = [status EXCEPT ![c] = IF kind = "APPLY" THEN "APPLYING" ELSE "REVERTING"]
    /\ before' = [before EXCEPT ![c] = status[c]]
    /\ work' = [work EXCEPT ![c] = [NoWork EXCEPT !.stage = "claimed", !.kind = kind, !.resume = resume]]
    /\ UNCHANGED <<live, mirror, scope, ledger, event, edits, moves, troubles>>

Reverts(c) == work[c].kind = "REVERT"
Others(c)  == Competing \ {c}

(* An apply's candidates are its scope's; a revert's are also what it takes back. *)
Candidate(c) == c \in scope \/ (Reverts(c) /\ TakesBack(c))

(* planRun: the campaign planned covers its candidates, the others what their scopes do. *)
Want(c) == Resolve((Others(c) \cap scope) \cup (IF Reverts(c) THEN {} ELSE {c}))

(* Mutant: another campaign's open question is no reason to stand back (#821). *)
Unheld(c) == FALSE

(* heldEditsOf: another campaign has asked about an edit and waits for the answer. *)
Held(c) == event \in Others(c)

(* A revert does not take the mirror's word that what it wrote is already back (#828). *)
Shown(c) == IF Reverts(c) /\ TakesBack(c) /\ ~Held(c) /\ mirror = Want(c) THEN live ELSE mirror

(* planResume, and the edits a resumed revert keeps. *)
Before(c) == IF work[c].resume THEN ledger[LastRun(c)].out ELSE None

(* The row this run has of the variant: its price, "kept" for an edit that the merchant
   ticked to keep (here or on the revert resumed), or none. *)
Rows(c, keep) ==
    IF ~Candidate(c) \/ Held(c) \/ Shown(c) = Want(c) THEN None
    ELSE IF Reverts(c) THEN IF keep \/ Before(c) = Kept THEN Kept ELSE Want(c)
    ELSE IF Before(c) \in Prices THEN None ELSE Want(c)

Plan(c, keep) ==
    /\ work[c].stage = "claimed"
    /\ keep => Reverts(c) /\ Shown(c) \in Hands
    /\ LET row == Rows(c, keep) IN
         /\ "forother" \in Weak \/ Reverts(c) \/ row \in {None, c}
         /\ mirror' = Shown(c)
         /\ ledger' = Append(ledger, [camp |-> c, kind |-> work[c].kind, state |-> "EXECUTING",
                                      out |-> IF row = Kept THEN Kept ELSE None])
         /\ work' = [work EXCEPT ![c].stage = "planned", ![c].row = Len(ledger'),
                                 ![c].want = IF row = Kept THEN None ELSE row]
    /\ UNCHANGED <<live, scope, status, before, event, counts>>

(* runCampaign's catch, before the first price: the claim goes back, a row reads FAILED. *)
Stop(c) ==
    /\ AtWork(c)
    /\ Trouble
    /\ Reverts(c) /\ work[c].stage = "planned" => "givenback" \in Weak
    /\ status' = [status EXCEPT ![c] = before[c]]
    /\ ledger' = IF work[c].stage = "planned" THEN [ledger EXCEPT ![work[c].row].state = "FAILED"] ELSE ledger
    /\ work' = [work EXCEPT ![c] = NoWork]
    /\ UNCHANGED <<live, mirror, scope, before, event, runs, edits, moves>>

Outcome(c, clean) == IF ~clean THEN "PARTIAL" ELSE IF Reverts(c) THEN "COMPLETED" ELSE "ACTIVE"

(* Sent, read back, recorded, the mirror settled, the campaign moved on, and the question
   closed that the write has answered.  `clean` is about the campaign's other variants too. *)
Ends(c, row, clean) ==
    /\ ledger' = [ledger EXCEPT ![work[c].row].state = IF clean THEN "COMPLETED" ELSE "PARTIAL",
                                ![work[c].row].out = IF row = None THEN @ ELSE row]
    /\ status' = [status EXCEPT ![c] = Outcome(c, clean)]
    /\ work' = [work EXCEPT ![c] = NoWork]

Write(c, clean) ==
    /\ work[c].stage = "planned" /\ work[c].want # None
    /\ IF clean THEN UNCHANGED troubles ELSE Trouble
    /\ live' = work[c].want /\ mirror' = work[c].want
    /\ event' = None
    /\ Ends(c, work[c].want, clean)
    /\ UNCHANGED <<scope, before, runs, edits, moves>>

(* Refused, or stored and not recorded: either way the price is not known. *)
Fail(c, stored) ==
    /\ work[c].stage = "planned" /\ work[c].want # None
    /\ Trouble
    /\ stored => "unlanded" \in Weak \/ event = None
    /\ live' = IF stored THEN work[c].want ELSE live
    /\ mirror' = Unknown
    /\ Ends(c, None, FALSE)
    /\ UNCHANGED <<scope, before, event, runs, edits, moves>>

WriteNothing(c, clean) ==
    /\ work[c].stage = "planned" /\ work[c].want = None
    /\ IF clean THEN UNCHANGED troubles ELSE Trouble
    /\ Ends(c, None, clean)
    /\ UNCHANGED <<live, mirror, scope, before, event, runs, edits, moves>>

-----------------------------------------------------------------------------
(* Scopes, edits and answers. *)

(* The newest landed row is at the campaign's price that is up, from this sale. *)
Recorded ==
    live \in Campaigns => Landed # {} /\ Newest.out = live /\ Max(Landed) > LastEnd(live)

(* A tag, a status or a segment changes. *)
Leave(c) ==
    /\ c \in scope /\ moves < MaxMoves
    /\ "during" \in Weak \/ AtRest
    /\ "unlanded" \in Weak \/ live # c \/ Recorded
    /\ scope' = scope \ {c} /\ moves' = moves + 1
    /\ UNCHANGED <<live, mirror, status, before, work, ledger, event, runs, edits, troubles>>

(* Entering the scope of a running campaign is Enrollment's. *)
Enter(c) ==
    /\ c \notin scope /\ moves < MaxMoves
    /\ status[c] \in {"DRAFT", "COMPLETED"}
    /\ scope' = scope \cup {c} /\ moves' = moves + 1
    /\ UNCHANGED <<live, mirror, status, before, work, ledger, event, runs, edits, troubles>>

Controlling == {c \in Campaigns : status[c] \in {"ACTIVE", "PARTIAL", "HELD"}}

(* Mutant: the newest row's campaign is asked, a revert's own too. *)
ByNewestRow == IF Landed # {} /\ Newest.camp \in Controlling THEN Newest.camp ELSE None

(* controllingCampaign: by the ledger, or by the planner where the newest write was a revert's. *)
OfControlling == {i \in Landed : ledger[i].camp \in Controlling}

PricedBy ==
    IF Newest.kind = "REVERT" THEN Inheritor(Competing, Newest.out)
    ELSE IF OfControlling = {} THEN None ELSE ledger[Max(OfControlling)].camp

AskedOf == IF Landed # {} /\ PricedBy \in Controlling /\ ~Ending(PricedBy) THEN PricedBy ELSE None

Edit(p) ==
    /\ edits < MaxEdits /\ p # live
    /\ "during" \in Weak \/ AtRest
    /\ "unlanded" \in Weak \/ Recorded
    /\ "collapse" \in Weak \/ event \in {None, AskedOf}
    /\ live' = p /\ edits' = edits + 1
    /\ UNCHANGED <<mirror, scope, status, before, work, ledger, event, runs, moves, troubles>>

(* checkForDrift: not where the mirror knows no price, nor for an echo of ours. *)
Drifted == mirror # Unknown /\ live \in Hands

(* holdForDrift. *)
HoldFor(c) ==
    status' = IF status[c] \in {"ACTIVE", "PARTIAL"} THEN [status EXCEPT ![c] = "HELD"] ELSE status

(* The webhook of whatever changed the price. *)
Deliver ==
    /\ mirror # live
    /\ "during" \in Weak \/ AtRest
    /\ mirror' = live
    /\ IF Drifted /\ AskedOf # None
       THEN /\ event' = IF event = None THEN AskedOf ELSE event
            /\ HoldFor(AskedOf)
       ELSE UNCHANGED <<event, status>>
    /\ UNCHANGED <<live, scope, before, work, ledger, counts>>

Finished(c) == {i \in RunsOf(c) : ledger[i].state # "FAILED"}

(* "Leave it for now": the question is answered, and its campaign released to what it was held from. *)
Answer ==
    /\ event # None
    /\ "during" \in Weak \/ AtRest
    /\ event' = None
    /\ status' = IF status[event] = "HELD"
                 THEN [status EXCEPT ![event] = IF ledger[Max(Finished(event))].state = "PARTIAL"
                                                THEN "PARTIAL" ELSE "ACTIVE"]
                 ELSE status
    /\ UNCHANGED <<live, mirror, scope, before, work, ledger, counts>>

-----------------------------------------------------------------------------
Next ==
    \/ \E c \in Campaigns :
         \/ \E k \in Kinds, resume \in BOOLEAN : Claim(c, k, resume)
         \/ \E keep \in BOOLEAN : Plan(c, keep)
         \/ Stop(c)
         \/ \E b \in BOOLEAN : Write(c, b) \/ Fail(c, b) \/ WriteNothing(c, b)
         \/ Leave(c) \/ Enter(c)
    \/ \E p \in Hands : Edit(p)
    \/ Deliver \/ Answer

Spec == Init /\ [][Next]_vars

-----------------------------------------------------------------------------
Work == [stage : {"idle", "claimed", "planned"}, kind : Kinds, resume : BOOLEAN,
         row : Nat, want : Prices \cup {None}]
Row  == [camp : Campaigns, kind : Kinds, state : {"EXECUTING", "COMPLETED", "PARTIAL", "FAILED"},
         out : Prices \cup {None, Kept}]

TypeOK ==
    /\ live \in Prices /\ mirror \in Prices \cup {Unknown}
    /\ scope \subseteq Campaigns
    /\ status \in [Campaigns -> Rest \cup {"APPLYING", "REVERTING"}]
    /\ before \in [Campaigns -> Rest]
    /\ work \in [Campaigns -> Work]
    /\ ledger \in Seq(Row)
    /\ event \in Campaigns \cup {None}
    /\ runs \in 0 .. MaxRuns /\ edits \in 0 .. MaxEdits
    /\ moves \in 0 .. MaxMoves /\ troubles \in 0 .. MaxTroubles

RankOf(p) == IF p \in Campaigns THEN Rank[p] ELSE 0

(* Whichever of overlapping campaigns starts or ends first, stops part-way or is resumed,
   no running campaign that covers the variant outranks the one whose price is up
   (rfc-001 I3, prd E1).  A price set by hand is the merchant's and is left alone, and
   so is any price while the merchant is being asked about it. *)
NothingOutranked ==
    AtRest /\ live \notin Hands /\ event = None =>
        \A c \in scope : status[c] \in {"ACTIVE", "HELD"} => Rank[c] <= RankOf(live)

(* No price outlives its campaign: what is up at rest is the price of one that runs or
   has said that it stopped part-way, also where another's revert put it up and the
   product has left every scope since (candidates.server.ts:235, #828, #998). *)
SaleIsOn == AtRest /\ live \in Campaigns => status[live] \in {"ACTIVE", "HELD", "PARTIAL"}

(* An edit of a price that a running campaign had up is asked of that campaign and no
   other, whichever campaign's run wrote it (drift.server.ts:346, D16). *)
EditsAttributed ==
    [][Deliver /\ Drifted /\ mirror \in Controlling /\ ~Ending(mirror)
         => event' = mirror /\ status'[mirror] = "HELD"
            /\ \A c \in Campaigns \ {mirror} : status'[c] = status[c]]_vars

(* A campaign on hold at rest has an open question of its own, whose answer lets it go
   on; no other campaign's run has written over it (model.server.ts:595, #821). *)
HoldHasItsQuestion == AtRest => \A c \in Campaigns : status[c] = "HELD" => event = c

(* What prd E5 says of a product that leaves a running campaign's scope: until the
   campaign ends it keeps its price, but for one that outranks it.  No run checks this:
   every instance violates it (README). *)
StaysPriced ==
    [][\A c \in Campaigns : live = c /\ status[c] = "ACTIVE" /\ live' \notin Hands \cup {c}
         => \E d \in Campaigns : live' = d /\ Rank[d] > Rank[c]]_vars
=============================================================================
