------------------------------- MODULE Ledger -------------------------------
(* How a run of one campaign writes prices and what it leaves on record.

   Runs of a campaign follow one another (module CampaignRuns is about why).
   Each plans from the mirror, the app's own copy of the prices Shopify shows;
   writes a ledger row for every variant it will send; sends them, one request
   after another (the sync path) or as one bulk operation that Shopify works
   through by itself; records what came back; and settles the mirror before it
   says it has finished.  A process can die at any step.  What it leaves is
   picked up by the reaper and by the campaign's next run, which first asks
   Shopify how a recorded bulk operation ended.

   A price is the baseline, the campaign's, somebody's edit, or "odd": not the
   price Shopify was asked for, where it accepted one and stored another.
   Markets, tags and compare-at prices are not here: whatever goes wrong there
   makes a run PARTIAL, a choice FinishRow leaves open.  The reaper reclaims
   only runs whose process has died. *)
EXTENDS Integers, FiniteSets

CONSTANTS
    Variants,
    Weak,       \* which of the five gaps in Gaps can happen
    MaxRuns,    \* bounds for TLC, none of them in the code: runs,
    MaxEdits,   \* edits and deletions by others,
    MaxCrashes  \* and processes that die

(* "answer": Shopify accepts a bulk operation and the run never records it.
   "look": a call has asked about bulk operations before another run starts,
   and goes on after it.  "mirror": settling the mirror after a failure fails.
   "reaper": the reaper ends a run's row, and a later run begins before it
   settles the mirror, its next statement.  "status": one begins before it
   moves the campaign, its last. *)
Gaps == {"answer", "look", "mirror", "reaper", "status"}

ASSUME WeakAssumption == Weak \subseteq Gaps
ASSUME BoundsAssumption == /\ MaxRuns \in Nat \ {0}
                           /\ MaxEdits \in Nat /\ MaxCrashes \in Nat

Runs == 1 .. MaxRuns

VARIABLES
    live,      \* the price Shopify shows
    mirror,    \* variant_index and its surface entry: what the app believes, "unknown" for null
    ver,       \* the version Shopify stamped on that price: StampOf(r) for run r's write, one more for an edit
    mver,      \* the version the mirror's row carries (remoteUpdatedAt)
    campaign,  \* Campaign.status
    before,    \* the status the current claim came from
    cur,       \* the latest run, 0 before the first
    kind,      \* APPLY or REVERT, by run
    state,     \* CampaignRun.status, by run
    row,       \* VariantChange.status by run and variant, "none" for no row
    op,        \* Shopify's side of a run's bulk operation, by variant
    rec,       \* runs with a BulkOperationRecord
    pc,        \* where the process at work is
    got,       \* what it has in memory of each variant
    found,     \* the run whose bulk operation this call has just settled, 0 for none
    early,     \* another call has looked already, and waits
    reap,      \* the reaper at each run
    settled,   \* history: runs whose mirror follows their rows, or that sent nothing
    edits, crashes

shopify == <<live, ver, op>>
mirrored == <<mirror, mver>>
books   == <<row, state, rec, cur, kind>>
others  == <<early, reap, edits, crashes>>
world   == <<found, early, reap, edits, crashes>>
vars    == <<live, ver, mirror, mver, campaign, before, cur, kind, state, row, op, rec, pc, got,
             found, early, reap, settled, edits, crashes>>

Kinds     == {"APPLY", "REVERT"}
Others    == {"edit", "gone"}
Prices    == {"base", "sale", "odd"} \cup Others
RowStates == {"none", "PENDING", "WRITING", "APPLIED", "VERIFIED", "FAILED", "SKIPPED"}
Outcomes  == {"none", "unverified", "verified", "failed", "deleted"}
OpStates  == {"none", "queued", "ok", "refused", "gone", "missing"}
Statuses  == {"DRAFT", "APPLYING", "ACTIVE", "REVERTING", "PARTIAL", "COMPLETED"}
Writing   == {"writing", "submitted", "polling"}
Stages    == {"idle", "settled", "asked", "reading", "recording", "settling", "finishing",
              "final", "threw", "failmirror", "failcampaign"} \cup Writing

StampOf(r) == r * (MaxEdits + 1)
Goal(k)    == IF k = "APPLY" THEN "sale" ELSE "base"
ClaimOf(k) == IF k = "APPLY" THEN "APPLYING" ELSE "REVERTING"
From(k)    == IF k = "APPLY" THEN {"DRAFT", "APPLYING", "ACTIVE", "PARTIAL", "COMPLETED"}
                             ELSE {"ACTIVE", "PARTIAL", "REVERTING"}

Executing    == \E r \in Runs : state[r] = "EXECUTING"
Applying(r)  == \E v \in Variants : op[r][v] = "queued"
InFlight(r)  == \E v \in Variants : row[r][v] = "WRITING"
Submitted(r) == r \in rec /\ InFlight(r)
Newest(r)    == Submitted(r) /\ \A q \in Runs : Submitted(q) => q <= r

Init ==
    /\ live = [v \in Variants |-> "base"]
    /\ mirror = [v \in Variants |-> "base"]
    /\ ver = [v \in Variants |-> 0]
    /\ mver = [v \in Variants |-> 0]
    /\ campaign = "DRAFT" /\ before = "DRAFT"
    /\ cur = 0
    /\ kind = [r \in Runs |-> "APPLY"]
    /\ state = [r \in Runs |-> "NONE"]
    /\ row = [r \in Runs |-> [v \in Variants |-> "none"]]
    /\ op = [r \in Runs |-> [v \in Variants |-> "none"]]
    /\ rec = {}
    /\ pc = "idle"
    /\ got = [v \in Variants |-> "none"]
    /\ found = 0 /\ early = FALSE
    /\ reap = [r \in Runs |-> "idle"]
    /\ settled = Runs
    /\ edits = 0 /\ crashes = 0

(* Shopify stores a price for run r; a variant that is gone has none. *)
Store(r, v, price) ==
    /\ live[v] # "gone"
    /\ live' = [live EXCEPT ![v] = price]
    /\ ver' = [ver EXCEPT ![v] = StampOf(r)]

Keep == UNCHANGED <<live, ver>>

(* Edits the mirror knows of. *)
Edited == {v \in Variants : mirror[v] = "edit" /\ live[v] = "edit"}

-----------------------------------------------------------------------------
(* The mirror, from a run's ledger. *)

(* Mutant, as before #1106: read back is enough. *)
LandedAnyway(r) == {v \in Variants : row[r][v] = "VERIFIED"}

(* Read back by run r, and the mirror has no later version of it. *)
Landed(r) == {v \in Variants : row[r][v] = "VERIFIED" /\ mver[v] <= StampOf(r)}

(* Mutant, as before #699: a row nobody read back leaves the mirror as it is. *)
LandedOnly(r) ==
    [v \in Variants |-> IF v \in Landed(r) THEN Goal(kind[r]) ELSE mirror[v]]

(* A row read back is live; one that may have been sent is unknown. *)
SettledMirror(r) ==
    [v \in Variants |->
        CASE v \in Landed(r) -> Goal(kind[r])
          [] row[r][v] \in {"PENDING", "WRITING", "APPLIED", "FAILED"} -> "unknown"
          [] OTHER -> mirror[v]]

Settle(r) == /\ mirror' = SettledMirror(r)
             /\ mver' = [v \in Variants |-> IF v \in Landed(r) /\ mver[v] < StampOf(r)
                                         THEN StampOf(r) ELSE mver[v]]
             /\ settled' = settled \cup {r}

-----------------------------------------------------------------------------
(* Before a run: the last bulk operation, and the plan. *)

(* What a result file says of a row; nothing when Shopify has forgotten the operation. *)
FromFile(outcome) == CASE outcome = "ok"      -> "VERIFIED"
                       [] outcome = "refused" -> "FAILED"
                       [] outcome = "gone"    -> "SKIPPED"
                       [] OTHER               -> "APPLIED"

(* Mutant: whatever was sent is asked about only once it has been settled. *)
AskBlind ==
    /\ pc = "idle" /\ ~Executing
    /\ pc' = "asked"
    /\ UNCHANGED <<shopify, mirrored, campaign, before, books, got, settled, world>>

(* No operation of the campaign holds rows of a run that is over. *)
Ask ==
    /\ pc = "idle" /\ ~Executing
    /\ \A r \in Runs : ~Submitted(r)
    /\ pc' = "asked"
    /\ UNCHANGED <<shopify, mirrored, campaign, before, books, got, settled, world>>

(* One does, and Shopify has ended it: its rows are settled in one transaction. *)
SettleBulk(r) ==
    /\ pc = "idle" /\ ~Executing
    /\ Newest(r) /\ ~Applying(r)
    /\ found' = r
    /\ \E known \in BOOLEAN :
          row' = [row EXCEPT ![r] = [v \in Variants |->
                    IF @[v] # "WRITING" THEN @[v]
                    ELSE FromFile(IF known THEN op[r][v] ELSE "missing")]]
    /\ pc' = "settled"
    /\ settled' = settled \ {r}
    /\ UNCHANGED <<shopify, mirrored, campaign, before, state, rec, cur, kind, got, others>>

SettleBulkMirror ==
    /\ pc = "settled"
    /\ Settle(found)
    /\ found' = 0
    /\ pc' = "asked"
    /\ UNCHANGED <<shopify, campaign, before, books, got, others>>

(* The gap "look": a second call asks now, and goes on after the run in between. *)
LookEarly ==
    /\ "look" \in Weak
    /\ pc = "asked" /\ ~early
    /\ early' = TRUE
    /\ UNCHANGED <<shopify, mirrored, campaign, before, books, pc, got, settled, found, reap, edits, crashes>>

GoOnLate ==
    /\ pc = "idle" /\ early /\ ~Executing
    /\ early' = FALSE
    /\ pc' = "asked"
    /\ UNCHANGED <<shopify, mirrored, campaign, before, books, got, settled, found, reap, edits, crashes>>

(* Variants the mirror does not already show at the price wanted. *)
Off(m, k) == {v \in Variants : m[v] \notin {Goal(k), "gone"}}

(* What this campaign's applies wrote and read back since a revert last finished. *)
TakenBack ==
    {v \in Variants :
        /\ mirror[v] # "gone"
        /\ \E r \in Runs : /\ kind[r] = "APPLY" /\ row[r][v] = "VERIFIED"
                           /\ ~\E q \in Runs : q > r /\ kind[q] = "REVERT" /\ state[q] = "COMPLETED"}

(* A revert asks Shopify about what it wrote and is about to leave alone. *)
Refreshed(k) ==
    IF k = "APPLY" THEN mirror
    ELSE [v \in Variants |-> IF v \in TakenBack \ Off(mirror, k) /\ live[v] # "gone"
                             THEN live[v] ELSE mirror[v]]

(* What the run being resumed settled, and what a resumed revert had kept (or
   found deleted, of which there is nothing to send). *)
Done(k) == IF cur = 0 \/ k = "REVERT" THEN {}
           ELSE IF kind[cur] # k THEN {}
           ELSE {v \in Variants : row[cur][v] \in {"VERIFIED", "SKIPPED"}}
Kept(k) == IF cur = 0 \/ k = "APPLY" THEN {}
           ELSE IF kind[cur] # k THEN {}
           ELSE {v \in Variants : row[cur][v] = "SKIPPED"}

(* The claim, the plan, the run row and the ledger rows, which no other process
   of this campaign comes between.  A revert may be told to leave edits alone. *)
Start(k, resume) ==
    /\ pc = "asked" /\ cur < MaxRuns /\ ~Executing
    /\ "reaper" \in Weak \/ \A r \in Runs : reap[r] # "mirror"
    /\ "status" \in Weak \/ \A r \in Runs : reap[r] # "campaign"
    /\ campaign \in From(k)
    /\ campaign' = ClaimOf(k) /\ before' = campaign
    /\ mirror' = Refreshed(k)
    /\ \E spare \in IF k = "REVERT" THEN SUBSET Edited ELSE {{}} :
          LET off   == Off(mirror', k)
              alone == spare \cup (IF resume THEN Kept(k) ELSE {})
              sent  == (off \ alone) \ (IF resume THEN Done(k) ELSE {})
          IN  row' = [row EXCEPT ![cur + 1] = [v \in Variants |->
                        IF v \in sent THEN "PENDING"
                        ELSE IF v \in off \cap alone THEN "SKIPPED" ELSE "none"]]
    /\ cur' = cur + 1
    /\ kind' = [kind EXCEPT ![cur + 1] = k]
    /\ state' = [state EXCEPT ![cur + 1] = "EXECUTING"]
    /\ settled' = settled \ {cur + 1}
    /\ pc' = "writing"
    /\ got' = [v \in Variants |-> "none"]
    /\ UNCHANGED <<shopify, mver, rec, world>>

(* Whatever stops a call before it has a row leaves no trace here. *)
StandAside ==
    /\ pc = "asked"
    /\ pc' = "idle"
    /\ UNCHANGED <<shopify, mirrored, campaign, before, books, got, settled, world>>

-----------------------------------------------------------------------------
(* The sync path: one request after another, then a read-back. *)

Pending == {v \in Variants : row[cur][v] = "PENDING"}
Nothing == \A v \in Variants : got[v] = "none"
Learn(v, what) == got' = [got EXCEPT ![v] = what]

(* A request that throws may have been carried out.  An error no other request
   could escape ends the sending. *)
Send(v) ==
    /\ pc = "writing" /\ cur \notin rec
    /\ v \in Pending /\ got[v] = "none"
    /\ \/ /\ \E price \in {Goal(kind[cur]), "odd"} : Store(cur, v, price)
          /\ Learn(v, "unverified") /\ pc' = pc
       \/ live[v] = "gone" /\ Keep /\ Learn(v, "deleted") /\ pc' = pc
       \/ /\ Keep \/ Store(cur, v, Goal(kind[cur]))
          /\ Learn(v, "failed") /\ pc' \in {pc, "reading"}
    /\ UNCHANGED <<op, mirrored, campaign, before, books, settled, world>>

AllSent ==
    /\ pc = "writing"
    /\ \A v \in Pending : got[v] # "none"
    /\ pc' = "reading"
    /\ UNCHANGED <<shopify, mirrored, campaign, before, books, got, settled, world>>

(* Mutant: what was accepted is taken for live. *)
ReadBackTrusting(v) ==
    /\ pc = "reading" /\ got[v] = "unverified"
    /\ Learn(v, "verified")
    /\ UNCHANGED <<shopify, mirrored, campaign, before, books, pc, settled, world>>

ReadBack(v) ==
    /\ pc = "reading" /\ got[v] = "unverified"
    /\ Learn(v, IF live[v] = Goal(kind[cur]) THEN "verified" ELSE "failed")
    /\ UNCHANGED <<shopify, mirrored, campaign, before, books, pc, settled, world>>

(* A read-back that fails leaves its rows unverified. *)
EndRead ==
    /\ pc = "reading"
    /\ pc' = "recording"
    /\ UNCHANGED <<shopify, mirrored, campaign, before, books, got, settled, world>>

-----------------------------------------------------------------------------
(* The bulk path. *)

Queue == op' = [op EXCEPT ![cur] = [v \in Variants |-> IF v \in Pending THEN "queued" ELSE "none"]]

Submit ==
    /\ pc = "writing" /\ Nothing /\ Pending # {}
    /\ Queue
    /\ pc' = "submitted"
    /\ UNCHANGED <<live, ver, mirrored, campaign, before, books, got, settled, world>>

(* onSubmitted: the record and the rows it holds, in one transaction. *)
Submitting ==
    /\ pc = "submitted"
    /\ rec' = rec \cup {cur}
    /\ row' = [row EXCEPT ![cur] = [v \in Variants |-> IF v \in Pending THEN "WRITING" ELSE @[v]]]
    /\ pc' = "polling"
    /\ UNCHANGED <<shopify, mirrored, campaign, before, state, cur, kind, got, settled, world>>

(* The gap "answer": accepted, but the answer or its record was lost. *)
SubmitLost ==
    /\ "answer" \in Weak
    /\ \/ pc = "writing" /\ Nothing /\ Pending # {} /\ Queue
       \/ pc = "submitted" /\ op' = op
    /\ pc' = "threw"
    /\ UNCHANGED <<live, ver, mirrored, campaign, before, books, got, settled, world>>

(* Shopify, whatever has become of the run. *)
ShopifyApplies(r, v) ==
    /\ op[r][v] = "queued"
    /\ \/ Store(r, v, Goal(kind[r])) /\ op' = [op EXCEPT ![r][v] = "ok"]
       \/ (Keep \/ Store(r, v, "odd")) /\ op' = [op EXCEPT ![r][v] = "refused"]
       \/ live[v] = "gone" /\ Keep /\ op' = [op EXCEPT ![r][v] = "gone"]
       \/ (Keep \/ Store(r, v, Goal(kind[r]))) /\ op' = [op EXCEPT ![r][v] = "missing"]
    /\ UNCHANGED <<mirrored, campaign, before, books, pc, got, settled, world>>

ReadFile ==
    /\ pc = "polling" /\ ~Applying(cur)
    /\ got' = [v \in Variants |->
                 CASE row[cur][v] # "WRITING" -> "none"
                   [] op[cur][v] = "ok" -> "verified"
                   [] op[cur][v] = "refused" -> "failed"
                   [] op[cur][v] = "gone" -> "deleted"
                   [] OTHER -> "unverified"]
    /\ pc' = "recording"
    /\ UNCHANGED <<shopify, mirrored, campaign, before, books, settled, world>>

-----------------------------------------------------------------------------
(* The end of a run. *)

(* Mutant: the executor's word goes into the ledger as it is. *)
RecordRaw(what) == what

(* The executor's word, as a status of the ledger. *)
RecordAs(what) == CASE what = "verified" -> "VERIFIED" [] what = "failed" -> "FAILED"
                    [] what = "deleted" -> "SKIPPED"   [] OTHER -> "APPLIED"

Unrecorded == {v \in Variants : got[v] # "none" /\ row[cur][v] \in {"PENDING", "WRITING"}}

Record(v) ==
    /\ pc = "recording"
    /\ v \in Unrecorded
    /\ row' = [row EXCEPT ![cur][v] = RecordAs(got[v])]
    /\ UNCHANGED <<shopify, mirrored, campaign, before, state, rec, cur, kind, pc, got, settled, world>>

AllRecorded ==
    /\ pc = "recording" /\ Unrecorded = {}
    /\ pc' = "settling"
    /\ UNCHANGED <<shopify, mirrored, campaign, before, books, got, settled, world>>

SettleOwn ==
    /\ pc = "settling"
    /\ Settle(cur)
    /\ pc' = "finishing"
    /\ UNCHANGED <<shopify, campaign, before, books, got, world>>

Clean == \A v \in Variants : got[v] \notin {"failed", "unverified"}

FinishRow ==
    /\ pc = "finishing"
    /\ \E end \in {"PARTIAL"} \cup (IF Clean THEN {"COMPLETED"} ELSE {}) :
          state' = [state EXCEPT ![cur] = end]
    /\ pc' = "final"
    /\ UNCHANGED <<shopify, mirrored, campaign, before, row, rec, cur, kind, got, settled, world>>

Leave == /\ pc' = "idle"
         /\ got' = [v \in Variants |-> "none"]

GiveBack == IF before \in {"APPLYING", "REVERTING"} THEN campaign ELSE before

(* The last transition; one that throws gives the claim back. *)
Final ==
    /\ pc = "final"
    /\ campaign' \in {GiveBack, IF state[cur] = "PARTIAL" THEN "PARTIAL"
                                ELSE IF kind[cur] = "APPLY" THEN "ACTIVE" ELSE "COMPLETED"}
    /\ Leave
    /\ UNCHANGED <<shopify, mirrored, before, books, settled, world>>

-----------------------------------------------------------------------------
(* When it stops half-way. *)

(* Before the first price, or a submission Shopify refused; or, in the gap
   "answer", accepted without saying which operation it is. *)
Unsent ==
    /\ pc = "writing" /\ Nothing
    /\ op' = op \/ ("answer" \in Weak /\ Pending # {} /\ Queue)
    /\ state' = [state EXCEPT ![cur] = "FAILED"]
    /\ campaign' = GiveBack
    /\ settled' = settled \cup {cur}
    /\ Leave
    /\ UNCHANGED <<live, ver, mirrored, before, row, rec, cur, kind, world>>

Throw ==
    /\ pc \in {"writing", "polling", "reading", "recording", "settling", "finishing"}
    /\ pc' = "threw"
    /\ UNCHANGED <<shopify, mirrored, campaign, before, books, got, settled, world>>

(* Mutant: what was not read back is called unsent too. *)
UnclaimedToo(r) == [row EXCEPT ![r] = [v \in Variants |->
                    IF @[v] \in {"WRITING", "APPLIED"} /\ r \notin rec THEN "PENDING" ELSE @[v]]]

(* Rows inside an operation Shopify accepted are sent, not unsent. *)
Unclaimed(r) == [row EXCEPT ![r] = [v \in Variants |->
                    IF @[v] = "WRITING" /\ r \notin rec THEN "PENDING" ELSE @[v]]]

FailRow ==
    /\ pc = "threw"
    /\ state' = [state EXCEPT ![cur] = "PARTIAL"]
    /\ row' = Unclaimed(cur)
    /\ pc' = "failmirror"
    /\ UNCHANGED <<shopify, mirrored, campaign, before, rec, cur, kind, got, settled, world>>

FailMirror ==
    /\ pc = "failmirror"
    /\ Settle(cur)
    /\ pc' = "failcampaign"
    /\ UNCHANGED <<shopify, campaign, before, books, got, world>>

(* The gap "mirror": failRun swallows it, and the claim is given back. *)
FailMirrorFails ==
    /\ "mirror" \in Weak
    /\ pc = "failmirror"
    /\ campaign' = GiveBack
    /\ Leave
    /\ UNCHANGED <<shopify, mirrored, before, books, settled, world>>

FailCampaign ==
    /\ pc = "failcampaign"
    /\ campaign' = "PARTIAL"
    /\ Leave
    /\ UNCHANGED <<shopify, mirrored, before, books, settled, world>>

(* The process dies; or, at "settled", the call throws, which leaves the same. *)
Crash ==
    /\ crashes < MaxCrashes /\ pc # "idle"
    /\ pc = "submitted" => "answer" \in Weak
    /\ Leave /\ found' = 0
    /\ crashes' = crashes + 1
    /\ UNCHANGED <<shopify, mirrored, campaign, before, books, settled, early, reap, edits>>

-----------------------------------------------------------------------------
(* The reaper, and the world outside. *)

(* Mutant, as before #832: rows Shopify holds are called unsent. *)
ReapRowUnsent(r) ==
    /\ state[r] = "EXECUTING" /\ pc = "idle"
    /\ state' = [state EXCEPT ![r] = "PARTIAL"]
    /\ row' = [row EXCEPT ![r] = [v \in Variants |-> IF @[v] = "WRITING" THEN "PENDING" ELSE @[v]]]
    /\ reap' = [reap EXCEPT ![r] = "mirror"]
    /\ UNCHANGED <<shopify, mirrored, campaign, before, rec, cur, kind, pc, got, settled, found, early, edits, crashes>>

ReapRow(r) ==
    /\ state[r] = "EXECUTING" /\ pc = "idle"
    /\ state' = [state EXCEPT ![r] = "PARTIAL"]
    /\ row' = Unclaimed(r)
    /\ reap' = [reap EXCEPT ![r] = "mirror"]
    /\ UNCHANGED <<shopify, mirrored, campaign, before, rec, cur, kind, pc, got, settled, found, early, edits, crashes>>

ReapMirror(r) ==
    /\ reap[r] = "mirror"
    /\ Settle(r)
    /\ reap' = [reap EXCEPT ![r] = "campaign"]
    /\ UNCHANGED <<shopify, campaign, before, books, pc, got, found, early, edits, crashes>>

ReapCampaign(r) ==
    /\ reap[r] = "campaign"
    /\ campaign' = IF campaign \in {"APPLYING", "ACTIVE", "REVERTING"} THEN "PARTIAL" ELSE campaign
    /\ reap' = [reap EXCEPT ![r] = "idle"]
    /\ UNCHANGED <<shopify, mirrored, before, books, pc, got, settled, found, early, edits, crashes>>

(* The worker dies while it is reclaiming, or a statement of its fails for good:
   no sweep finds the run again. *)
ReaperCrash(r) ==
    /\ crashes < MaxCrashes /\ reap[r] # "idle"
    /\ reap' = [reap EXCEPT ![r] = "idle"]
    /\ crashes' = crashes + 1
    /\ UNCHANGED <<shopify, mirrored, campaign, before, books, pc, got, settled, found, early, edits>>

(* A merchant, or another app, edits or deletes a variant; later its webhook
   reaches the mirror, or never does.  An echo of our own write is recognised
   and dropped. *)
Outside(v) ==
    /\ edits < MaxEdits /\ live[v] # "gone"
    /\ \E price \in Others : live' = [live EXCEPT ![v] = price]
    /\ ver' = [ver EXCEPT ![v] = @ + 1]
    /\ edits' = edits + 1
    /\ UNCHANGED <<op, mirrored, campaign, before, books, pc, got, settled, found, early, reap, crashes>>

Webhook(v) ==
    /\ live[v] \in Others /\ mirror[v] # live[v]
    /\ mirror' = [mirror EXCEPT ![v] = live[v]]
    /\ mver' = [mver EXCEPT ![v] = ver[v]]
    /\ UNCHANGED <<shopify, campaign, before, books, pc, got, settled, world>>

-----------------------------------------------------------------------------
Next ==
    \/ Ask \/ LookEarly \/ GoOnLate \/ StandAside
    \/ (\E r \in Runs : SettleBulk(r)) \/ SettleBulkMirror
    \/ \E k \in Kinds, resume \in BOOLEAN : Start(k, resume)
    \/ \E v \in Variants : Send(v) \/ ReadBack(v) \/ Record(v) \/ Outside(v) \/ Webhook(v)
    \/ AllSent \/ EndRead \/ Submit \/ Submitting \/ SubmitLost \/ ReadFile
    \/ \E r \in Runs, v \in Variants : ShopifyApplies(r, v)
    \/ AllRecorded \/ SettleOwn \/ FinishRow \/ Final
    \/ Unsent \/ Throw \/ FailRow \/ FailMirror \/ FailMirrorFails \/ FailCampaign \/ Crash
    \/ \E r \in Runs : ReapRow(r) \/ ReapMirror(r) \/ ReapCampaign(r) \/ ReaperCrash(r)

Spec == Init /\ [][Next]_vars

-----------------------------------------------------------------------------
(* The types of every variable. *)
TypeOK ==
    /\ live \in [Variants -> Prices]
    /\ ver \in [Variants -> 0 .. StampOf(MaxRuns) + MaxEdits]
    /\ mirror \in [Variants -> Prices \cup {"unknown"}]
    /\ mver \in [Variants -> 0 .. StampOf(MaxRuns) + MaxEdits]
    /\ campaign \in Statuses /\ before \in Statuses
    /\ cur \in 0 .. MaxRuns
    /\ kind \in [Runs -> Kinds]
    /\ state \in [Runs -> {"NONE", "EXECUTING", "COMPLETED", "PARTIAL", "FAILED"}]
    /\ row \in [Runs -> [Variants -> RowStates]]
    /\ op \in [Runs -> [Variants -> OpStates]]
    /\ rec \subseteq Runs
    /\ pc \in Stages
    /\ got \in [Variants -> Outcomes]
    /\ found \in 0 .. MaxRuns /\ early \in BOOLEAN
    /\ reap \in [Runs -> {"idle", "mirror", "campaign"}]
    /\ settled \subseteq Runs
    /\ edits \in 0 .. MaxEdits /\ crashes \in 0 .. MaxCrashes

(* The mirror says what Shopify shows or that it does not know, except of an
   edit whose webhook is still to come, a row Shopify may be working on, and a
   run that has not settled its mirror (or died before it could). *)
MirrorHonest ==
    \A v \in Variants :
        \/ mirror[v] \in {live[v], "unknown"}
        \/ live[v] \in Others /\ mver[v] < ver[v]
        \/ \E r \in Runs : row[r][v] = "WRITING" \/ (row[r][v] # "none" /\ r \notin settled)

(* "Still running: nothing writes" (execute.server.ts:300): no run sends a
   price while Shopify is still working through an operation of an earlier one. *)
NothingWritesMeanwhile ==
    \A r \in Runs : r # cur /\ Applying(r) => pc \notin Writing

(* Rows of a run that is over are what they seem: one that reads PENDING, for a
   resume to send again, is not still in Shopify's hands. *)
PendingIsUnsent ==
    \A r \in Runs, v \in Variants :
        row[r][v] = "PENDING" /\ state[r] \in {"PARTIAL", "FAILED", "COMPLETED"} => op[r][v] # "queued"

(* The ledger only fills in: what a row has been settled as it stays, and a row
   is settled by its own run, or after it out of WRITING. *)
LedgerMoves ==
    [][\A r \in Runs, v \in Variants :
          row'[r][v] # row[r][v] =>
              /\ row[r][v] \in {"none", "PENDING", "WRITING"}
              /\ row[r][v] = "PENDING" => state[r] = "EXECUTING"]_row

(* What a run that says COMPLETED promises: see CleanReport. *)
Said == IF cur = 0 THEN "none" ELSE IF state[cur] = "COMPLETED" THEN kind[cur] ELSE "none"
Report == INSTANCE CleanReport WITH said <- Said
ReportSpec == Report!Spec
=============================================================================
