--------------------------- MODULE Ledger_proofs ---------------------------
(* What holds of Ledger for any variants and any number of runs, edits and
   deaths.  Each theorem names the gaps that have to be closed for it. *)
EXTENDS Ledger, TLAPS

(* A run's stamp is a number, and none is later than the last run's. *)
LEMMA Stamps ==
    /\ StampOf(MaxRuns) \in Nat
    /\ \A r \in Runs : StampOf(r) \in Nat /\ StampOf(r) <= StampOf(MaxRuns)
<1>1. ASSUME NEW r \in Runs PROVE StampOf(r) \in Nat /\ StampOf(r) <= StampOf(MaxRuns)
  <2> DEFINE c == MaxEdits + 1
             d == MaxRuns - r
  <2>1. c \in Nat /\ d \in Nat /\ r \in Nat /\ MaxRuns = r + d
    BY BoundsAssumption DEF Runs
  <2>2. StampOf(r) = r * c /\ StampOf(MaxRuns) = r * c + d * c
    BY <2>1 DEF StampOf
  <2> HIDE DEF c, d
  <2>3. r * c \in Nat /\ d * c \in Nat
    BY <2>1
  <2> QED
    BY <2>2, <2>3
<1>2. MaxRuns \in Runs
  BY BoundsAssumption DEF Runs
<1> QED
  BY <1>1, <1>2

-----------------------------------------------------------------------------
(* The invariant. *)

(* No version is later than the last run's and every edit so far. *)
StampsBounded ==
    \A v \in Variants : /\ ver[v] <= StampOf(MaxRuns) + edits
                        /\ mver[v] <= StampOf(MaxRuns) + edits

(* From its rows to its last word a run is the latest, and says it is at work. *)
AtWork == Writing \cup {"reading", "recording", "settling", "finishing", "threw"}
RunAtWork ==
    /\ pc \in AtWork => cur \in Runs /\ state[cur] = "EXECUTING"
    /\ pc \in {"final", "failmirror", "failcampaign"} => cur \in Runs
    /\ pc = "settled" => found \in Runs

(* A run that has not begun has no rows. *)
NoRowsAhead == \A r \in Runs, v \in Variants : r > cur => row[r][v] = "none"

IInv == TypeOK /\ StampsBounded /\ RunAtWork /\ NoRowsAhead

(* It holds before the first run. *)
LEMMA InitOK == Init => IInv
<1> SUFFICES ASSUME Init PROVE IInv
  OBVIOUS
<1> USE DEF Init
<1>1. StampsBounded
  BY Stamps DEF StampsBounded
<1>2. RunAtWork /\ NoRowsAhead
  BY DEF RunAtWork, NoRowsAhead, AtWork, Writing
<1>3. /\ ver \in [Variants -> 0 .. StampOf(MaxRuns) + MaxEdits] /\ mver \in [Variants -> 0 .. StampOf(MaxRuns) + MaxEdits]
      /\ cur \in 0 .. MaxRuns /\ found \in 0 .. MaxRuns
      /\ edits \in 0 .. MaxEdits /\ crashes \in 0 .. MaxCrashes
  BY Stamps, BoundsAssumption
<1>4. TypeOK
  BY <1>3 DEF TypeOK, Kinds, Prices, RowStates, Outcomes, OpStates, Statuses, Stages
<1> QED
  BY <1>1, <1>2, <1>4 DEF IInv

(* Settling the mirror keeps its prices and versions. *)
LEMMA SettleKeeps ==
    ASSUME TypeOK, StampsBounded, NEW r \in Runs, Settle(r)
    PROVE  /\ mirror' \in [Variants -> Prices \cup {"unknown"}]
           /\ mver' \in [Variants -> 0 .. StampOf(MaxRuns) + MaxEdits]
           /\ settled' \subseteq Runs
           /\ \A v \in Variants : mver'[v] <= StampOf(MaxRuns) + edits
<1>1. SettledMirror(r) \in [Variants -> Prices \cup {"unknown"}]
  BY DEF TypeOK, SettledMirror, Goal, Prices
<1>2. mver' \in [Variants -> 0 .. StampOf(MaxRuns) + MaxEdits]
  BY Stamps, BoundsAssumption DEF TypeOK, Settle
<1>3. \A v \in Variants : mver'[v] <= StampOf(MaxRuns) + edits
  BY Stamps, BoundsAssumption DEF TypeOK, StampsBounded, Settle
<1> QED
  BY <1>1, <1>2, <1>3 DEF Settle, TypeOK

(* Storing a price keeps Shopify's side. *)
LEMMA StoreKeeps ==
    ASSUME TypeOK, StampsBounded, NEW r \in Runs, NEW v \in Variants, NEW price \in Prices,
           Store(r, v, price) \/ Keep
    PROVE  /\ live' \in [Variants -> Prices]
           /\ ver' \in [Variants -> 0 .. StampOf(MaxRuns) + MaxEdits]
           /\ \A w \in Variants : ver'[w] <= StampOf(MaxRuns) + edits
<1> USE DEF TypeOK, StampsBounded
<1>1. CASE Keep
  BY <1>1 DEF Keep
<1>2. CASE Store(r, v, price)
  <2>1. ver' \in [Variants -> 0 .. StampOf(MaxRuns) + MaxEdits]
    BY <1>2, Stamps, BoundsAssumption DEF Store
  <2>2. \A w \in Variants : ver'[w] <= StampOf(MaxRuns) + edits
    BY <1>2, Stamps DEF Store
  <2> QED
    BY <1>2, <2>1, <2>2 DEF Store
<1> QED
  BY <1>1, <1>2

(* Each step keeps the types and the bound on versions. *)
LEMMA TypeStep ==
    ASSUME IInv, [Next]_vars
    PROVE  TypeOK' /\ StampsBounded'
<1> USE DEF IInv, TypeOK, StampsBounded, shopify, mirrored, books, others, world
<1>1. CASE Ask \/ LookEarly \/ GoOnLate \/ StandAside \/ AllSent \/ EndRead \/ AllRecorded \/ Throw
  BY <1>1 DEF Ask, LookEarly, GoOnLate, StandAside, AllSent, EndRead, AllRecorded, Throw, Stages, Writing
<1>2. ASSUME NEW r \in Runs, SettleBulk(r) PROVE TypeOK' /\ StampsBounded'
  <2>1. row' \in [Runs -> [Variants -> RowStates]]
    BY <1>2 DEF SettleBulk, FromFile, RowStates
  <2> QED
    BY <1>2, <2>1 DEF SettleBulk, Stages, Runs
<1>3. CASE SettleBulkMirror
  <2>1. found \in Runs /\ Settle(found)
    BY <1>3 DEF SettleBulkMirror, RunAtWork
  <2> QED
    BY <1>3, <2>1, SettleKeeps, BoundsAssumption DEF SettleBulkMirror, Stages
<1>4. ASSUME NEW k \in Kinds, NEW resume \in BOOLEAN, Start(k, resume) PROVE TypeOK' /\ StampsBounded'
  <2>1. cur + 1 \in Runs /\ cur' = cur + 1
    BY <1>4, BoundsAssumption DEF Start, Runs
  <2>2. mirror' \in [Variants -> Prices \cup {"unknown"}]
    BY <1>4 DEF Start, Refreshed
  <2>3. row' \in [Runs -> [Variants -> RowStates]]
    BY <1>4, <2>1 DEF Start, RowStates
  <2>4. campaign' \in Statuses /\ before' \in Statuses
    BY <1>4 DEF Start, ClaimOf, Statuses
  <2>5. /\ kind' \in [Runs -> Kinds] /\ state' \in [Runs -> {"NONE", "EXECUTING", "COMPLETED", "PARTIAL", "FAILED"}]
        /\ cur' \in 0 .. MaxRuns /\ settled' \subseteq Runs
    BY <1>4, <2>1 DEF Start, Runs
  <2>6. pc' \in Stages /\ got' \in [Variants -> Outcomes]
    BY <1>4 DEF Start, Stages, Writing, Outcomes
  <2> QED
    BY <1>4, <2>2, <2>3, <2>4, <2>5, <2>6 DEF Start
<1>5. ASSUME NEW v \in Variants, Send(v) PROVE TypeOK' /\ StampsBounded'
  <2>1. cur \in Runs
    BY <1>5 DEF Send, RunAtWork, AtWork, Writing
  <2>2. PICK price \in Prices : Store(cur, v, price) \/ Keep
    BY <1>5, <2>1 DEF Send, Goal, Kinds, Prices
  <2>3. got' \in [Variants -> Outcomes] /\ pc' \in Stages
    BY <1>5 DEF Send, Learn, Outcomes, Stages
  <2> QED
    BY <1>5, <2>1, <2>2, <2>3, StoreKeeps DEF Send
<1>6. ASSUME NEW v \in Variants, ReadBack(v) PROVE TypeOK' /\ StampsBounded'
  BY <1>6 DEF ReadBack, Learn, Outcomes
<1>7. ASSUME NEW v \in Variants, Record(v) PROVE TypeOK' /\ StampsBounded'
  <2>1. cur \in Runs
    BY <1>7 DEF Record, RunAtWork, AtWork
  <2> QED
    BY <1>7, <2>1 DEF Record, RecordAs, RowStates
<1>8. ASSUME NEW v \in Variants, Outside(v) PROVE TypeOK' /\ StampsBounded'
  <2>1. live' \in [Variants -> Prices]
    BY <1>8 DEF Outside, Prices
  <2>2. edits' = edits + 1 /\ edits' \in 0 .. MaxEdits
    BY <1>8, BoundsAssumption DEF Outside
  <2>3. \A w \in Variants : ver'[w] <= StampOf(MaxRuns) + edits' /\ mver'[w] <= StampOf(MaxRuns) + edits'
    BY <1>8, <2>2, Stamps DEF Outside
  <2>4. ver' \in [Variants -> 0 .. StampOf(MaxRuns) + MaxEdits]
    BY <1>8, <2>2, <2>3, Stamps, BoundsAssumption DEF Outside
  <2> QED
    BY <1>8, <2>1, <2>2, <2>3, <2>4 DEF Outside
<1>9. ASSUME NEW v \in Variants, Webhook(v) PROVE TypeOK' /\ StampsBounded'
  <2>1. mirror' \in [Variants -> Prices \cup {"unknown"}]
    BY <1>9 DEF Webhook
  <2> QED
    BY <1>9, <2>1 DEF Webhook
<1>10. CASE Submit \/ SubmitLost
  <2>1. cur \in Runs
    BY <1>10 DEF Submit, SubmitLost, RunAtWork, AtWork, Writing
  <2>2. op' \in [Runs -> [Variants -> OpStates]]
    BY <1>10, <2>1 DEF Submit, SubmitLost, Queue, OpStates
  <2> QED
    BY <1>10, <2>2 DEF Submit, SubmitLost, Stages, Writing
<1>11. CASE Submitting
  <2>1. cur \in Runs
    BY <1>11 DEF Submitting, RunAtWork, AtWork, Writing
  <2> QED
    BY <1>11, <2>1 DEF Submitting, RowStates, Stages, Writing
<1>12. ASSUME NEW r \in Runs, NEW v \in Variants, ShopifyApplies(r, v) PROVE TypeOK' /\ StampsBounded'
  <2>1. PICK price \in Prices : Store(r, v, price) \/ Keep
    BY <1>12 DEF ShopifyApplies, Goal, Kinds, Prices
  <2>2. PICK outcome \in OpStates : op' = [op EXCEPT ![r][v] = outcome]
    BY <1>12 DEF ShopifyApplies, OpStates
  <2>3. op' \in [Runs -> [Variants -> OpStates]]
    BY <2>2
  <2> QED
    BY <1>12, <2>1, <2>3, StoreKeeps DEF ShopifyApplies
<1>13. CASE ReadFile
  <2>1. got' \in [Variants -> Outcomes]
    BY <1>13 DEF ReadFile, Outcomes
  <2> QED
    BY <1>13, <2>1 DEF ReadFile, Stages
<1>14. CASE SettleOwn \/ FailMirror
  <2>1. cur \in Runs /\ Settle(cur)
    BY <1>14 DEF SettleOwn, FailMirror, RunAtWork, AtWork
  <2> QED
    BY <1>14, <2>1, SettleKeeps DEF SettleOwn, FailMirror, Stages
<1>15. CASE FinishRow
  <2>1. cur \in Runs
    BY <1>15 DEF FinishRow, RunAtWork, AtWork
  <2> QED
    BY <1>15, <2>1 DEF FinishRow, Stages
<1>16. CASE Final \/ FailMirrorFails \/ FailCampaign
  BY <1>16 DEF Final, FailMirrorFails, FailCampaign, GiveBack, Leave, Statuses, Stages, Outcomes
<1>17. CASE Unsent
  <2>1. cur \in Runs
    BY <1>17 DEF Unsent, RunAtWork, AtWork, Writing
  <2>2. op' \in [Runs -> [Variants -> OpStates]]
    BY <1>17, <2>1 DEF Unsent, Queue, OpStates
  <2> QED
    BY <1>17, <2>1, <2>2 DEF Unsent, GiveBack, Leave, Statuses, Stages, Outcomes
<1>18. CASE FailRow
  <2>1. cur \in Runs
    BY <1>18 DEF FailRow, RunAtWork, AtWork
  <2> QED
    BY <1>18, <2>1 DEF FailRow, Unclaimed, RowStates, Stages
<1>19. CASE Crash
  BY <1>19, BoundsAssumption DEF Crash, Leave, Stages, Outcomes
<1>20. ASSUME NEW r \in Runs, ReapRow(r) PROVE TypeOK' /\ StampsBounded'
  BY <1>20 DEF ReapRow, Unclaimed, RowStates
<1>21. ASSUME NEW r \in Runs, ReapMirror(r) PROVE TypeOK' /\ StampsBounded'
  BY <1>21, SettleKeeps DEF ReapMirror
<1>22. ASSUME NEW r \in Runs, ReapCampaign(r) PROVE TypeOK' /\ StampsBounded'
  BY <1>22 DEF ReapCampaign, Statuses
<1>23. ASSUME NEW r \in Runs, ReaperCrash(r) PROVE TypeOK' /\ StampsBounded'
  BY <1>23, BoundsAssumption DEF ReaperCrash
<1>24. CASE UNCHANGED vars
  BY <1>24 DEF vars
<1> QED
  BY <1>1, <1>2, <1>3, <1>4, <1>5, <1>6, <1>7, <1>8, <1>9, <1>10, <1>11, <1>12, <1>13, <1>14, <1>15,
     <1>16, <1>17, <1>18, <1>19, <1>20, <1>21, <1>22, <1>23, <1>24 DEF Next

(* A run at work stays the latest and EXECUTING until its own last statements:
   the reaper leaves a live process alone, and no other run begins beside it. *)
LEMMA RunAtWorkKept ==
    ASSUME IInv, [Next]_vars
    PROVE  RunAtWork'
<1> USE DEF IInv, TypeOK, RunAtWork, AtWork, Writing, shopify, mirrored, books, others, world
<1>1. CASE Ask \/ LookEarly \/ GoOnLate \/ StandAside \/ SettleBulkMirror \/ (\E r \in Runs : SettleBulk(r))
  BY <1>1 DEF Ask, LookEarly, GoOnLate, StandAside, SettleBulkMirror, SettleBulk
<1>2. ASSUME NEW k \in Kinds, NEW resume \in BOOLEAN, Start(k, resume) PROVE RunAtWork'
  <2>1. cur' = cur + 1 /\ cur + 1 \in Runs /\ state'[cur + 1] = "EXECUTING" /\ pc' = "writing"
    BY <1>2, BoundsAssumption DEF Start, Runs
  <2> QED
    BY <2>1
<1>3. CASE AllSent \/ EndRead \/ AllRecorded \/ Submit \/ Submitting \/ SubmitLost \/ ReadFile \/ SettleOwn
           \/ Throw \/ (\E v \in Variants : Send(v) \/ ReadBack(v) \/ Record(v))
  BY <1>3 DEF AllSent, EndRead, AllRecorded, Submit, Submitting, SubmitLost, ReadFile, SettleOwn, Throw,
              Send, ReadBack, Record
<1>4. CASE FinishRow \/ Final \/ Unsent \/ FailRow \/ FailMirror \/ FailMirrorFails \/ FailCampaign \/ Crash
  BY <1>4 DEF FinishRow, Final, Unsent, FailRow, FailMirror, FailMirrorFails, FailCampaign, Crash, Leave
<1>5. ASSUME NEW r \in Runs, ReapRow(r) \/ ReapMirror(r) \/ ReapCampaign(r) \/ ReaperCrash(r)
      PROVE  RunAtWork'
  BY <1>5 DEF ReapRow, ReapMirror, ReapCampaign, ReaperCrash
<1>6. ASSUME NEW v \in Variants, Outside(v) \/ Webhook(v) \/ \E r \in Runs : ShopifyApplies(r, v)
      PROVE  RunAtWork'
  BY <1>6 DEF Outside, Webhook, ShopifyApplies
<1>7. CASE UNCHANGED vars
  BY <1>7 DEF vars
<1> QED
  BY <1>1, <1>2, <1>3, <1>4, <1>5, <1>6, <1>7 DEF Next

(* What a step does to a row: a run that begins gives itself rows, its own call
   sends and records them, and the rest settles what is in Shopify's hands. *)
LEMMA RowSteps ==
    ASSUME IInv, [Next]_vars, NEW r \in Runs, NEW v \in Variants, row'[r][v] # row[r][v]
    PROVE  \/ row[r][v] = "none" /\ r = cur + 1 /\ cur' = cur + 1
           \/ row[r][v] = "PENDING" /\ r = cur /\ state[r] = "EXECUTING" /\ cur' = cur
           \/ row[r][v] = "WRITING" /\ cur' = cur
<1> DEFINE Allowed == \/ row[r][v] = "none" /\ r = cur + 1 /\ cur' = cur + 1
                      \/ row[r][v] = "PENDING" /\ r = cur /\ state[r] = "EXECUTING" /\ cur' = cur
                      \/ row[r][v] = "WRITING" /\ cur' = cur
<1> USE DEF IInv, TypeOK, RunAtWork, AtWork, Writing, shopify, mirrored, books, others, world
<1>1. ASSUME NEW k \in Kinds, NEW resume \in BOOLEAN, Start(k, resume) PROVE Allowed
  <2>1. cur + 1 \in Runs /\ cur' = cur + 1
    BY <1>1, BoundsAssumption DEF Start, Runs
  <2>2. r = cur + 1
    BY <1>1, <2>1 DEF Start
  <2>3. row[r][v] = "none"
    BY <2>1, <2>2 DEF NoRowsAhead, Runs
  <2> QED
    BY <2>1, <2>2, <2>3
<1>2. ASSUME NEW q \in Runs, SettleBulk(q) PROVE Allowed
  BY <1>2 DEF SettleBulk
<1>3. CASE Submitting
  BY <1>3 DEF Submitting, Pending
<1>4. ASSUME NEW w \in Variants, Record(w) PROVE Allowed
  BY <1>4 DEF Record, Unrecorded
<1>5. CASE FailRow
  BY <1>5 DEF FailRow, Unclaimed
<1>6. ASSUME NEW q \in Runs, ReapRow(q) PROVE Allowed
  BY <1>6 DEF ReapRow, Unclaimed
<1> QED
  BY <1>1, <1>2, <1>3, <1>4, <1>5, <1>6
     DEF Next, vars, Ask, LookEarly, GoOnLate, StandAside, SettleBulkMirror, Send, ReadBack, Outside, Webhook,
         AllSent, EndRead, Submit, SubmitLost, ReadFile, ShopifyApplies, AllRecorded, SettleOwn, FinishRow,
         Final, Unsent, Throw, FailMirror, FailMirrorFails, FailCampaign, Crash, ReapMirror, ReapCampaign,
         ReaperCrash

(* The latest run is only ever followed by the next. *)
LEMMA RunsInOrder ==
    ASSUME IInv, [Next]_vars
    PROVE  cur' \in {cur, cur + 1}
BY DEF IInv, TypeOK, Next, vars, shopify, mirrored, books, others, world, Start, SettleBulk, Submitting, Record,
       FailRow, ReapRow, Ask, LookEarly, GoOnLate, StandAside, SettleBulkMirror, Send, ReadBack, Outside, Webhook,
       AllSent, EndRead, Submit, SubmitLost, ReadFile, ShopifyApplies, AllRecorded, SettleOwn, FinishRow,
       Final, Unsent, Throw, FailMirror, FailMirrorFails, FailCampaign, Crash, ReapMirror, ReapCampaign,
       ReaperCrash

(* Only a run that begins gets rows, and then it is the latest. *)
LEMMA NoRowsAheadKept ==
    ASSUME IInv, [Next]_vars
    PROVE  NoRowsAhead'
<1> SUFFICES ASSUME NEW r \in Runs, NEW v \in Variants, r > cur' PROVE row'[r][v] = "none"
  BY DEF NoRowsAhead
<1>1. cur \in Nat /\ r \in Nat
  BY DEF IInv, TypeOK, Runs
<1>2. r > cur /\ row[r][v] = "none"
  BY <1>1, RunsInOrder DEF IInv, NoRowsAhead
<1>3. CASE row'[r][v] # row[r][v]
  BY <1>1, <1>2, <1>3, RowSteps
<1> QED
  BY <1>2, <1>3

(* The invariant holds in every reachable state. *)
THEOREM Invariance == Spec => []IInv
<1>1. IInv /\ [Next]_vars => IInv'
  BY TypeStep, RunAtWorkKept, NoRowsAheadKept DEF IInv
<1> QED
  BY <1>1, InitOK, PTL DEF Spec

-----------------------------------------------------------------------------
(* Every variable keeps its type, whichever gaps are open. *)
THEOREM TypeCorrect == Spec => []TypeOK
BY Invariance, PTL DEF IInv

(* The ledger only fills in: nothing that happens after a row was settled, no
   later run, no catch and no reaper, changes it, and only its own live run
   takes a row out of PENDING.  A resume can therefore rely on what it reads. *)
THEOREM LedgerMovesHolds == Spec => LedgerMoves
<1> DEFINE Filled == \A r \in Runs, v \in Variants :
              row'[r][v] # row[r][v] =>
                  /\ row[r][v] \in {"none", "PENDING", "WRITING"}
                  /\ row[r][v] = "PENDING" => state[r] = "EXECUTING"
<1>1. IInv /\ [Next]_vars => [Filled]_row
  BY RowSteps
<1> QED
  BY <1>1, Invariance, PTL DEF Spec, LedgerMoves

-----------------------------------------------------------------------------
(* Bulk operations, while their answers are recorded and no call goes on after
   another has come between. *)

Held(r, v) == r \in rec /\ row[r][v] = "WRITING"

(* What Shopify has yet to apply is known to the ledger, or to a live call. *)
OpsKnown ==
    \A r \in Runs, v \in Variants :
        op[r][v] = "queued" =>
            \/ Held(r, v)
            \/ r = cur /\ pc = "submitted" /\ row[r][v] = "PENDING"

(* A call that sends one by one holds nothing in bulk, and one that records has
   seen its operation end. *)
SentOrRead ==
    \A v \in Variants : /\ pc \in {"writing", "reading"} => row[cur][v] # "WRITING"
                        /\ pc = "recording" => op[cur][v] # "queued"

(* At most one run's rows are with Shopify: none when a call has asked, and
   the call's own once it is at work. *)
OneHeld ==
    \A q, r \in Runs, v, w \in Variants : Held(q, v) /\ Held(r, w) => q = r
HeldByWhom ==
    \A r \in Runs, v \in Variants :
        Held(r, v) => /\ pc \notin {"settled", "asked"}
                      /\ pc # "idle" => r = cur

BulkInv == IInv /\ OpsKnown /\ SentOrRead /\ OneHeld /\ HeldByWhom /\ ~early

BulkKept == OpsKnown' /\ SentOrRead' /\ OneHeld' /\ HeldByWhom' /\ early' = FALSE

(* Each step keeps it: an operation is queued and recorded by a run that is
   alone, and released by nobody but the call that knows it has ended. *)
LEMMA BulkStep ==
    ASSUME "answer" \notin Weak, "look" \notin Weak, BulkInv, [Next]_vars
    PROVE  BulkKept
<1> USE DEF BulkKept, BulkInv, IInv, TypeOK, RunAtWork, AtWork, Writing, OpsKnown, SentOrRead, OneHeld, HeldByWhom, Held,
            shopify, mirrored, books, others, world
<1>1. CASE Ask
  BY <1>1 DEF Ask, Submitted, InFlight
<1>2. CASE StandAside \/ SettleBulkMirror \/ LookEarly \/ GoOnLate
  BY <1>2 DEF StandAside, SettleBulkMirror, LookEarly, GoOnLate
<1>3. ASSUME NEW q \in Runs, SettleBulk(q) PROVE BulkKept
  <2>1. PICK w \in Variants : Held(q, w)
    BY <1>3 DEF SettleBulk, Newest, Submitted, InFlight
  <2>2. \A v \in Variants : op[q][v] # "queued" /\ row'[q][v] # "WRITING"
    BY <1>3 DEF SettleBulk, Applying, FromFile
  <2>3. \A r \in Runs, v \in Variants : r # q => row'[r][v] = row[r][v]
    BY <1>3 DEF SettleBulk
  <2>4. \A r \in Runs, v \in Variants : ~Held(r, v)'
    BY <1>3, <2>1, <2>2, <2>3 DEF SettleBulk
  <2>5. OpsKnown'
    BY <1>3, <2>1, <2>2, <2>3 DEF SettleBulk
  <2> QED
    BY <1>3, <2>4, <2>5 DEF SettleBulk
<1>4. ASSUME NEW k \in Kinds, NEW resume \in BOOLEAN, Start(k, resume) PROVE BulkKept
  <2>1. cur + 1 \in Runs /\ cur' = cur + 1 /\ cur # cur + 1
    BY <1>4, BoundsAssumption DEF Start, Runs
  <2>2. \A v \in Variants : row[cur + 1][v] = "none" /\ row'[cur + 1][v] # "WRITING"
    BY <1>4, <2>1 DEF Start, NoRowsAhead, Runs
  <2>3. \A r \in Runs, v \in Variants : r # cur + 1 => row'[r][v] = row[r][v]
    BY <1>4, <2>1 DEF Start
  <2>4. \A r \in Runs, v \in Variants : ~Held(r, v) /\ ~Held(r, v)' /\ op'[r][v] # "queued"
    BY <1>4, <2>1, <2>2, <2>3 DEF Start
  <2> QED
    BY <1>4, <2>1, <2>2, <2>4 DEF Start
<1>5. ASSUME NEW v \in Variants, Send(v) \/ ReadBack(v) \/ Outside(v) \/ Webhook(v) PROVE BulkKept
  BY <1>5 DEF Send, ReadBack, Outside, Webhook
<1>6. ASSUME NEW w \in Variants, Record(w) PROVE BulkKept
  <2>1. cur \in Runs /\ row'[cur][w] # "WRITING"
    BY <1>6 DEF Record, RecordAs
  <2>2. \A r \in Runs, v \in Variants : r # cur \/ v # w => row'[r][v] = row[r][v]
    BY <1>6, <2>1 DEF Record
  <2> QED
    BY <1>6, <2>1, <2>2 DEF Record
<1>7. CASE AllSent \/ EndRead \/ AllRecorded \/ SettleOwn \/ FinishRow \/ Final \/ Throw \/ FailMirror
           \/ FailMirrorFails \/ FailCampaign
  BY <1>7 DEF AllSent, EndRead, AllRecorded, SettleOwn, FinishRow, Final, Throw, FailMirror, FailMirrorFails,
              FailCampaign, Leave
<1>8. CASE Submit
  <2>1. /\ \A r \in Runs, v \in Variants : r # cur => op'[r][v] = op[r][v]
        /\ \A v \in Variants : op'[cur][v] = "queued" => row[cur][v] = "PENDING"
    BY <1>8 DEF Submit, Queue, Pending
  <2> QED
    BY <1>8, <2>1 DEF Submit
<1>9. CASE Submitting
  <2>1. /\ cur \in Runs
        /\ \A r \in Runs, v \in Variants : r # cur => row'[r][v] = row[r][v]
        /\ \A v \in Variants : row'[cur][v] = IF row[cur][v] = "PENDING" THEN "WRITING" ELSE row[cur][v]
    BY <1>9 DEF Submitting, Pending
  <2>2. \A r \in Runs, v \in Variants : Held(r, v)' => r = cur
    BY <1>9, <2>1 DEF Submitting
  <2>3. OpsKnown'
    BY <1>9, <2>1 DEF Submitting
  <2> QED
    BY <1>9, <2>2, <2>3 DEF Submitting
<1>10. CASE SubmitLost
  BY <1>10 DEF SubmitLost
<1>11. CASE ReadFile
  BY <1>11 DEF ReadFile, Applying
<1>12. ASSUME NEW q \in Runs, NEW w \in Variants, ShopifyApplies(q, w) PROVE BulkKept
  <2>1. PICK outcome \in {"ok", "refused", "gone", "missing"} : op' = [op EXCEPT ![q][w] = outcome]
    BY <1>12 DEF ShopifyApplies
  <2>2. \A r \in Runs, v \in Variants : op'[r][v] = "queued" => op[r][v] = "queued"
    BY <2>1
  <2>3. OpsKnown' /\ SentOrRead'
    BY <1>12, <2>2 DEF ShopifyApplies
  <2> QED
    BY <1>12, <2>3 DEF ShopifyApplies
<1>13. CASE Unsent
  BY <1>13 DEF Unsent, Leave
<1>14. CASE FailRow
  BY <1>14 DEF FailRow, Unclaimed
<1>15. CASE Crash
  BY <1>15 DEF Crash, Leave
<1>16. ASSUME NEW q \in Runs, ReapRow(q) PROVE BulkKept
  BY <1>16 DEF ReapRow, Unclaimed
<1>17. ASSUME NEW q \in Runs, ReapMirror(q) \/ ReapCampaign(q) \/ ReaperCrash(q) PROVE BulkKept
  BY <1>17 DEF ReapMirror, ReapCampaign, ReaperCrash
<1>18. CASE UNCHANGED vars
  BY <1>18 DEF vars
<1> HIDE DEF BulkKept, BulkInv, IInv, TypeOK, RunAtWork, AtWork, Writing, OpsKnown, SentOrRead, OneHeld, HeldByWhom,
             Held, shopify, mirrored, books, others, world
<1> QED
  BY <1>1, <1>2, <1>3, <1>4, <1>5, <1>6, <1>7, <1>8, <1>9, <1>10, <1>11, <1>12, <1>13, <1>14, <1>15,
     <1>16, <1>17, <1>18 DEF Next

(* It holds in every reachable state while the answers of bulk operations are
   recorded and no call goes on after another. *)
THEOREM BulkInvariance ==
    ASSUME "answer" \notin Weak, "look" \notin Weak
    PROVE  Spec => []BulkInv
<1>1. Init => BulkInv
  BY InitOK DEF Init, BulkInv, OpsKnown, SentOrRead, OneHeld, HeldByWhom, Held
<1>2. BulkInv /\ [Next]_vars => BulkInv'
  BY BulkStep, TypeStep, RunAtWorkKept, NoRowsAheadKept DEF BulkInv, IInv, BulkKept
<1> QED
  BY <1>1, <1>2, PTL DEF Spec

(* "Still running: nothing writes" (execute.server.ts:300), for any variants,
   runs, edits and deaths: it depends on those two gaps alone. *)
THEOREM NothingWritesMeanwhileHolds ==
    ASSUME "answer" \notin Weak, "look" \notin Weak
    PROVE  Spec => []NothingWritesMeanwhile
<1>1. BulkInv => NothingWritesMeanwhile
  BY DEF BulkInv, OpsKnown, HeldByWhom, NothingWritesMeanwhile, Applying, Writing
<1> QED
  BY <1>1, BulkInvariance, PTL

(* A row of a run that is over and reads PENDING is not in Shopify's hands, so
   a resume that sends it sends it alone. *)
THEOREM PendingIsUnsentHolds ==
    ASSUME "answer" \notin Weak, "look" \notin Weak
    PROVE  Spec => []PendingIsUnsent
<1>1. BulkInv => PendingIsUnsent
  BY DEF BulkInv, IInv, RunAtWork, AtWork, Writing, OpsKnown, Held, PendingIsUnsent
<1> QED
  BY <1>1, BulkInvariance, PTL
-----------------------------------------------------------------------------
(* The mirror, while no run begins before the reaper has settled the mirror. *)

(* What the mirror may say of a variant nobody is writing. *)
Fresh(v) == \/ mirror[v] \in {live[v], "unknown"}
            \/ live[v] \in Others /\ mver[v] < ver[v]

(* Versions only grow, and an edit the mirror has not seen has a later one. *)
Ordered ==
    \A v \in Variants : /\ mver[v] <= ver[v] /\ ver[v] <= StampOf(cur) + edits
                        /\ live[v] \in Others => Fresh(v)
                        /\ mirror[v] = "gone" => live[v] = "gone"

(* The latest run has not stored v's price yet; it has, and only an edit came after it. *)
Unstored(v) == ver[v] + MaxEdits + 1 <= StampOf(cur) + edits
Stored(v) == IF live[v] \in Others THEN ver[v] > StampOf(cur) ELSE ver[v] = StampOf(cur)
AsWanted(v) == Stored(v) /\ live[v] \in {Goal(kind[cur])} \cup Others

(* Sent one by one, a run's rows are with nobody; in bulk, only an operation stores them. *)
OneByOne ==
    \A v \in Variants :
        pc \in {"writing", "reading"} => /\ row[cur][v] \in {"none", "PENDING", "SKIPPED"}
                                         /\ op[cur][v] = "none"

(* What the process, the ledger and Shopify say of the latest run, and what is live. *)
Told ==
    cur > 0 => \A v \in Variants :
        /\ pc = "writing" /\ got[v] = "none" => Unstored(v)
        /\ op[cur][v] = "queued" => got[v] = "none" /\ Unstored(v)
        /\ pc \in {"writing", "reading"} /\ got[v] = "unverified" => Stored(v)
        /\ got[v] = "verified" \/ row[cur][v] = "VERIFIED" \/ op[cur][v] = "ok" => AsWanted(v)
        /\ got[v] = "deleted" \/ row[cur][v] = "SKIPPED" \/ op[cur][v] = "gone" => live[v] \in Others

NoOpsAhead == \A r \in Runs, v \in Variants : r > cur => op[r][v] = "none"

(* Rows with Shopify are the latest run's. *)
LastHeld == \A r \in Runs, v \in Variants : row[r][v] = "WRITING" => r = cur /\ r \in rec

(* A run's mirror is not settled before it says so, and the reaper settles the latest run's. *)
Unsettled == pc \in Writing \cup {"reading", "recording"} => cur \notin settled
SweepsLast == \A r \in Runs : reap[r] = "mirror" => r = cur /\ pc \in {"idle", "asked", "settled"}
FoundLast == pc = "settled" => found = cur
LastWorks == \A r \in Runs : state[r] = "EXECUTING" => r = cur

(* Before a run has sent v, the mirror is as honest as it was without the run. *)
HonestBefore ==
    \A v \in Variants :
        pc = "writing" /\ got[v] = "none" =>
            Fresh(v) \/ \E r \in Runs : r # cur /\ row[r][v] # "none" /\ r \notin settled

MirrorInv ==
    /\ BulkInv /\ Ordered /\ OneByOne /\ Told /\ NoOpsAhead /\ LastHeld
    /\ Unsettled /\ SweepsLast /\ FoundLast /\ LastWorks /\ HonestBefore /\ MirrorHonest


MirrorKept ==
    /\ Ordered' /\ OneByOne' /\ Told' /\ NoOpsAhead' /\ LastHeld'
    /\ Unsettled' /\ SweepsLast' /\ FoundLast' /\ HonestBefore' /\ MirrorHonest'

(* Stamps of consecutive runs are further apart than edits can reach. *)
LEMMA StampNext ==
    /\ StampOf(0) = 0
    /\ \A n \in 0 .. MaxRuns : StampOf(n) \in Nat /\ StampOf(n + 1) = StampOf(n) + MaxEdits + 1
<1>1. ASSUME NEW n \in 0 .. MaxRuns PROVE StampOf(n) \in Nat /\ StampOf(n + 1) = StampOf(n) + MaxEdits + 1
  <2> DEFINE c == MaxEdits + 1
  <2>1. c \in Nat /\ n \in Nat
    BY BoundsAssumption
  <2>2. StampOf(n) = n * c /\ StampOf(n + 1) = (n + 1) * c
    BY DEF StampOf
  <2>3. n * c \in Nat /\ (n + 1) * c = n * c + c
    BY <2>1
  <2> QED
    BY <2>1, <2>2, <2>3, BoundsAssumption
<1>2. StampOf(0) = 0
  BY BoundsAssumption DEF StampOf
<1> QED
  BY <1>1, <1>2

(* No row reads WRITING without a record, so nothing is called unsent. *)
LEMMA NothingUnclaimed ==
    ASSUME TypeOK, LastHeld, NEW r \in Runs
    PROVE  Unclaimed(r) = row
BY DEF TypeOK, LastHeld, Unclaimed

(* A step that moves no price, no version, no row and no run, and forgets at most
   what the process had in memory. *)
LEMMA QuietStep ==
    ASSUME MirrorInv,
           UNCHANGED <<live, ver, mirror, mver, row, op, cur, kind, rec, settled, edits>>,
           \A r \in Runs : reap'[r] = "mirror" => reap[r] = "mirror" \/ (r = cur /\ pc' = "idle"),
           pc' = pc \/ pc' \notin {"writing", "reading", "submitted", "polling", "settled"} \/ (pc = "writing" /\ pc' = "reading"),
           pc' = "recording" => pc \in {"reading", "recording"},
           (\E r \in Runs : reap[r] = "mirror") => pc' \in {"idle", "asked", "settled"},
           pc' = "settled" => found' = found,
           \A v \in Variants : got'[v] = got[v] \/ (got'[v] = "none" /\ pc' = "idle")
    PROVE  MirrorKept
<1> USE DEF MirrorInv, BulkInv, IInv, TypeOK
<1>1. Ordered' /\ NoOpsAhead' /\ LastHeld' /\ MirrorHonest'
  BY DEF Ordered, Fresh, NoOpsAhead, LastHeld, MirrorHonest
<1>2. OneByOne' /\ Unsettled' /\ FoundLast' /\ SweepsLast'
  BY DEF OneByOne, Unsettled, FoundLast, SweepsLast, Writing
<1>3. Told'
  BY DEF Told, Unstored, Stored, AsWanted
<1>4. HonestBefore'
  BY DEF HonestBefore, Fresh
<1> QED
  BY <1>1, <1>2, <1>3, <1>4 DEF MirrorKept

(* The latest run stores a price its ledger answers for. *)
LEMMA StoreStep ==
    ASSUME MirrorInv, NEW v \in Variants, NEW price \in {"base", "sale", "odd"},
           cur \in Runs, Store(cur, v, price), Unstored(v),
           row[cur][v] = "WRITING" \/ (row[cur][v] # "none" /\ cur \notin settled),
           UNCHANGED <<mirror, mver, row, cur, settled, edits>>
    PROVE  Ordered' /\ MirrorHonest' /\ ver'[v] = StampOf(cur) /\ live'[v] = price
<1> USE DEF MirrorInv, BulkInv, IInv, TypeOK
<1>1. live'[v] = price /\ ver'[v] = StampOf(cur) /\ live[v] # "gone"
  BY DEF Store
<1>2. \A w \in Variants : w # v => live'[w] = live[w] /\ ver'[w] = ver[w]
  BY DEF Store
<1>3. StampOf(cur) \in Nat /\ ver[v] <= StampOf(cur) /\ edits \in Nat
  BY Stamps, BoundsAssumption DEF Unstored
<1>4. mver[v] <= ver'[v]
  BY <1>1, <1>3 DEF Ordered
<1>5. Ordered'
  BY <1>1, <1>2, <1>3, <1>4 DEF Ordered, Fresh, Others
<1>6. MirrorHonest'
  BY <1>1, <1>2 DEF MirrorHonest
<1> QED
  BY <1>1, <1>5, <1>6

(* A price sent by itself. *)
LEMMA SendStep ==
    ASSUME MirrorInv, NEW v \in Variants, Send(v)
    PROVE  MirrorKept
<1> USE DEF MirrorInv, BulkInv, IInv, TypeOK, mirrored, books, world
<1>1. /\ pc = "writing" /\ pc' \in {"writing", "reading"} /\ cur \in Runs /\ cur > 0 /\ cur \notin settled
      /\ row[cur][v] = "PENDING" /\ got[v] = "none" /\ op[cur][v] = "none" /\ Unstored(v)
      /\ UNCHANGED <<op, mirror, mver, row, rec, cur, kind, settled, edits, reap, found>>
      /\ \A w \in Variants : w # v => got'[w] = got[w]
  BY DEF Send, Pending, Learn, RunAtWork, AtWork, Writing, Unsettled, OneByOne, Told, Runs
<1>2. \/ got'[v] = "unverified" /\ \E price \in {Goal(kind[cur]), "odd"} : Store(cur, v, price)
      \/ got'[v] = "deleted" /\ live[v] = "gone" /\ Keep
      \/ got'[v] = "failed" /\ (Keep \/ Store(cur, v, Goal(kind[cur])))
  BY DEF Send, Learn
<1>3. Goal(kind[cur]) \in {"base", "sale"}
  BY DEF Goal
<1>4. CASE Keep /\ got'[v] # "unverified"
  <2>1. Ordered' /\ MirrorHonest'
    BY <1>1, <1>4 DEF Ordered, Fresh, MirrorHonest, Keep
  <2>2. \A w \in Variants : live'[w] = live[w] /\ ver'[w] = ver[w]
    BY <1>4 DEF Keep
  <2>3. got'[v] # "unverified" /\ got'[v] # "verified" /\ got'[v] # "none" /\ (got'[v] = "deleted" => live[v] \in Others)
    BY <1>2, <1>4 DEF Store, Keep, Others
  <2>4. Told'
    BY <1>1, <2>2, <2>3 DEF Told, Unstored, Stored, AsWanted
  <2>5. HonestBefore'
    BY <1>1, <2>2, <2>3 DEF HonestBefore, Fresh
  <2>6. OneByOne' /\ NoOpsAhead' /\ LastHeld' /\ Unsettled' /\ SweepsLast' /\ FoundLast'
    BY <1>1 DEF OneByOne, NoOpsAhead, LastHeld, Unsettled, SweepsLast, FoundLast, Writing
  <2> QED
    BY <2>1, <2>4, <2>5, <2>6 DEF MirrorKept
<1>5. ASSUME NEW price \in {"base", "sale", "odd"}, Store(cur, v, price),
             got'[v] \in {"unverified", "failed"}
      PROVE  MirrorKept
  <2>1. Ordered' /\ MirrorHonest' /\ ver'[v] = StampOf(cur) /\ live'[v] = price
    BY <1>1, <1>5, StoreStep
  <2>2. \A w \in Variants : w # v => live'[w] = live[w] /\ ver'[w] = ver[w]
    BY <1>5 DEF Store
  <2>3. Told'
    BY <1>1, <1>5, <2>1, <2>2 DEF Told, Unstored, Stored, AsWanted, Others
  <2>4. HonestBefore'
    BY <1>1, <1>5, <2>2 DEF HonestBefore, Fresh
  <2>6. OneByOne' /\ NoOpsAhead' /\ LastHeld' /\ Unsettled' /\ SweepsLast' /\ FoundLast'
    BY <1>1 DEF OneByOne, NoOpsAhead, LastHeld, Unsettled, SweepsLast, FoundLast, Writing
  <2> QED
    BY <2>1, <2>3, <2>4, <2>6 DEF MirrorKept
<1> QED
  BY <1>2, <1>3, <1>4, <1>5

(* A price Shopify applies by itself. *)
LEMMA ApplyStep ==
    ASSUME MirrorInv, NEW r \in Runs, NEW v \in Variants, ShopifyApplies(r, v)
    PROVE  MirrorKept
<1> USE DEF MirrorInv, BulkInv, IInv, TypeOK, mirrored, books, world
<1>1. r = cur /\ cur \in Runs /\ cur > 0 /\ op[cur][v] = "queued" /\ got[v] = "none" /\ Unstored(v)
  BY DEF ShopifyApplies, OpsKnown, Held, LastHeld, Told, Runs
<1>2. row[cur][v] = "WRITING" \/ (row[cur][v] = "PENDING" /\ cur \notin settled)
  BY <1>1 DEF OpsKnown, Held, Unsettled, Writing
<1>3. pc \notin {"writing", "reading"}
  BY <1>1 DEF OneByOne
<1>4. UNCHANGED <<mirror, mver, row, rec, cur, kind, pc, got, settled, edits, reap, found>>
  BY DEF ShopifyApplies
<1>5. /\ \A w \in Variants : w # v => op'[cur][w] = op[cur][w]
      /\ \A q \in Runs, w \in Variants : q # cur => op'[q][w] = op[q][w]
  BY <1>1 DEF ShopifyApplies
<1>6. \/ op'[cur][v] = "ok" /\ Store(cur, v, Goal(kind[cur]))
      \/ op'[cur][v] = "refused" /\ (Keep \/ Store(cur, v, "odd"))
      \/ op'[cur][v] = "gone" /\ live[v] = "gone" /\ Keep
      \/ op'[cur][v] = "missing" /\ (Keep \/ Store(cur, v, Goal(kind[cur])))
  BY <1>1 DEF ShopifyApplies
<1>7. OneByOne' /\ NoOpsAhead' /\ LastHeld' /\ Unsettled' /\ SweepsLast' /\ FoundLast' /\ HonestBefore'
  BY <1>1, <1>3, <1>4, <1>5 DEF OneByOne, NoOpsAhead, LastHeld, Unsettled, SweepsLast, FoundLast, HonestBefore
<1>8. CASE Keep /\ op'[cur][v] # "ok"
  <2>1. \A w \in Variants : live'[w] = live[w] /\ ver'[w] = ver[w]
    BY <1>8 DEF Keep
  <2>2. Ordered' /\ MirrorHonest'
    BY <1>4, <2>1 DEF Ordered, Fresh, MirrorHonest
  <2>3. op'[cur][v] = "gone" => live[v] \in Others
    BY <1>6, <1>8 DEF Keep, Store, Others
  <2>4. op'[cur][v] \notin {"queued", "ok"}
    BY <1>6, <1>8
  <2>5. Told'
    BY <1>1, <1>3, <1>4, <1>5, <2>1, <2>3, <2>4 DEF Told, Unstored, Stored, AsWanted
  <2> QED
    BY <1>7, <2>2, <2>5 DEF MirrorKept
<1>9. ASSUME NEW price \in {"base", "sale", "odd"}, Store(cur, v, price),
             op'[cur][v] \in {"ok", "refused", "missing"}, op'[cur][v] = "ok" => price = Goal(kind[cur])
      PROVE  MirrorKept
  <2>1. Ordered' /\ MirrorHonest' /\ ver'[v] = StampOf(cur) /\ live'[v] = price
    BY <1>1, <1>2, <1>4, <1>9, StoreStep
  <2>2. \A w \in Variants : w # v => live'[w] = live[w] /\ ver'[w] = ver[w]
    BY <1>9 DEF Store
  <2>3. row[cur][v] \notin {"VERIFIED", "SKIPPED"}
    BY <1>2
  <2>4. Told'
    BY <1>1, <1>3, <1>4, <1>5, <1>9, <2>1, <2>2, <2>3 DEF Told, Unstored, Stored, AsWanted, Others
  <2> QED
    BY <1>7, <2>1, <2>4 DEF MirrorKept
<1>10. Goal(kind[cur]) \in {"base", "sale"}
  BY DEF Goal
<1> QED
  BY <1>6, <1>8, <1>9, <1>10

(* Somebody else's edit or deletion is later than anything the mirror knows. *)
LEMMA OutsideStep ==
    ASSUME MirrorInv, NEW v \in Variants, Outside(v) \/ Webhook(v)
    PROVE  MirrorKept
<1> USE DEF MirrorInv, BulkInv, IInv, TypeOK, shopify, mirrored, books, world
<1>1. /\ \A w \in Variants : w # v => live'[w] = live[w] /\ ver'[w] = ver[w] /\ mirror'[w] = mirror[w] /\ mver'[w] = mver[w]
      /\ live'[v] \in Others /\ edits' \in Nat /\ edits' >= edits
      /\ UNCHANGED <<row, op, rec, cur, kind, pc, got, settled, reap, found>>
  BY DEF Outside, Webhook
<1>2. StampOf(cur) \in Nat /\ edits \in Nat /\ \A w \in Variants : ver[w] \in Nat /\ ver'[w] \in Nat
  BY <1>1, StampNext, Stamps, BoundsAssumption DEF Outside, Webhook
<1>3. /\ mver'[v] <= ver'[v] /\ ver'[v] <= StampOf(cur) + edits' /\ Fresh(v)'
      /\ mirror'[v] = "gone" => live'[v] = "gone"
      /\ ver[v] <= ver'[v] /\ ver'[v] <= ver[v] + edits' - edits
      /\ live[v] \in Others \/ ver[v] < ver'[v]
  BY <1>1, <1>2 DEF Outside, Webhook, Ordered, Fresh
<1>4. Ordered'
  BY <1>1, <1>2, <1>3 DEF Ordered, Fresh
<1>9. MirrorHonest' /\ HonestBefore'
  BY <1>1, <1>3 DEF Fresh, MirrorHonest, HonestBefore
<1>5. OneByOne' /\ NoOpsAhead' /\ LastHeld' /\ Unsettled' /\ SweepsLast' /\ FoundLast'
  BY <1>1 DEF OneByOne, NoOpsAhead, LastHeld, Unsettled, SweepsLast, FoundLast
<1>6. \A w \in Variants : Unstored(w) => Unstored(w)'
  BY <1>1, <1>2, <1>3, BoundsAssumption DEF Unstored
<1>7. \A w \in Variants : (Stored(w) => Stored(w)') /\ (AsWanted(w) => AsWanted(w)')
  BY <1>1, <1>2, <1>3 DEF Stored, AsWanted
<1>8. Told'
  BY <1>1, <1>6, <1>7 DEF Told
<1> QED
  BY <1>4, <1>5, <1>8, <1>9 DEF MirrorKept

(* Settling from the latest run's rows: each row it has leaves the mirror fresh. *)
LEMMA SettledRow ==
    ASSUME MirrorInv, cur \in Runs, Settle(cur), UNCHANGED <<live, ver, row, kind>>, NEW v \in Variants
    PROVE  /\ mver'[v] <= ver[v]
           /\ live[v] \in Others => Fresh(v)'
           /\ mirror'[v] = "gone" => live[v] = "gone"
           /\ row[cur][v] # "none" => Fresh(v)'
           /\ row[cur][v] = "none" => mirror'[v] = mirror[v] /\ mver'[v] = mver[v]
           /\ row[cur][v] = "WRITING" => mirror'[v] = "unknown"
<1> USE DEF MirrorInv, BulkInv, IInv, TypeOK
<1>1. StampOf(cur) \in Nat /\ ver[v] \in Nat /\ mver[v] \in Nat
  BY Stamps, BoundsAssumption
<1>2. cur > 0 /\ Goal(kind[cur]) \in {"base", "sale"}
  BY DEF Runs, Goal
<1>3. CASE v \in Landed(cur)
  <2>1. row[cur][v] = "VERIFIED" /\ mver[v] <= StampOf(cur) /\ AsWanted(v)
    BY <1>2, <1>3 DEF Landed, Told
  <2>2. mirror'[v] = Goal(kind[cur])
    BY <1>3, <2>1 DEF Settle, SettledMirror
  <2>3. mver[v] <= StampOf(cur) /\ mver[v] \in Nat /\ StampOf(cur) \in Nat
    BY <1>1, <2>1
  <2>4. mver'[v] = StampOf(cur)
    <3>1. CASE mver[v] < StampOf(cur)
      BY <1>1, <1>3, <3>1 DEF Settle
    <3>2. CASE ~(mver[v] < StampOf(cur))
      <4>1. mver'[v] = mver[v]
        BY <3>2 DEF Settle
      <4> HIDE DEF MirrorInv, BulkInv, IInv, TypeOK
      <4>2. mver[v] = StampOf(cur)
        BY <2>3, <3>2
      <4> QED
        BY <4>1, <4>2
    <3> QED
      BY <3>1, <3>2
  <2> QED
    BY <1>1, <1>2, <2>1, <2>2, <2>4 DEF Fresh, AsWanted, Stored, Others
<1>4. CASE v \notin Landed(cur) /\ row[cur][v] \in {"PENDING", "WRITING", "APPLIED", "FAILED"}
  BY <1>4 DEF Settle, SettledMirror, Fresh, Ordered
<1>5. CASE v \notin Landed(cur) /\ row[cur][v] \notin {"PENDING", "WRITING", "APPLIED", "FAILED"}
  <2>1. mirror'[v] = mirror[v] /\ mver'[v] = mver[v]
    BY <1>5 DEF Settle, SettledMirror
  <2>2. row[cur][v] # "none" => live[v] \in Others
    <3>1. CASE row[cur][v] = "VERIFIED"
      BY <1>1, <1>2, <1>5, <3>1 DEF Landed, Told, AsWanted, Stored, Ordered
    <3>2. row[cur][v] \in {"none", "VERIFIED", "SKIPPED"}
      BY <1>5 DEF RowStates
    <3> QED
      BY <1>2, <3>1, <3>2 DEF Told
  <2> QED
    BY <1>5, <2>1, <2>2 DEF Ordered, Fresh
<1> QED
  BY <1>3, <1>4, <1>5

(* Settling from the latest run's rows leaves nothing the mirror asserts wrongly. *)
LEMMA SettleStep ==
    ASSUME MirrorInv, cur \in Runs, Settle(cur),
           UNCHANGED <<live, ver, row, op, rec, cur, kind, got, edits>>,
           pc' \notin Writing \cup {"reading", "recording"},
           pc' = "settled" => pc = "settled" /\ found' = found,
           \A r \in Runs : reap'[r] = "mirror" => reap[r] = "mirror" /\ pc' \in {"idle", "asked", "settled"}
    PROVE  MirrorKept
<1> USE DEF MirrorInv, BulkInv, IInv, TypeOK
<1>1. StampOf(cur) \in Nat /\ \A w \in Variants : ver[w] \in Nat /\ mver[w] \in Nat
  BY Stamps, BoundsAssumption
<1>2. cur > 0 /\ settled' = settled \cup {cur}
  BY DEF Settle, Runs
<1>3. \A v \in Variants :
        /\ mver'[v] <= ver[v]
        /\ live[v] \in Others => Fresh(v)'
        /\ mirror'[v] = "gone" => live[v] = "gone"
        /\ row[cur][v] # "none" => Fresh(v)'
        /\ row[cur][v] = "none" => mirror'[v] = mirror[v] /\ mver'[v] = mver[v]
  BY SettledRow
<1>4. Ordered'
  BY <1>3 DEF Ordered
<1>5. MirrorHonest'
  <2> SUFFICES ASSUME NEW v \in Variants, row[cur][v] = "none"
               PROVE  \/ Fresh(v)'
                      \/ \E r \in Runs : row'[r][v] = "WRITING" \/ (row'[r][v] # "none" /\ r \notin settled')
    BY <1>3 DEF MirrorHonest, Fresh
  <2>1. Fresh(v) \/ \E r \in Runs : row[r][v] = "WRITING" \/ (row[r][v] # "none" /\ r \notin settled)
    BY DEF MirrorHonest, Fresh
  <2>2. Fresh(v) => Fresh(v)'
    BY <1>3 DEF Fresh
  <2> QED
    BY <1>2, <2>1, <2>2
<1>6. OneByOne' /\ NoOpsAhead' /\ LastHeld' /\ Unsettled' /\ SweepsLast' /\ FoundLast' /\ HonestBefore'
  BY DEF OneByOne, NoOpsAhead, LastHeld, Unsettled, SweepsLast, FoundLast, HonestBefore, Writing
<1>7. Told'
  BY DEF Told, Unstored, Stored, AsWanted, Writing
<1> QED
  BY <1>4, <1>5, <1>6, <1>7 DEF MirrorKept

(* A run begins with the mirror as honest as it was. *)
LEMMA StartStep ==
    ASSUME "reaper" \notin Weak, MirrorInv, NEW k \in Kinds, NEW resume \in BOOLEAN, Start(k, resume)
    PROVE  MirrorKept
<1> USE DEF MirrorInv, BulkInv, IInv, TypeOK, shopify, world
<1>1. /\ pc = "asked" /\ pc' = "writing" /\ cur' = cur + 1 /\ cur + 1 \in Runs /\ cur \in Nat
      /\ UNCHANGED <<live, ver, op, mver, rec, edits, reap>>
      /\ kind'[cur + 1] = k /\ settled' = settled \ {cur + 1}
      /\ \A v \in Variants : got'[v] = "none"
  BY BoundsAssumption DEF Start, Runs
<1>2. \A r \in Runs, v \in Variants : /\ row[cur + 1][v] = "none" /\ op[cur + 1][v] = "none"
                                      /\ r # cur + 1 => row'[r][v] = row[r][v]
                                      /\ row[r][v] # "WRITING"
  BY <1>1 DEF Start, NoRowsAhead, NoOpsAhead, LastHeld, HeldByWhom, Held
<1>3. \A v \in Variants : row'[cur + 1][v] \in {"none", "PENDING", "SKIPPED"}
  BY <1>1 DEF Start
<1>4. \A v \in Variants : row'[cur + 1][v] = "SKIPPED" => live[v] \in Others
  <2>1. PICK spare \in IF k = "REVERT" THEN SUBSET Edited ELSE {{}} :
          LET off   == Off(mirror', k)
              alone == spare \cup (IF resume THEN Kept(k) ELSE {})
              sent  == (off \ alone) \ (IF resume THEN Done(k) ELSE {})
          IN  row' = [row EXCEPT ![cur + 1] = [v \in Variants |->
                        IF v \in sent THEN "PENDING"
                        ELSE IF v \in off \cap alone THEN "SKIPPED" ELSE "none"]]
    BY DEF Start
  <2>2. \A v \in Variants : row'[cur + 1][v] = "SKIPPED" => v \in spare \/ v \in Kept(k)
    BY <1>1, <2>1
  <2>3. \A v \in spare : live[v] = "edit"
    BY <2>1 DEF Edited
  <2>4. \A v \in Kept(k) : live[v] \in Others
    BY <1>1 DEF Kept, Told, Runs
  <2> QED
    BY <2>2, <2>3, <2>4 DEF Others
<1>5. \A v \in Variants : mirror'[v] = mirror[v] \/ mirror'[v] = live[v]
  BY DEF Start, Refreshed
<1>6. StampOf(cur) \in Nat /\ StampOf(cur + 1) = StampOf(cur) + MaxEdits + 1 /\ \A v \in Variants : ver[v] \in Nat
  BY StampNext, Stamps, BoundsAssumption
<1>7. \A v \in Variants : Unstored(v)' /\ ver'[v] <= StampOf(cur') + edits'
  BY <1>1, <1>6, BoundsAssumption DEF Unstored, Ordered
<1>8. \A v \in Variants : Fresh(v) => Fresh(v)'
  BY <1>1, <1>5 DEF Fresh
<1>9. Ordered'
  BY <1>1, <1>5, <1>7, <1>8 DEF Ordered
<1>10. ASSUME NEW v \in Variants
       PROVE  Fresh(v)' \/ \E r \in Runs : r # cur' /\ row'[r][v] # "none" /\ r \notin settled'
  <2>1. Fresh(v) \/ \E r \in Runs : row[r][v] = "WRITING" \/ (row[r][v] # "none" /\ r \notin settled)
    BY DEF MirrorHonest, Fresh
  <2>2. \A r \in Runs : row[r][v] # "none" => r # cur + 1 /\ row'[r][v] = row[r][v] /\ row[r][v] # "WRITING"
    BY <1>2
  <2> QED
    BY <1>1, <1>8, <2>1, <2>2
<1>11. MirrorHonest' /\ HonestBefore'
  BY <1>10 DEF MirrorHonest, HonestBefore, Fresh
<1>12. Told'
  BY <1>1, <1>2, <1>3, <1>4, <1>7 DEF Told
<1>13. OneByOne' /\ LastHeld' /\ Unsettled'
  <2>1. OneByOne' /\ Unsettled'
    BY <1>1, <1>2, <1>3 DEF OneByOne, Unsettled
  <2>2. ASSUME NEW r \in Runs, NEW v \in Variants PROVE row'[r][v] # "WRITING"
    <3>1. CASE r = cur + 1
      BY <1>3, <3>1
    <3>2. CASE r # cur + 1
      BY <1>2, <3>2
    <3> QED
      BY <3>1, <3>2
  <2> QED
    BY <2>1, <2>2 DEF LastHeld
<1>14. NoOpsAhead' /\ SweepsLast' /\ FoundLast'
  BY <1>1 DEF Start, NoOpsAhead, SweepsLast, FoundLast, Runs
<1> QED
  BY <1>9, <1>11, <1>12, <1>13, <1>14 DEF MirrorKept

(* Rows that go out and come back change nothing the mirror is judged by. *)
LEMMA RowsStep ==
    ASSUME MirrorInv, Submit \/ Submitting \/ ReadFile \/ (\E v \in Variants : ReadBack(v) \/ Record(v))
    PROVE  MirrorKept
<1> USE DEF MirrorInv, BulkInv, IInv, TypeOK, shopify, mirrored, books, world
<1>1. /\ cur \in Runs /\ cur > 0 /\ cur \notin settled
      /\ UNCHANGED <<live, ver, mirror, mver, cur, kind, settled, edits, reap, found>>
  BY DEF Submit, Submitting, ReadFile, ReadBack, Record, RunAtWork, AtWork, Writing, Unsettled, Runs
<1>2. CASE Submit
  <2>1. /\ \A v \in Variants : op'[cur][v] = IF row[cur][v] = "PENDING" THEN "queued" ELSE "none"
        /\ \A r \in Runs : r # cur => op'[r] = op[r]
        /\ \A v \in Variants : got[v] = "none" /\ Unstored(v)
        /\ pc' = "submitted" /\ UNCHANGED <<row, rec, got>>
    BY <1>1, <1>2 DEF Submit, Queue, Pending, Nothing, Told
  <2>2. Ordered' /\ MirrorHonest' /\ OneByOne' /\ NoOpsAhead' /\ LastHeld' /\ HonestBefore'
    BY <1>1, <2>1 DEF Ordered, Fresh, MirrorHonest, OneByOne, NoOpsAhead, LastHeld, HonestBefore
  <2>3. Unsettled' /\ SweepsLast' /\ FoundLast'
    BY <1>1, <1>2, <2>1 DEF Submit, Unsettled, SweepsLast, FoundLast
  <2>4. Told'
    BY <1>1, <1>2, <2>1 DEF Submit, Told, Unstored, Stored, AsWanted
  <2> QED
    BY <2>2, <2>3, <2>4 DEF MirrorKept
<1>3. CASE Submitting
  <2>1. /\ \A v \in Variants : row'[cur][v] = IF row[cur][v] = "PENDING" THEN "WRITING" ELSE row[cur][v]
        /\ \A r \in Runs : r # cur => row'[r] = row[r]
        /\ rec' = rec \cup {cur} /\ pc = "submitted" /\ pc' = "polling" /\ UNCHANGED <<op, got>>
    BY <1>1, <1>3 DEF Submitting, Pending
  <2>2. Ordered' /\ OneByOne' /\ NoOpsAhead' /\ LastHeld' /\ HonestBefore' /\ Unsettled' /\ SweepsLast' /\ FoundLast'
    BY <1>1, <2>1 DEF Ordered, Fresh, OneByOne, NoOpsAhead, LastHeld, HonestBefore, Unsettled, SweepsLast, FoundLast, Writing
  <2>3. MirrorHonest'
    BY <1>1, <2>1 DEF MirrorHonest
  <2>4. Told'
    BY <1>1, <2>1 DEF Told, Unstored, Stored, AsWanted
  <2> QED
    BY <2>2, <2>3, <2>4 DEF MirrorKept
<1>4. CASE ReadFile
  <2>1. /\ \A v \in Variants : /\ got'[v] = "verified" => op[cur][v] = "ok"
                               /\ got'[v] = "deleted" => op[cur][v] = "gone"
                               /\ op[cur][v] # "queued"
        /\ pc = "polling" /\ pc' = "recording" /\ UNCHANGED <<row, op, rec>>
    BY <1>1, <1>4 DEF ReadFile, Applying
  <2>2. Ordered' /\ MirrorHonest' /\ OneByOne' /\ NoOpsAhead' /\ LastHeld' /\ HonestBefore' /\ Unsettled' /\ SweepsLast' /\ FoundLast'
    BY <1>1, <2>1 DEF Ordered, Fresh, MirrorHonest, OneByOne, NoOpsAhead, LastHeld, HonestBefore, Unsettled, SweepsLast,
                      FoundLast, Writing
  <2>3. Told'
    BY <1>1, <2>1 DEF Told, Unstored, Stored, AsWanted
  <2> QED
    BY <2>2, <2>3 DEF MirrorKept
<1>5. ASSUME NEW v \in Variants, ReadBack(v) PROVE MirrorKept
  <2>1. /\ pc = "reading" /\ pc' = pc /\ Stored(v) /\ UNCHANGED <<row, op, rec>>
        /\ \A w \in Variants : w # v => got'[w] = got[w]
        /\ (got'[v] = "verified" /\ live[v] = Goal(kind[cur])) \/ got'[v] = "failed"
    BY <1>1, <1>5 DEF ReadBack, Learn, Told
  <2>2. Ordered' /\ MirrorHonest' /\ OneByOne' /\ NoOpsAhead' /\ LastHeld' /\ HonestBefore' /\ Unsettled' /\ SweepsLast' /\ FoundLast'
    BY <1>1, <2>1 DEF Ordered, Fresh, MirrorHonest, OneByOne, NoOpsAhead, LastHeld, HonestBefore, Unsettled, SweepsLast, FoundLast
  <2>3. Told'
    BY <1>1, <2>1 DEF Told, Unstored, Stored, AsWanted, OneByOne
  <2> QED
    BY <2>2, <2>3 DEF MirrorKept
<1>6. ASSUME NEW v \in Variants, Record(v) PROVE MirrorKept
  <2>1. /\ row'[cur][v] = RecordAs(got[v]) /\ row[cur][v] \in {"PENDING", "WRITING"}
        /\ \A w \in Variants : w # v => row'[cur][w] = row[cur][w]
        /\ \A r \in Runs : r # cur => row'[r] = row[r]
        /\ pc = "recording" /\ pc' = pc /\ UNCHANGED <<op, rec, got>>
    BY <1>1, <1>6 DEF Record, Unrecorded
  <2>2. /\ row'[cur][v] \notin {"none", "WRITING"}
        /\ row'[cur][v] = "VERIFIED" => got[v] = "verified"
        /\ row'[cur][v] = "SKIPPED" => got[v] = "deleted"
    BY <2>1 DEF RecordAs
  <2>3. Ordered' /\ OneByOne' /\ NoOpsAhead' /\ LastHeld' /\ HonestBefore' /\ Unsettled' /\ SweepsLast' /\ FoundLast'
    BY <1>1, <2>1, <2>2 DEF Ordered, Fresh, OneByOne, NoOpsAhead, LastHeld, HonestBefore, Unsettled, SweepsLast, FoundLast
  <2>4. MirrorHonest'
    BY <1>1, <2>1, <2>2 DEF MirrorHonest
  <2>5. Told'
    BY <1>1, <2>1, <2>2 DEF Told, Unstored, Stored, AsWanted
  <2> QED
    BY <2>3, <2>4, <2>5 DEF MirrorKept
<1> QED
  BY <1>2, <1>3, <1>4, <1>5, <1>6

(* A bulk operation that has ended is read into the rows it held. *)
LEMMA SettleBulkStep ==
    ASSUME MirrorInv, NEW r \in Runs, SettleBulk(r)
    PROVE  MirrorKept
<1> USE DEF MirrorInv, BulkInv, IInv, TypeOK, shopify, mirrored, others
<1>1. r = cur /\ cur > 0
  BY DEF SettleBulk, Newest, Submitted, InFlight, LastHeld, Runs
<1>2. /\ pc' = "settled" /\ found' = cur /\ settled' = settled \ {cur}
      /\ UNCHANGED <<live, ver, op, mirror, mver, rec, cur, kind, got, edits, reap>>
      /\ pc = "idle"
  BY <1>1 DEF SettleBulk
<1>3. \A v \in Variants : /\ op[cur][v] # "queued"
                          /\ row[cur][v] # "WRITING" => row'[cur][v] = row[cur][v]
                          /\ row[cur][v] = "WRITING" =>
                               /\ row'[cur][v] \in {"VERIFIED", "FAILED", "SKIPPED", "APPLIED"}
                               /\ row'[cur][v] = "VERIFIED" => op[cur][v] = "ok"
                               /\ row'[cur][v] = "SKIPPED" => op[cur][v] = "gone"
  BY <1>1 DEF SettleBulk, FromFile, Applying
<1>4. \A q \in Runs : q # cur => row'[q] = row[q]
  BY <1>1 DEF SettleBulk
<1>5. MirrorHonest'
  <2>1. \A v \in Variants : row[cur][v] # "none" => row'[cur][v] # "none"
    BY <1>3
  <2>2. \A q \in Runs, v \in Variants :
           (row[q][v] = "WRITING" \/ (row[q][v] # "none" /\ q \notin settled)) => row'[q][v] # "none" /\ q \notin settled'
    BY <1>1, <1>2, <1>4, <2>1 DEF LastHeld
  <2> QED
    BY <1>2, <2>2 DEF MirrorHonest
<1>6. Told'
  BY <1>1, <1>2, <1>3 DEF Told, Unstored, Stored, AsWanted
<1>7. Ordered' /\ OneByOne' /\ NoOpsAhead' /\ Unsettled' /\ SweepsLast' /\ FoundLast' /\ HonestBefore'
  BY <1>1, <1>2 DEF Ordered, Fresh, OneByOne, NoOpsAhead, Unsettled, SweepsLast, FoundLast, HonestBefore, Writing
<1>8. LastHeld'
  BY <1>1, <1>2, <1>3, <1>4 DEF LastHeld
<1> QED
  BY <1>5, <1>6, <1>7, <1>8 DEF MirrorKept

(* A run that sent nothing gives its word back, and no row of its counts. *)
LEMMA UnsentStep ==
    ASSUME "answer" \notin Weak, MirrorInv, Unsent
    PROVE  MirrorKept
<1> USE DEF MirrorInv, BulkInv, IInv, TypeOK, shopify, mirrored, books, world
<1>1. /\ pc = "writing" /\ pc' = "idle" /\ settled' = settled \cup {cur}
      /\ \A v \in Variants : got[v] = "none" /\ got'[v] = "none"
      /\ UNCHANGED <<live, ver, op, mirror, mver, row, rec, cur, kind, edits, reap, found>>
  BY DEF Unsent, Nothing, Leave
<1>2. \A v \in Variants : Fresh(v) \/ \E r \in Runs : r # cur /\ row[r][v] # "none" /\ r \notin settled
  BY <1>1 DEF HonestBefore
<1>3. MirrorHonest'
  BY <1>1, <1>2 DEF MirrorHonest, Fresh
<1>4. Ordered' /\ OneByOne' /\ NoOpsAhead' /\ LastHeld' /\ Unsettled' /\ SweepsLast' /\ FoundLast' /\ HonestBefore'
  BY <1>1 DEF Ordered, Fresh, OneByOne, NoOpsAhead, LastHeld, Unsettled, SweepsLast, FoundLast, HonestBefore, Writing
<1>5. Told'
  BY <1>1 DEF Told, Unstored, Stored, AsWanted
<1> QED
  BY <1>3, <1>4, <1>5 DEF MirrorKept

(* Nobody but the latest run ever works. *)
LEMMA LastWorksKept ==
    ASSUME IInv, LastWorks, [Next]_vars
    PROVE  LastWorks'
<1> USE DEF IInv, TypeOK, shopify, mirrored, books, others, world
<1>1. ASSUME NEW k \in Kinds, NEW resume \in BOOLEAN, Start(k, resume) PROVE LastWorks'
  BY <1>1 DEF Start, Executing, LastWorks
<1>2. CASE FinishRow \/ Unsent \/ FailRow \/ \E r \in Runs : ReapRow(r)
  BY <1>2 DEF FinishRow, Unsent, FailRow, ReapRow, LastWorks
<1>3. CASE UNCHANGED <<state, cur>>
  BY <1>3 DEF LastWorks
<1> QED
  BY <1>1, <1>2, <1>3
     DEF Next, vars, Ask, LookEarly, GoOnLate, StandAside, SettleBulk, SettleBulkMirror, Send, ReadBack, Record,
         Outside, Webhook, AllSent, EndRead, Submit, Submitting, SubmitLost, ReadFile, ShopifyApplies, AllRecorded,
         SettleOwn, Final, Throw, FailMirror, FailMirrorFails, FailCampaign, Crash, ReapMirror, ReapCampaign,
         ReaperCrash

(* Each step keeps it. *)
LEMMA MirrorStep ==
    ASSUME "answer" \notin Weak, "look" \notin Weak, "reaper" \notin Weak, MirrorInv, [Next]_vars
    PROVE  MirrorKept
<1> USE DEF shopify, mirrored, books, others, world
<1>1. TypeOK /\ RunAtWork /\ LastHeld /\ SweepsLast /\ FoundLast /\ ~early /\ cur \in 0 .. MaxRuns
  BY DEF MirrorInv, BulkInv, IInv, TypeOK
<1>2. CASE Ask \/ StandAside \/ AllSent \/ EndRead \/ AllRecorded \/ Throw
  BY <1>1, <1>2, QuietStep DEF Ask, StandAside, AllSent, EndRead, AllRecorded, Throw, SweepsLast
<1>3. CASE FinishRow \/ Final \/ FailMirrorFails \/ FailCampaign \/ Crash
  BY <1>1, <1>3, QuietStep DEF FinishRow, Final, FailMirrorFails, FailCampaign, Crash, Leave, SweepsLast
<1>4. CASE LookEarly \/ GoOnLate \/ SubmitLost
  BY <1>1, <1>4 DEF LookEarly, GoOnLate, SubmitLost
<1>5. ASSUME NEW r \in Runs, SettleBulk(r) PROVE MirrorKept
  BY <1>5, SettleBulkStep
<1>6. CASE SettleBulkMirror
  BY <1>1, <1>6, SettleStep DEF SettleBulkMirror, FoundLast, RunAtWork, SweepsLast, Writing
<1>7. ASSUME NEW k \in Kinds, NEW resume \in BOOLEAN, Start(k, resume) PROVE MirrorKept
  BY <1>7, StartStep
<1>8. ASSUME NEW v \in Variants, Send(v) PROVE MirrorKept
  BY <1>8, SendStep
<1>9. ASSUME NEW v \in Variants, Outside(v) \/ Webhook(v) PROVE MirrorKept
  BY <1>9, OutsideStep
<1>10. CASE Submit \/ Submitting \/ ReadFile \/ (\E v \in Variants : ReadBack(v) \/ Record(v))
  BY <1>10, RowsStep
<1>11. ASSUME NEW r \in Runs, NEW v \in Variants, ShopifyApplies(r, v) PROVE MirrorKept
  BY <1>11, ApplyStep
<1>12. CASE SettleOwn \/ FailMirror
  BY <1>1, <1>12, SettleStep DEF SettleOwn, FailMirror, RunAtWork, AtWork, SweepsLast, Writing
<1>13. CASE Unsent
  BY <1>13, UnsentStep
<1>14. CASE FailRow
  <2>1. row' = row
    BY <1>1, <1>14, NothingUnclaimed DEF FailRow, RunAtWork, AtWork
  <2> QED
    BY <1>1, <1>14, <2>1, QuietStep DEF FailRow, SweepsLast
<1>15. ASSUME NEW r \in Runs, ReapRow(r) PROVE MirrorKept
  <2>1. row' = row
    BY <1>1, <1>15, NothingUnclaimed DEF ReapRow
  <2>2. r = cur
    BY <1>15 DEF ReapRow, MirrorInv, LastWorks
  <2> QED
    BY <1>1, <1>15, <2>1, <2>2, QuietStep DEF ReapRow, SweepsLast, TypeOK
<1>16. ASSUME NEW r \in Runs, ReapMirror(r) PROVE MirrorKept
  <2>1. r = cur
    BY <1>1, <1>16 DEF ReapMirror, SweepsLast
  <2> QED
    BY <1>1, <1>16, <2>1, SettleStep DEF ReapMirror, SweepsLast, Writing, TypeOK
<1>17. ASSUME NEW r \in Runs, ReapCampaign(r) \/ ReaperCrash(r) PROVE MirrorKept
  BY <1>1, <1>17, QuietStep DEF ReapCampaign, ReaperCrash, SweepsLast, TypeOK
<1>18. CASE UNCHANGED vars
  BY <1>1, <1>18, QuietStep DEF vars, SweepsLast
<1> QED
  BY <1>2, <1>3, <1>4, <1>5, <1>6, <1>7, <1>8, <1>9, <1>10, <1>11, <1>12, <1>13, <1>14, <1>15,
     <1>16, <1>17, <1>18 DEF Next

(* It holds in every reachable state while answers are recorded and nothing
   begins between a look and its run, or a run's row and its mirror. *)
THEOREM MirrorInvariance ==
    ASSUME "answer" \notin Weak, "look" \notin Weak, "reaper" \notin Weak
    PROVE  Spec => []MirrorInv
<1>1. Init => MirrorInv
  <2> SUFFICES ASSUME Init PROVE MirrorInv
    OBVIOUS
  <2>1. BulkInv
    BY InitOK DEF Init, BulkInv, OpsKnown, SentOrRead, OneHeld, HeldByWhom, Held
  <2>2. Ordered /\ MirrorHonest
    BY StampNext DEF Init, Ordered, Fresh, MirrorHonest, Others
  <2> QED
    BY <2>1, <2>2 DEF Init, MirrorInv, OneByOne, Told, NoOpsAhead, LastHeld, Unsettled, SweepsLast, FoundLast,
                      LastWorks, HonestBefore, Writing
<1>2. MirrorInv /\ [Next]_vars => MirrorInv'
  BY MirrorStep, LastWorksKept, BulkStep, TypeStep, RunAtWorkKept, NoRowsAheadKept
     DEF MirrorInv, MirrorKept, BulkInv, IInv, BulkKept
<1> QED
  BY <1>1, <1>2, PTL DEF Spec

(* The mirror asserts no price Shopify does not show, but of an edit still on its
   way, a row Shopify may be working on and a run whose mirror was never settled:
   for any variants, runs, edits and deaths, and whatever else fails. *)
THEOREM MirrorHonestHolds ==
    ASSUME "answer" \notin Weak, "look" \notin Weak, "reaper" \notin Weak
    PROVE  Spec => []MirrorHonest
BY MirrorInvariance, PTL DEF MirrorInv
-----------------------------------------------------------------------------
(* What a run may leave alone. *)

(* An apply wrote v and no revert has finished since. *)
WroteLast(v) ==
    \E r \in Runs : /\ kind[r] = "APPLY" /\ row[r][v] = "VERIFIED"
                    /\ ~\E q \in Runs : q > r /\ kind[q] = "REVERT" /\ state[q] = "COMPLETED"

(* Where the mirror is wrong, no run of either kind takes v for done. *)
Harmless(v) == Fresh(v) \/ mirror[v] = "edit" \/ (mirror[v] # "sale" /\ WroteLast(v))
Afterwards(v) == Fresh(v) \/ mirror[v] = "edit" \/ (kind[cur] = "APPLY" /\ mirror[v] # "sale" /\ WroteLast(v))

(* Or only a run of the latest's kind can begin, and it does not. *)
Claimed(v) == cur > 0 /\ campaign = ClaimOf(kind[cur]) /\ mirror[v] # Goal(kind[cur])
Explained == \A v \in Variants : Harmless(v) \/ Claimed(v)

(* From its rows to the last statement about its campaign. *)
InHand == AtWork \cup {"final", "failmirror", "failcampaign"}
SettledStages == {"finishing", "final", "failcampaign"}
Claims ==
    /\ pc \in InHand => campaign = ClaimOf(kind[cur])
    /\ pc \in {"writing", "submitted"} =>
         \A v \in Variants : row[cur][v] = "PENDING" => mirror[v] # Goal(kind[cur])
    /\ before \in {"APPLYING", "REVERTING"} /\ pc \in InHand => before = ClaimOf(kind[cur])
    /\ pc = "writing" =>
         \A v \in Variants : got[v] = "none" =>
            Harmless(v) \/ (before = ClaimOf(kind[cur]) /\ mirror[v] # Goal(kind[cur]))

LeftAlone ==
    cur > 0 => \A v \in Variants :
        row[cur][v] = "none" => Afterwards(v) /\ live[v] \in {Goal(kind[cur])} \cup Others

SweptLast == \A r \in Runs : reap[r] = "campaign" => r = cur /\ pc \in {"idle", "asked", "settled"}
SettledNow == pc \in SettledStages \/ \E r \in Runs : reap[r] = "campaign"
AllSettled == SettledNow => \A v \in Variants : Afterwards(v)
HeldUnknown ==
    cur > 0 => \A v \in Variants :
        row[cur][v] = "WRITING" => \/ mirror[v] \in {"unknown"} \cup Others
                                   \/ Claimed(v) /\ ~SettledNow

(* What a run has of each variant it sent, and what Shopify has yet to apply. *)
Answered ==
    /\ pc = "submitted" => \A v \in Variants : row[cur][v] \in {"none", "PENDING", "SKIPPED"}
    /\ pc = "polling" => \A v \in Variants : row[cur][v] \in {"none", "WRITING", "SKIPPED"}
    /\ pc \in {"reading", "recording", "settling", "finishing"} =>
         \/ \E w \in Variants : got[w] = "failed"
         \/ \A v \in Variants : row[cur][v] \in {"none", "SKIPPED"} \/ got[v] # "none"
    /\ pc \in {"recording", "settling", "finishing"} => \A v \in Variants : op[cur][v] # "queued"
    /\ cur > 0 /\ state[cur] = "COMPLETED" => \A v \in Variants : op[cur][v] # "queued"

NoneDoneAhead == \A r \in Runs : state[r] = "COMPLETED" => r <= cur

ReportInv ==
    /\ Explained /\ Claims /\ LeftAlone /\ SweptLast /\ AllSettled /\ HeldUnknown /\ Answered
    /\ NoneDoneAhead

ReportKept ==
    /\ Explained' /\ Claims' /\ LeftAlone' /\ SweptLast' /\ AllSettled' /\ HeldUnknown' /\ Answered'
    /\ NoneDoneAhead'

(* Runs keep what they are, and only their own last word says they are clean. *)
LEMMA RunsStay ==
    ASSUME IInv, [Next]_vars, NEW r \in Runs
    PROVE  /\ kind'[r] # kind[r] => r = cur + 1 /\ state'[r] = "EXECUTING"
           /\ state'[r] = "COMPLETED" => state[r] = "COMPLETED" \/ (FinishRow /\ r = cur)
<1> USE DEF IInv, TypeOK, shopify, mirrored, books, others, world
<1>1. ASSUME NEW k \in Kinds, NEW resume \in BOOLEAN, Start(k, resume)
      PROVE  /\ kind'[r] # kind[r] => r = cur + 1 /\ state'[r] = "EXECUTING"
             /\ state'[r] = "COMPLETED" => state[r] = "COMPLETED"
  BY <1>1 DEF Start
<1>2. CASE FinishRow
  BY <1>2 DEF FinishRow
<1>3. CASE Unsent \/ FailRow \/ \E q \in Runs : ReapRow(q)
  BY <1>3 DEF Unsent, FailRow, ReapRow
<1>4. CASE UNCHANGED <<state, kind>>
  BY <1>4
<1> QED
  BY <1>1, <1>2, <1>3, <1>4
     DEF Next, vars, Ask, LookEarly, GoOnLate, StandAside, SettleBulk, SettleBulkMirror, Send, ReadBack, Record,
         Outside, Webhook, AllSent, EndRead, Submit, Submitting, SubmitLost, ReadFile, ShopifyApplies, AllRecorded,
         SettleOwn, Final, Throw, FailMirror, FailMirrorFails, FailCampaign, Crash, ReapMirror, ReapCampaign,
         ReaperCrash

(* What an apply wrote stays written until a revert finishes. *)
LEMMA WroteStays ==
    ASSUME IInv, [Next]_vars, NEW v \in Variants, WroteLast(v), ~(FinishRow /\ kind[cur] = "REVERT")
    PROVE  WroteLast(v)'
<1> USE DEF IInv, TypeOK
<1>1. PICK r \in Runs : /\ kind[r] = "APPLY" /\ row[r][v] = "VERIFIED"
                        /\ ~\E q \in Runs : q > r /\ kind[q] = "REVERT" /\ state[q] = "COMPLETED"
  BY DEF WroteLast
<1>2. row'[r][v] = "VERIFIED"
  BY <1>1, RowSteps
<1>3. r # cur + 1
  BY <1>1 DEF NoRowsAhead
<1>4. kind'[r] = "APPLY"
  BY <1>1, <1>3, RunsStay
<1>5. ASSUME NEW q \in Runs, q > r, kind'[q] = "REVERT", state'[q] = "COMPLETED" PROVE FALSE
  <2>1. kind'[q] = kind[q]
    BY <1>5, RunsStay
  <2>2. state[q] = "COMPLETED"
    BY <1>5, <2>1, RunsStay
  <2> QED
    BY <1>1, <1>5, <2>1, <2>2
<1> QED
  BY <1>2, <1>4, <1>5 DEF WroteLast

(* What explained a variant goes on explaining it, while nothing moves it. *)
LEMMA HarmlessStays ==
    ASSUME IInv, [Next]_vars, NEW v \in Variants, ~(FinishRow /\ kind[cur] = "REVERT"),
           live'[v] = live[v], mirror'[v] = mirror[v], mver'[v] = mver[v], ver'[v] = ver[v]
    PROVE  /\ Harmless(v) => Harmless(v)'
           /\ Afterwards(v) /\ cur' = cur /\ kind'[cur] = kind[cur] => Afterwards(v)'
BY WroteStays DEF Harmless, Afterwards, Fresh

(* Where the mirror and Shopify have not moved, and the run, its rows and its
   claim stand, each part stands that the step does not speak of. *)
Still == UNCHANGED <<live, ver, mirror, mver, cur, kind>>

LEMMA StillSteps ==
    ASSUME MirrorInv, ReportInv, [Next]_vars, Still, ~(FinishRow /\ kind[cur] = "REVERT")
    PROVE  /\ campaign' = campaign => Explained'
           /\ (\A v \in Variants : row'[cur][v] = "none" <=> row[cur][v] = "none") => LeftAlone'
           /\ (SettledNow' => SettledNow) => AllSettled'
           /\ (campaign' = campaign /\ (SettledNow' => SettledNow)
                /\ \A v \in Variants : row'[cur][v] = "WRITING" => row[cur][v] = "WRITING") => HeldUnknown'
<1> USE DEF MirrorInv, BulkInv, IInv, TypeOK, ReportInv, Still
<1>1. \A v \in Variants : (Harmless(v) => Harmless(v)') /\ (Afterwards(v) => Afterwards(v)')
  BY HarmlessStays
<1>2. campaign' = campaign => Explained'
  BY <1>1 DEF Explained, Claimed
<1>3. ASSUME \A v \in Variants : row'[cur][v] = "none" <=> row[cur][v] = "none" PROVE LeftAlone'
  BY <1>1, <1>3 DEF LeftAlone
<1>4. ASSUME SettledNow' => SettledNow PROVE AllSettled'
  BY <1>1, <1>4 DEF AllSettled
<1>5. ASSUME campaign' = campaign, SettledNow' => SettledNow,
             \A v \in Variants : row'[cur][v] = "WRITING" => row[cur][v] = "WRITING"
      PROVE  HeldUnknown'
  BY <1>5 DEF HeldUnknown, Claimed
<1> QED
  BY <1>2, <1>3, <1>4, <1>5

(* A call that asks, sends nothing, reads or reads back. *)
LEMMA CallStep ==
    ASSUME MirrorInv, ReportInv, [Next]_vars,
           Ask \/ StandAside \/ AllSent \/ EndRead \/ AllRecorded \/ Throw \/ Crash \/ ReadFile
             \/ \E v \in Variants : ReadBack(v)
    PROVE  ReportKept
<1> USE DEF MirrorInv, BulkInv, IInv, TypeOK, ReportInv, shopify, mirrored, books, others, world
<1>1. /\ Still /\ UNCHANGED <<row, op, state, campaign, before, reap>>
      /\ ~FinishRow
      /\ pc' \notin SettledStages /\ pc' # "writing"
      /\ pc' \in InHand => pc \in InHand
      /\ pc' \in {"submitted", "polling"} => pc' = pc
      /\ (\E r \in Runs : reap[r] = "campaign") => pc' \in {"idle", "asked", "settled"}
  BY DEF Ask, StandAside, AllSent, EndRead, AllRecorded, Throw, Crash, ReadFile, ReadBack, Leave, Still, FinishRow,
         SettledStages, InHand, AtWork, Writing, SweptLast
<1>2. Explained' /\ LeftAlone' /\ AllSettled' /\ HeldUnknown'
  BY <1>1, StillSteps DEF SettledNow
<1>3. Claims' /\ SweptLast' /\ NoneDoneAhead'
  BY <1>1 DEF Claims, SweptLast, NoneDoneAhead, Still
<1>4. Answered'
  <2>1. CASE Ask \/ StandAside \/ Throw \/ Crash
    BY <1>1, <2>1 DEF Answered, Still, Ask, StandAside, Throw, Crash, Leave
  <2>2. CASE AllSent
    BY <1>1, <2>2 DEF Answered, Still, AllSent, Pending, OneByOne
  <2>3. CASE EndRead
    BY <1>1, <2>3 DEF Answered, Still, EndRead, OneByOne
  <2>4. CASE AllRecorded
    BY <1>1, <2>4 DEF Answered, Still, AllRecorded
  <2>5. CASE ReadFile
    BY <1>1, <2>5 DEF Answered, Still, ReadFile, Applying, RunAtWork, AtWork, Writing
  <2>6. ASSUME NEW v \in Variants, ReadBack(v) PROVE Answered'
    <3>1. /\ pc = "reading" /\ pc' = "reading" /\ got[v] = "unverified" /\ got'[v] # "none"
          /\ \A w \in Variants : w # v => got'[w] = got[w]
      BY <2>6 DEF ReadBack, Learn
    <3> QED
      BY <1>1, <3>1 DEF Answered, Still
  <2> QED
    BY <2>1, <2>2, <2>3, <2>4, <2>5, <2>6
<1> QED
  BY <1>2, <1>3, <1>4 DEF ReportKept

(* The last statements of a run. *)
LEMMA EndStep ==
    ASSUME "answer" \notin Weak, MirrorInv, ReportInv, [Next]_vars, FinishRow \/ Final \/ FailCampaign \/ FailRow \/ Unsent
    PROVE  ReportKept
<1> USE DEF MirrorInv, BulkInv, IInv, TypeOK, ReportInv, shopify, mirrored, books, others, world
<1>1. /\ Still /\ UNCHANGED <<op, before, reap>> /\ row' = row /\ cur \in Runs /\ cur > 0
      /\ \A r \in Runs : reap[r] # "campaign"
  BY NothingUnclaimed DEF FinishRow, Final, FailCampaign, FailRow, Unsent, Still, RunAtWork, AtWork, Writing, SweptLast, Runs
<1>2. SweptLast' /\ NoneDoneAhead'
  BY <1>1 DEF FinishRow, Final, FailCampaign, FailRow, Unsent, SweptLast, NoneDoneAhead, Still
<1>3. CASE FinishRow
  <2>1. pc = "finishing" /\ pc' = "final" /\ UNCHANGED <<campaign, got>>
    BY <1>3 DEF FinishRow
  <2>2. \A v \in Variants : Afterwards(v)
    BY <2>1 DEF AllSettled, SettledNow, SettledStages
  <2>3. \A v \in Variants : Afterwards(v)' /\ Harmless(v)'
    <3>1. CASE kind[cur] = "REVERT"
      BY <1>1, <2>2, <3>1 DEF Afterwards, Harmless, Fresh, Still
    <3>2. CASE kind[cur] # "REVERT"
      BY <1>1, <2>2, <3>2, HarmlessStays DEF Afterwards, Harmless, Still
    <3> QED
      BY <3>1, <3>2
  <2>4. Explained' /\ LeftAlone' /\ AllSettled'
    BY <1>1, <2>3 DEF Explained, LeftAlone, AllSettled, Still
  <2>5. HeldUnknown'
    BY <1>1, <2>1 DEF HeldUnknown, Still, SettledNow, SettledStages
  <2>6. Claims'
    BY <1>1, <2>1 DEF Claims, InHand, AtWork, Writing, Still
  <2>7. Answered'
    BY <1>1, <2>1 DEF Answered, Still
  <2> QED
    BY <1>2, <2>4, <2>5, <2>6, <2>7 DEF ReportKept
<1>4. CASE Final \/ FailCampaign
  <2>1. pc \in SettledStages /\ pc' = "idle" /\ state' = state /\ ~FinishRow
    BY <1>4 DEF Final, FailCampaign, Leave, SettledStages, FinishRow
  <2>2. \A v \in Variants : Afterwards(v)
    BY <2>1 DEF AllSettled, SettledNow
  <2>3. \A v \in Variants : Afterwards(v)' /\ Harmless(v)'
    BY <1>1, <2>1, <2>2, HarmlessStays DEF Afterwards, Harmless, Still
  <2>4. Explained' /\ LeftAlone' /\ AllSettled'
    BY <1>1, <2>3 DEF Explained, LeftAlone, AllSettled, Still
  <2>5. HeldUnknown'
    BY <1>1, <2>1 DEF HeldUnknown, Still, SettledNow
  <2>6. Claims' /\ Answered'
    BY <1>1, <2>1 DEF Claims, InHand, AtWork, Writing, Answered, Still
  <2> QED
    BY <1>2, <2>4, <2>5, <2>6 DEF ReportKept
<1>5. CASE FailRow
  <2>1. pc = "threw" /\ pc' = "failmirror" /\ state'[cur] = "PARTIAL" /\ UNCHANGED <<campaign, got>> /\ ~FinishRow
    BY <1>1, <1>5 DEF FailRow, FinishRow
  <2>2. ~SettledNow'
    BY <1>1, <2>1 DEF SettledNow, SettledStages
  <2>3. Explained' /\ LeftAlone' /\ AllSettled' /\ HeldUnknown'
    BY <1>1, <2>1, <2>2, StillSteps
  <2>4. Claims' /\ Answered'
    BY <1>1, <2>1 DEF Claims, InHand, AtWork, Writing, Answered, Still
  <2> QED
    BY <1>2, <2>3, <2>4 DEF ReportKept
<1>6. CASE Unsent
  <2>1. /\ pc = "writing" /\ pc' = "idle" /\ state'[cur] = "FAILED" /\ campaign' = GiveBack /\ ~FinishRow
        /\ \A v \in Variants : got[v] = "none"
    BY <1>1, <1>6 DEF Unsent, Leave, Nothing, FinishRow
  <2>2. ~SettledNow'
    BY <1>1, <2>1 DEF SettledNow, SettledStages
  <2>3. LeftAlone' /\ AllSettled'
    BY <1>1, <2>1, <2>2, StillSteps
  <2>4. HeldUnknown'
    BY <1>1, <2>1 DEF HeldUnknown, OneByOne, Still
  <2>5. ASSUME NEW v \in Variants PROVE Harmless(v)' \/ Claimed(v)'
    <3>1. CASE Harmless(v)
      BY <1>1, <2>1, <3>1, HarmlessStays DEF Still
    <3>2. CASE ~Harmless(v)
      <4>1. before = ClaimOf(kind[cur]) /\ mirror[v] # Goal(kind[cur]) /\ campaign = ClaimOf(kind[cur])
        BY <2>1, <3>2 DEF Claims, InHand, AtWork, Writing
      <4>2. campaign' = campaign
        BY <2>1, <4>1 DEF GiveBack, ClaimOf
      <4> QED
        BY <1>1, <4>1, <4>2 DEF Claimed, Still
    <3> QED
      BY <3>1, <3>2
  <2>6. Claims' /\ Answered'
    BY <1>1, <2>1 DEF Claims, InHand, AtWork, Writing, Answered, Still
  <2> QED
    BY <1>2, <2>3, <2>4, <2>5, <2>6 DEF ReportKept, Explained
<1> QED
  BY <1>3, <1>4, <1>5, <1>6

(* The reaper's statements but the mirror. *)
LEMMA SweepStep ==
    ASSUME MirrorInv, ReportInv, [Next]_vars, NEW r \in Runs, ReapRow(r) \/ ReapCampaign(r) \/ ReaperCrash(r)
    PROVE  ReportKept
<1> USE DEF MirrorInv, BulkInv, IInv, TypeOK, ReportInv, shopify, mirrored, books, others, world
<1>1. /\ Still /\ UNCHANGED <<op, before, pc, got>> /\ row' = row /\ ~FinishRow
      /\ \A q \in Runs : reap'[q] = "campaign" => reap[q] = "campaign"
      /\ \A q \in Runs : state'[q] = state[q] \/ state'[q] = "PARTIAL"
  BY NothingUnclaimed DEF ReapRow, ReapCampaign, ReaperCrash, Still, FinishRow
<1>2. SettledNow' => SettledNow
  BY <1>1 DEF SettledNow
<1>3. LeftAlone' /\ AllSettled'
  BY <1>1, <1>2, StillSteps
<1>4. SweptLast' /\ NoneDoneAhead'
  BY <1>1 DEF SweptLast, NoneDoneAhead, Still
<1>5. Answered'
  <2>1. cur > 0 => cur \in Runs
    BY DEF Runs
  <2>2. cur > 0 /\ state'[cur] = "COMPLETED" => state[cur] = "COMPLETED"
    BY <1>1, <2>1
  <2> QED
    BY <1>1, <2>2 DEF Answered, Still
<1>6. CASE campaign' = campaign
  <2>1. Explained' /\ HeldUnknown'
    BY <1>1, <1>2, <1>6, StillSteps
  <2>2. Claims'
    <3>1. \A v \in Variants : Harmless(v) => Harmless(v)'
      BY <1>1, HarmlessStays DEF Still
    <3> QED
      BY <1>1, <1>6, <3>1 DEF Claims, Still
  <2> QED
    BY <1>3, <1>4, <1>5, <2>1, <2>2 DEF ReportKept
<1>7. CASE campaign' # campaign
  <2>1. SettledNow /\ pc \in {"idle", "asked", "settled"}
    BY <1>7 DEF ReapRow, ReapCampaign, ReaperCrash, SettledNow, SweptLast
  <2>2. \A v \in Variants : Harmless(v)
    BY <2>1 DEF AllSettled, Afterwards, Harmless
  <2>3. \A v \in Variants : Harmless(v)'
    BY <1>1, <2>2, HarmlessStays DEF Still
  <2>4. HeldUnknown'
    BY <1>1, <2>1 DEF HeldUnknown, Still
  <2>5. Claims'
    BY <1>1, <2>1 DEF Claims, InHand, AtWork, Writing
  <2> QED
    BY <1>3, <1>4, <1>5, <2>3, <2>4, <2>5 DEF ReportKept, Explained
<1> QED
  BY <1>6, <1>7

(* Settling the mirror from the latest run's rows. *)
LEMMA SettleReports ==
    ASSUME MirrorInv, ReportInv, [Next]_vars,
           SettleBulkMirror \/ SettleOwn \/ FailMirror \/ \E r \in Runs : ReapMirror(r)
    PROVE  ReportKept
<1> USE DEF MirrorInv, BulkInv, IInv, TypeOK, ReportInv, shopify, mirrored, books, others, world
<1>1. /\ cur \in Runs /\ Settle(cur)
      /\ UNCHANGED <<live, ver, row, op, cur, kind, state, campaign, before, got>> /\ ~FinishRow
      /\ pc' \notin {"writing", "submitted", "polling", "reading", "recording", "settling"}
      /\ pc' \in InHand => pc \in InHand
      /\ pc' = "finishing" => pc = "settling"
      /\ \A q \in Runs : reap'[q] = "campaign" => reap[q] = "campaign" \/ (reap[q] = "mirror" /\ pc' = pc)
      /\ (\E q \in Runs : reap[q] = "campaign") => pc' \in {"idle", "asked", "settled"}
  BY DEF SettleBulkMirror, SettleOwn, FailMirror, ReapMirror, FoundLast, RunAtWork, AtWork, Writing, SweepsLast,
         SweptLast, InHand, FinishRow
<1>2. cur > 0
  BY <1>1 DEF Runs
<1>3. ASSUME NEW v \in Variants
      PROVE  /\ row[cur][v] = "none" => /\ Afterwards(v)'
                                        /\ mirror'[v] = mirror[v] /\ mver'[v] = mver[v]
             /\ row[cur][v] # "none" => Fresh(v)'
             /\ row[cur][v] = "WRITING" => mirror'[v] = "unknown"
  <2>1. /\ row[cur][v] # "none" => Fresh(v)'
        /\ row[cur][v] = "none" => mirror'[v] = mirror[v] /\ mver'[v] = mver[v]
        /\ row[cur][v] = "WRITING" => mirror'[v] = "unknown"
    BY <1>1, SettledRow
  <2>2. row[cur][v] = "none" => Afterwards(v)'
    BY <1>1, <1>2, <2>1, HarmlessStays DEF LeftAlone
  <2> QED
    BY <2>1, <2>2
<1>4. \A v \in Variants : Afterwards(v)' /\ Harmless(v)'
  BY <1>3 DEF Afterwards, Harmless
<1>5. Explained' /\ AllSettled'
  BY <1>4 DEF Explained, AllSettled
<1>6. LeftAlone'
  BY <1>1, <1>4 DEF LeftAlone
<1>7. HeldUnknown'
  BY <1>1, <1>3 DEF HeldUnknown
<1>8. Claims' /\ Answered' /\ NoneDoneAhead'
  BY <1>1 DEF Claims, Answered, NoneDoneAhead
<1>9. SweptLast'
  BY <1>1 DEF SweptLast, SweepsLast
<1> QED
  BY <1>5, <1>6, <1>7, <1>8, <1>9 DEF ReportKept

(* Rows that go out and come back. *)
LEMMA RowsReport ==
    ASSUME MirrorInv, ReportInv, [Next]_vars,
           Submit \/ Submitting \/ (\E v \in Variants : Record(v)) \/ (\E r \in Runs : SettleBulk(r))
    PROVE  ReportKept
<1> USE DEF MirrorInv, BulkInv, IInv, TypeOK, ReportInv, shopify, mirrored, books, others, world
<1>1. /\ Still /\ UNCHANGED <<state, campaign, before, got, reap>> /\ ~FinishRow
      /\ pc' \notin SettledStages /\ pc \notin SettledStages
      /\ pc' \notin {"writing", "reading", "settling"}
      /\ pc' \in InHand => pc \in InHand
      /\ pc \in InHand => pc' \in InHand
      /\ (\E r \in Runs : reap[r] = "campaign") => pc' \in {"idle", "asked", "settled"}
  BY DEF Submit, Submitting, Record, SettleBulk, Still, FinishRow, SettledStages, InHand, AtWork, Writing, SweptLast
<1>2. SettledNow' => SettledNow
  BY <1>1 DEF SettledNow
<1>3. Claims' /\ SweptLast' /\ NoneDoneAhead'
  <2>1. pc' = "submitted" => pc = "writing" /\ row' = row
    BY DEF Submit, Submitting, Record, SettleBulk
  <2> QED
    BY <1>1, <2>1 DEF Claims, SweptLast, NoneDoneAhead, Still
<1>4. CASE Submit
  <2>1. row' = row /\ pc' = "submitted" /\ pc = "writing" /\ cur \in Runs /\ state[cur] = "EXECUTING"
    BY <1>4 DEF Submit, RunAtWork, AtWork, Writing
  <2>2. Explained' /\ LeftAlone' /\ AllSettled' /\ HeldUnknown'
    BY <1>1, <1>2, <2>1, StillSteps
  <2>3. Answered'
    BY <1>1, <2>1 DEF Answered, Still, OneByOne
  <2> QED
    BY <1>3, <2>2, <2>3 DEF ReportKept
<1>5. CASE Submitting
  <2>1. /\ pc = "submitted" /\ pc' = "polling" /\ cur \in Runs /\ state[cur] = "EXECUTING" /\ op' = op
        /\ \A v \in Variants : row'[cur][v] = IF row[cur][v] = "PENDING" THEN "WRITING" ELSE row[cur][v]
    BY <1>5 DEF Submitting, Pending, RunAtWork, AtWork, Writing
  <2>2. Explained' /\ LeftAlone' /\ AllSettled'
    BY <1>1, <1>2, <2>1, StillSteps
  <2>3. HeldUnknown'
    <3>1. ~SettledNow'
      BY <1>1, <2>1 DEF SettledNow
    <3>2. campaign = ClaimOf(kind[cur]) /\ \A v \in Variants : row[cur][v] = "PENDING" => mirror[v] # Goal(kind[cur])
      BY <2>1 DEF Claims, InHand, AtWork, Writing
    <3> QED
      BY <1>1, <2>1, <3>1, <3>2 DEF HeldUnknown, Claimed, Still
  <2>4. Answered'
    BY <1>1, <2>1 DEF Answered, Still
  <2> QED
    BY <1>3, <2>2, <2>3, <2>4 DEF ReportKept
<1>6. ASSUME NEW v \in Variants, Record(v) PROVE ReportKept
  <2>1. /\ pc = "recording" /\ pc' = pc /\ op' = op /\ cur \in Runs
        /\ row[cur][v] # "none" /\ row'[cur][v] \notin {"none", "WRITING"} /\ got[v] # "none"
        /\ \A w \in Variants : w # v => row'[cur][w] = row[cur][w]
    BY <1>6 DEF Record, RecordAs, Unrecorded, RunAtWork, AtWork
  <2>2. Explained' /\ LeftAlone' /\ AllSettled' /\ HeldUnknown'
    BY <1>1, <1>2, <2>1, StillSteps
  <2>3. Answered'
    BY <1>1, <2>1 DEF Answered, Still
  <2> QED
    BY <1>3, <2>2, <2>3 DEF ReportKept
<1>7. ASSUME NEW r \in Runs, SettleBulk(r) PROVE ReportKept
  <2>1. r = cur /\ cur \in Runs /\ op' = op /\ pc' = "settled"
    BY <1>7 DEF SettleBulk, Newest, Submitted, InFlight, LastHeld
  <2>2. \A v \in Variants : /\ row'[cur][v] = "none" <=> row[cur][v] = "none"
                            /\ row'[cur][v] # "WRITING"
    BY <1>7, <2>1 DEF SettleBulk, FromFile
  <2>3. Explained' /\ LeftAlone' /\ AllSettled' /\ HeldUnknown'
    BY <1>1, <1>2, <2>2, StillSteps
  <2>4. Answered'
    BY <1>1, <2>1 DEF Answered, Still
  <2> QED
    BY <1>3, <2>3, <2>4 DEF ReportKept
<1> QED
  BY <1>4, <1>5, <1>6, <1>7

(* A run begins: what it leaves alone is as it should be, or was written by the
   apply it resumes. *)
LEMMA StartReports ==
    ASSUME "status" \notin Weak, MirrorInv, MirrorInv', ReportInv, [Next]_vars,
           NEW k \in Kinds, NEW resume \in BOOLEAN, Start(k, resume)
    PROVE  ReportKept
<1> USE DEF MirrorInv, BulkInv, IInv, TypeOK, ReportInv, shopify, world
<1>1. /\ pc' = "writing" /\ cur' = cur + 1 /\ cur + 1 \in Runs /\ cur \in Nat
      /\ UNCHANGED <<live, ver, op, mver, reap>> /\ ~FinishRow
      /\ kind' = [kind EXCEPT ![cur + 1] = k] /\ state' = [state EXCEPT ![cur + 1] = "EXECUTING"]
      /\ campaign \in From(k) /\ campaign' = ClaimOf(k) /\ before' = campaign
      /\ mirror' = Refreshed(k)
      /\ \A v \in Variants : got'[v] = "none"
  BY BoundsAssumption DEF Start, Runs, FinishRow
<1>2. kind'[cur'] = k /\ state'[cur'] = "EXECUTING"
  BY <1>1
<1>3. \A r \in Runs : reap'[r] # "campaign"
  BY <1>1 DEF Start
<1>4. PICK spare \in IF k = "REVERT" THEN SUBSET Edited ELSE {{}} :
          LET off   == Off(mirror', k)
              alone == spare \cup (IF resume THEN Kept(k) ELSE {})
              sent  == (off \ alone) \ (IF resume THEN Done(k) ELSE {})
          IN  row' = [row EXCEPT ![cur + 1] = [v \in Variants |->
                        IF v \in sent THEN "PENDING"
                        ELSE IF v \in off \cap alone THEN "SKIPPED" ELSE "none"]]
  BY DEF Start
<1>5. ASSUME NEW v \in Variants
      PROVE  /\ row'[cur + 1][v] \in {"none", "PENDING", "SKIPPED"}
             /\ row'[cur + 1][v] = "PENDING" => mirror'[v] # Goal(k)
             /\ row'[cur + 1][v] = "none" => mirror'[v] \in {Goal(k), "gone"} \/ v \in Done(k)
             /\ row'[cur + 1][v] = "none" /\ mirror'[v] \notin {Goal(k), "gone"} => v \in Done(k)
  BY <1>1, <1>4 DEF Off
<1>12. ASSUME NEW v \in Variants, Claimed(v) PROVE k = kind[cur]
  <2>1. kind[cur] \in Kinds
    BY <1>1, <1>12 DEF Claimed, Runs
  <2> QED
    BY <1>1, <1>12, <2>1 DEF Claimed, ClaimOf, From, Kinds
<1>6. ASSUME NEW v \in Variants
      PROVE  Harmless(v)' \/ (cur > 0 /\ k = kind[cur] /\ campaign = ClaimOf(k) /\ mirror[v] # Goal(k) /\ mirror'[v] = mirror[v])
  <2>1. CASE mirror'[v] # mirror[v]
    BY <1>1, <2>1 DEF Refreshed, Harmless, Fresh
  <2>2. CASE mirror'[v] = mirror[v] /\ Harmless(v)
    BY <1>1, <2>2, HarmlessStays
  <2>3. CASE mirror'[v] = mirror[v] /\ Claimed(v)
    BY <1>12, <2>3 DEF Claimed
  <2> QED
    BY <2>1, <2>2, <2>3 DEF Explained
<1>7. Explained'
  BY <1>1, <1>2, <1>6 DEF Explained, Claimed
<1>8. Claims'
  <2>1. before' \in {"APPLYING", "REVERTING"} => before' = ClaimOf(k)
    BY <1>1 DEF From, ClaimOf, Kinds
  <2> QED
    BY <1>1, <1>2, <1>5, <1>6, <2>1 DEF Claims
<1>9. LeftAlone'
  <2> SUFFICES ASSUME NEW v \in Variants, row'[cur + 1][v] = "none"
               PROVE  Afterwards(v)' /\ live[v] \in {Goal(k)} \cup Others
    BY <1>1, <1>2 DEF LeftAlone
  <2>1. ASSUME live[v] \in Others PROVE Afterwards(v)'
    BY <1>1, <2>1 DEF Ordered, Afterwards
  <2>2. CASE mirror'[v] = "gone"
    BY <1>1, <2>1, <2>2 DEF Ordered, Others
  <2>3. CASE mirror'[v] = Goal(k)
    <3>1. Fresh(v)'
      <4>1. CASE mirror'[v] # mirror[v]
        BY <1>1, <4>1 DEF Refreshed, Fresh
      <4>2. CASE mirror'[v] = mirror[v] /\ live[v] \notin Others
        <5>1. Harmless(v)
          BY <1>12, <2>3, <4>2 DEF Explained, Claimed
        <5>2. mirror[v] # "edit" /\ mirror[v] # "gone"
          BY <2>3, <4>2 DEF Goal
        <5>3. CASE k = "APPLY"
          BY <1>1, <2>3, <4>2, <5>1, <5>2, <5>3 DEF Harmless, Goal, Fresh
        <5>4. CASE k = "REVERT"
          <6>1. mirror[v] = "base" /\ v \notin Off(mirror, k)
            BY <2>3, <4>2, <5>4 DEF Goal, Off
          <6>2. v \in TakenBack => live[v] = mirror[v]
            BY <1>1, <4>2, <5>4, <6>1 DEF Refreshed, Others
          <6>3. WroteLast(v) => v \in TakenBack
            BY <5>2 DEF WroteLast, TakenBack
          <6> QED
            BY <1>1, <4>2, <5>1, <5>2, <6>2, <6>3 DEF Harmless, Fresh
        <5> QED
          BY <5>3, <5>4 DEF Kinds
      <4>3. CASE live[v] \in Others
        BY <1>1, <4>3 DEF Ordered
      <4> QED
        BY <4>1, <4>2, <4>3
    <3>2. Goal(k) # "unknown"
      BY DEF Goal
    <3> QED
      BY <1>1, <2>3, <3>1, <3>2 DEF Afterwards, Fresh
  <2>4. CASE mirror'[v] \notin {Goal(k), "gone"}
    <3>1. v \in Done(k)
      BY <1>5, <2>4
    <3>2. cur \in Runs /\ cur > 0 /\ k = "APPLY" /\ kind[cur] = "APPLY" /\ row[cur][v] \in {"VERIFIED", "SKIPPED"}
      BY <1>1, <3>1 DEF Done, Runs, Kinds
    <3>3. CASE row[cur][v] = "SKIPPED"
      BY <2>1, <3>2, <3>3 DEF Told
    <3>4. CASE row[cur][v] = "VERIFIED"
      <4>1. live[v] \in {Goal(k)} \cup Others
        BY <3>2, <3>4 DEF Told, AsWanted
      <4>2. WroteLast(v)
        BY <3>2, <3>4 DEF WroteLast, NoneDoneAhead
      <4>3. WroteLast(v)'
        BY <1>1, <4>2, WroteStays
      <4> QED
        BY <1>2, <2>4, <3>2, <4>1, <4>3 DEF Afterwards, Goal
    <3> QED
      BY <3>2, <3>3, <3>4
  <2> QED
    BY <2>2, <2>3, <2>4
<1>10. SweptLast' /\ AllSettled' /\ HeldUnknown'
  BY <1>1, <1>3, <1>5 DEF SweptLast, AllSettled, HeldUnknown, SettledNow, SettledStages
<1>11. Answered' /\ NoneDoneAhead'
  <2>1. Answered'
    BY <1>1, <1>2 DEF Answered
  <2>2. \A r \in Runs : state'[r] = "COMPLETED" => state[r] = "COMPLETED"
    BY <1>1
  <2>3. NoneDoneAhead'
    BY <1>1, <2>2 DEF NoneDoneAhead, Runs
  <2> QED
    BY <2>1, <2>3
<1> QED
  BY <1>7, <1>8, <1>9, <1>10, <1>11 DEF ReportKept

(* A price sent by itself. *)
LEMMA SendReports ==
    ASSUME MirrorInv, MirrorInv', ReportInv, [Next]_vars, NEW v \in Variants, Send(v)
    PROVE  ReportKept
<1> USE DEF MirrorInv, BulkInv, IInv, TypeOK, ReportInv, mirrored, books, world
<1>1. /\ pc = "writing" /\ pc' \in {"writing", "reading"} /\ cur \in Runs /\ cur > 0 /\ state[cur] = "EXECUTING"
      /\ row[cur][v] = "PENDING" /\ got'[v] # "none" /\ ~FinishRow
      /\ pc' = "reading" => got'[v] = "failed"
      /\ UNCHANGED <<op, mirror, mver, row, cur, kind, state, campaign, before, reap>>
      /\ \A w \in Variants : w # v => got'[w] = got[w] /\ live'[w] = live[w] /\ ver'[w] = ver[w]
  <2>1. pc = "writing" /\ row[cur][v] = "PENDING"
    BY DEF Send, Pending
  <2>2. cur \in Runs /\ cur > 0 /\ state[cur] = "EXECUTING" /\ ~FinishRow
    BY <2>1 DEF RunAtWork, AtWork, Writing, FinishRow, Runs
  <2>3. UNCHANGED <<op, mirror, mver, row, cur, kind, state, campaign, before, reap>>
    BY DEF Send
  <2>4. \/ Learn(v, "unverified") /\ pc' = pc
        \/ Learn(v, "deleted") /\ pc' = pc
        \/ Learn(v, "failed") /\ pc' \in {pc, "reading"}
    BY DEF Send
  <2>5. /\ got'[v] # "none" /\ pc' \in {"writing", "reading"}
        /\ pc' = "reading" => got'[v] = "failed"
        /\ \A w \in Variants : w # v => got'[w] = got[w]
    BY <2>1, <2>4 DEF Learn
  <2>6. Keep \/ \E price \in Prices : Store(cur, v, price)
    <3>1. Goal(kind[cur]) \in Prices /\ "odd" \in Prices
      BY DEF Goal, Prices
    <3> QED
      BY <3>1 DEF Send
  <2>7. \A w \in Variants : w # v => live'[w] = live[w] /\ ver'[w] = ver[w]
    BY <2>6 DEF Keep, Store
  <2> QED
    BY <2>1, <2>2, <2>3, <2>5, <2>7
<1>2. campaign = ClaimOf(kind[cur]) /\ mirror[v] # Goal(kind[cur])
  BY <1>1 DEF Claims, InHand, AtWork, Writing
<1>3. \A w \in Variants : w # v => (Harmless(w) => Harmless(w)') /\ (Afterwards(w) => Afterwards(w)')
  BY <1>1, HarmlessStays
<1>4. ~SettledNow'
  BY <1>1 DEF SettledNow, SettledStages, SweptLast
<1>5. Explained'
  BY <1>1, <1>2, <1>3 DEF Explained, Claimed
<1>6. Claims'
  BY <1>1, <1>2, <1>3 DEF Claims, InHand, AtWork, Writing
<1>7. LeftAlone'
  BY <1>1, <1>3 DEF LeftAlone
<1>8. HeldUnknown'
  BY <1>1 DEF HeldUnknown, OneByOne
<1>9. Answered'
  BY <1>1 DEF Answered
<1>10. SweptLast' /\ NoneDoneAhead' /\ AllSettled'
  BY <1>1, <1>4 DEF SweptLast, NoneDoneAhead, AllSettled
<1> QED
  BY <1>5, <1>6, <1>7, <1>8, <1>9, <1>10 DEF ReportKept

(* A price Shopify applies by itself. *)
LEMMA ApplyReports ==
    ASSUME MirrorInv, MirrorInv', ReportInv, [Next]_vars, NEW r \in Runs, NEW v \in Variants, ShopifyApplies(r, v)
    PROVE  ReportKept
<1> USE DEF MirrorInv, BulkInv, IInv, TypeOK, ReportInv, mirrored, books, world
<1>1. r = cur /\ cur \in Runs /\ cur > 0 /\ op[cur][v] = "queued"
  BY DEF ShopifyApplies, OpsKnown, Held, LastHeld, Runs
<1>2. row[cur][v] = "WRITING" \/ (row[cur][v] = "PENDING" /\ pc = "submitted")
  BY <1>1 DEF OpsKnown, Held
<1>3. /\ UNCHANGED <<mirror, mver, row, rec, cur, kind, state, campaign, before, pc, got, reap>> /\ pc # "writing" /\ ~FinishRow
      /\ \A w \in Variants : w # v => live'[w] = live[w] /\ ver'[w] = ver[w]
      /\ live[v] = "gone" => live'[v] = "gone" /\ ver'[v] = ver[v]
  BY <1>1 DEF ShopifyApplies, Store, Keep, OneByOne, FinishRow
<1>4. \A w \in Variants : op'[cur][w] = "queued" => op[cur][w] = "queued"
  BY <1>1 DEF ShopifyApplies
<1>5. \A w \in Variants : w # v => (Harmless(w) => Harmless(w)') /\ (Afterwards(w) => Afterwards(w)')
  BY <1>1, <1>3, HarmlessStays
<1>6. SettledNow' <=> SettledNow
  BY <1>3 DEF SettledNow
<1>7. ASSUME mirror[v] \in {"unknown"} \cup Others PROVE Harmless(v)' /\ Afterwards(v)'
  BY <1>3, <1>7 DEF Harmless, Afterwards, Fresh, Others, Ordered
<1>8. mirror[v] \in {"unknown"} \cup Others \/ (Claimed(v) /\ ~SettledNow)
  <2>1. CASE row[cur][v] = "WRITING"
    BY <1>1, <2>1 DEF HeldUnknown
  <2>2. CASE row[cur][v] = "PENDING" /\ pc = "submitted"
    BY <1>1, <2>2 DEF Claims, Claimed, InHand, AtWork, Writing, SettledNow, SettledStages, SweptLast
  <2> QED
    BY <1>2, <2>1, <2>2
<1>9. Explained'
  BY <1>3, <1>5, <1>7, <1>8 DEF Explained, Claimed
<1>10. AllSettled'
  BY <1>5, <1>6, <1>7, <1>8 DEF AllSettled
<1>11. HeldUnknown'
  BY <1>3, <1>6 DEF HeldUnknown, Claimed
<1>12. LeftAlone'
  BY <1>2, <1>3, <1>5 DEF LeftAlone
<1>13. Claims' /\ SweptLast' /\ NoneDoneAhead'
  BY <1>3 DEF Claims, SweptLast, NoneDoneAhead
<1>14. Answered'
  BY <1>3, <1>4 DEF Answered
<1> QED
  BY <1>9, <1>10, <1>11, <1>12, <1>13, <1>14 DEF ReportKept

(* An edit or a deletion explains itself. *)
LEMMA OutsideReports ==
    ASSUME MirrorInv, MirrorInv', ReportInv, [Next]_vars, NEW v \in Variants, Outside(v) \/ Webhook(v)
    PROVE  ReportKept
<1> USE DEF MirrorInv, BulkInv, IInv, TypeOK, ReportInv, shopify, mirrored, books, world
<1>1. /\ UNCHANGED <<op, row, cur, kind, state, campaign, before, pc, got, reap>> /\ ~FinishRow
      /\ \A w \in Variants : w # v => /\ live'[w] = live[w] /\ ver'[w] = ver[w]
                                      /\ mirror'[w] = mirror[w] /\ mver'[w] = mver[w]
      /\ live'[v] \in Others
      /\ mirror'[v] = mirror[v] \/ mirror'[v] \in Others
  BY DEF Outside, Webhook, FinishRow
<1>2. \A w \in Variants : w # v => (Harmless(w) => Harmless(w)') /\ (Afterwards(w) => Afterwards(w)')
  BY <1>1, HarmlessStays
<1>3. Harmless(v)' /\ Afterwards(v)'
  BY <1>1 DEF Ordered, Harmless, Afterwards
<1>4. \A k : Goal(k) \notin Others
  BY DEF Goal, Others
<1>5. Explained' /\ AllSettled' /\ LeftAlone'
  BY <1>1, <1>2, <1>3 DEF Explained, Claimed, AllSettled, SettledNow, LeftAlone
<1>6. Claims'
  BY <1>1, <1>2, <1>3, <1>4 DEF Claims
<1>7. HeldUnknown'
  BY <1>1 DEF HeldUnknown, Claimed, SettledNow
<1>8. SweptLast' /\ NoneDoneAhead' /\ Answered'
  BY <1>1 DEF SweptLast, NoneDoneAhead, Answered
<1> QED
  BY <1>5, <1>6, <1>7, <1>8 DEF ReportKept

(* Each step keeps it. *)
LEMMA ReportStep ==
    ASSUME Weak = {}, MirrorInv, MirrorInv', ReportInv, [Next]_vars
    PROVE  ReportKept
<1>1. CASE LookEarly \/ GoOnLate \/ SubmitLost \/ FailMirrorFails
  BY <1>1 DEF LookEarly, GoOnLate, SubmitLost, FailMirrorFails, MirrorInv, BulkInv
<1>2. CASE UNCHANGED vars
  <2>1. Still /\ ~FinishRow /\ UNCHANGED vars
    BY <1>2 DEF Still, vars, FinishRow, MirrorInv, BulkInv, IInv, TypeOK
  <2>2. Explained' /\ LeftAlone' /\ AllSettled' /\ HeldUnknown'
    BY <2>1, StillSteps DEF vars, SettledNow
  <2>3. Claims' /\ SweptLast' /\ NoneDoneAhead' /\ Answered'
    <3>1. \A v \in Variants : Harmless(v)' <=> Harmless(v)
      BY <2>1 DEF vars, Harmless, Fresh, WroteLast
    <3> QED
      BY <2>1, <3>1 DEF vars, Claims, SweptLast, NoneDoneAhead, Answered, ReportInv
  <2> QED
    BY <2>2, <2>3 DEF ReportKept
<1>3. CASE \/ Ask \/ StandAside \/ AllSent \/ EndRead \/ AllRecorded \/ Throw \/ Crash \/ ReadFile
           \/ \E v \in Variants : ReadBack(v)
  BY <1>3, CallStep
<1>4. CASE FinishRow \/ Final \/ FailCampaign \/ FailRow \/ Unsent
  BY <1>4, EndStep
<1>5. ASSUME NEW r \in Runs, ReapRow(r) \/ ReapCampaign(r) \/ ReaperCrash(r) PROVE ReportKept
  BY <1>5, SweepStep
<1>6. CASE SettleBulkMirror \/ SettleOwn \/ FailMirror \/ \E r \in Runs : ReapMirror(r)
  BY <1>6, SettleReports
<1>7. CASE Submit \/ Submitting \/ (\E v \in Variants : Record(v)) \/ (\E r \in Runs : SettleBulk(r))
  BY <1>7, RowsReport
<1>8. ASSUME NEW k \in Kinds, NEW resume \in BOOLEAN, Start(k, resume) PROVE ReportKept
  BY <1>8, StartReports
<1>9. ASSUME NEW v \in Variants, Send(v) PROVE ReportKept
  BY <1>9, SendReports
<1>10. ASSUME NEW r \in Runs, NEW v \in Variants, ShopifyApplies(r, v) PROVE ReportKept
  BY <1>10, ApplyReports
<1>11. ASSUME NEW v \in Variants, Outside(v) \/ Webhook(v) PROVE ReportKept
  BY <1>11, OutsideReports
<1> QED
  BY <1>1, <1>2, <1>3, <1>4, <1>5, <1>6, <1>7, <1>8, <1>9, <1>10, <1>11 DEF Next

(* Both invariants hold in every reachable state while every gap is closed. *)
THEOREM ReportInvariance ==
    ASSUME Weak = {}
    PROVE  Spec => [](MirrorInv /\ ReportInv)
<1>1. Init => ReportInv
  <2> SUFFICES ASSUME Init PROVE ReportInv
    OBVIOUS
  <2>1. \A v \in Variants : Harmless(v)
    BY DEF Init, Harmless, Fresh
  <2>2. Explained
    BY <2>1 DEF Explained
  <2> QED
    BY <2>2 DEF Init, ReportInv, Claims, LeftAlone, SweptLast, AllSettled, HeldUnknown, Answered, NoneDoneAhead,
                SettledNow, SettledStages, InHand, AtWork, Writing
<1>2. ReportInv /\ MirrorInv /\ MirrorInv' /\ [Next]_vars => ReportInv'
  BY ReportStep DEF ReportInv, ReportKept
<1>3. Spec => []MirrorInv
  BY MirrorInvariance
<1> QED
  BY <1>1, <1>2, <1>3, PTL DEF Spec

(* What the abstract reader sees of a step. *)
LEMMA StepReports ==
    ASSUME MirrorInv, ReportInv, [Next]_vars
    PROVE  [Report!Next]_<<live, Said>>
<1> USE DEF MirrorInv, BulkInv, IInv, TypeOK, shopify, mirrored, books, others, world
<1>1. ASSUME NEW k \in Kinds, NEW resume \in BOOLEAN, Start(k, resume) PROVE [Report!Next]_<<live, Said>>
  <2>1. Said' = "none" /\ live' = live
    BY <1>1, BoundsAssumption DEF Start, Said, Runs
  <2> QED
    BY <2>1 DEF Report!Next, Report!Begin
<1>2. CASE FinishRow
  <2>1. /\ pc = "finishing" /\ cur \in Runs /\ cur > 0 /\ state[cur] = "EXECUTING" /\ Said = "none" /\ live' = live
        /\ UNCHANGED <<cur, kind>>
    BY <1>2 DEF FinishRow, RunAtWork, AtWork, Said, Runs
  <2>2. CASE state'[cur] # "COMPLETED"
    BY <2>1, <2>2 DEF Said
  <2>3. CASE state'[cur] = "COMPLETED"
    <3>1. Clean
      BY <1>2, <2>1, <2>3 DEF FinishRow
    <3>2. ASSUME NEW v \in Variants PROVE live[v] \in {Goal(kind[cur])} \cup Others
      <4>1. CASE row[cur][v] = "none"
        BY <2>1, <4>1 DEF ReportInv, LeftAlone
      <4>2. CASE row[cur][v] = "SKIPPED"
        BY <2>1, <4>2 DEF Told
      <4>3. CASE row[cur][v] \notin {"none", "SKIPPED"}
        <5>1. got[v] \in {"verified", "deleted"}
          BY <2>1, <3>1, <4>3 DEF Clean, ReportInv, Answered, Outcomes
        <5> QED
          BY <2>1, <5>1 DEF Told, AsWanted
      <4> QED
        BY <4>1, <4>2, <4>3
    <3>3. Said' = kind[cur] /\ kind[cur] \in {"APPLY", "REVERT"}
      BY <2>1, <2>3 DEF Said, Kinds
    <3>4. Report!Say(kind[cur])
      BY <2>1, <3>2, <3>3 DEF Report!Say, Report!Goal, Goal, Report!Others, Others
    <3> QED
      BY <3>3, <3>4 DEF Report!Next
  <2> QED
    BY <2>2, <2>3
<1>3. ASSUME NEW v \in Variants, NEW price \in {"base", "sale", "odd"}, cur \in Runs, state[cur] # "COMPLETED",
             Store(cur, v, price), UNCHANGED <<state, cur, kind>>
      PROVE  [Report!Next]_<<live, Said>>
  <2>1. Said = "none" /\ Said' = Said /\ live' = [live EXCEPT ![v] = price]
    BY <1>3 DEF Said, Store
  <2> QED
    BY <2>1 DEF Report!Next, Report!Write
<1>4. \A k : Goal(k) \in {"base", "sale", "odd"}
  BY DEF Goal
<1>5. ASSUME NEW v \in Variants, Send(v) PROVE [Report!Next]_<<live, Said>>
  <2>1. cur \in Runs /\ state[cur] # "COMPLETED" /\ UNCHANGED <<state, cur, kind>>
    BY <1>5 DEF Send, RunAtWork, AtWork, Writing
  <2>2. Keep \/ \E price \in {"base", "sale", "odd"} : Store(cur, v, price)
    BY <1>4, <1>5 DEF Send
  <2>3. CASE Keep
    BY <2>1, <2>3 DEF Keep, Said
  <2> QED
    BY <1>3, <2>1, <2>2, <2>3
<1>6. ASSUME NEW r \in Runs, NEW v \in Variants, ShopifyApplies(r, v) PROVE [Report!Next]_<<live, Said>>
  <2>1. r = cur /\ op[cur][v] = "queued" /\ cur > 0 /\ UNCHANGED <<state, cur, kind>>
    BY <1>6 DEF ShopifyApplies, OpsKnown, Held, LastHeld, Runs
  <2>2. state[cur] # "COMPLETED"
    BY <2>1 DEF ReportInv, Answered
  <2>3. Keep \/ \E price \in {"base", "sale", "odd"} : Store(cur, v, price)
    BY <1>4, <1>6, <2>1 DEF ShopifyApplies
  <2>4. CASE Keep
    BY <2>1, <2>4 DEF Keep, Said
  <2> QED
    BY <1>3, <2>1, <2>2, <2>3, <2>4
<1>7. ASSUME NEW v \in Variants, Outside(v) PROVE [Report!Next]_<<live, Said>>
  <2>1. Said' = Said /\ \E price \in {"edit", "gone"} : live' = [live EXCEPT ![v] = price]
    BY <1>7 DEF Outside, Said, Others
  <2> QED
    BY <2>1 DEF Report!Next, Report!Outside, Report!Others
<1>8. CASE Unsent \/ FailRow \/ \E r \in Runs : ReapRow(r)
  <2>1. UNCHANGED <<live, cur, kind>> /\ \A r \in Runs : state'[r] = state[r] \/ (state[r] = "EXECUTING" /\ state'[r] # "COMPLETED")
    BY <1>8 DEF Unsent, FailRow, ReapRow, RunAtWork, AtWork, Writing
  <2>2. cur # 0 => cur \in Runs
    BY DEF Runs
  <2>3. Said' = Said
    BY <2>1, <2>2 DEF Said
  <2> QED
    BY <2>1, <2>3
<1>9. CASE UNCHANGED <<live, state, cur, kind>>
  BY <1>9 DEF Said
<1> QED
  BY <1>1, <1>2, <1>5, <1>6, <1>7, <1>8, <1>9
     DEF Next, vars, Ask, LookEarly, GoOnLate, StandAside, SettleBulk, SettleBulkMirror, ReadBack, Record,
         Webhook, AllSent, EndRead, Submit, Submitting, SubmitLost, ReadFile, AllRecorded,
         SettleOwn, Final, Throw, FailMirror, FailMirrorFails, FailCampaign, Crash, ReapMirror, ReapCampaign,
         ReaperCrash

(* Ledger implements CleanReport while every gap is closed: a run that says it
   finished clean left every variant at its price or at somebody's own, and
   nothing of the app's moves one until the next run, for any variants, runs,
   edits and deaths. *)
THEOREM ReportSpecHolds ==
    ASSUME Weak = {}
    PROVE  Spec => ReportSpec
<1>1. Init => Report!Init
  BY DEF Init, Report!Init, Said
<1>2. MirrorInv /\ ReportInv /\ [Next]_vars => [Report!Next]_<<live, Said>>
  BY StepReports
<1>3. Spec => [](MirrorInv /\ ReportInv)
  BY ReportInvariance
<1> QED
  BY <1>1, <1>2, <1>3, PTL DEF Spec, ReportSpec, Report!Spec
=============================================================================
