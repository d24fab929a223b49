-------------------------- MODULE Baselines_proofs --------------------------
(* Proofs about Baselines: types; that a baseline is a price the merchant set or
   agreed to and no sale is left up, as long as no campaign goes live between a
   recapture's look and its read; and that no page says of a recapture which
   recorded something that it recorded nothing, as long as its process neither dies
   nor is taken for dead between the two; and that no apply discounts its own sale
   price without asking, as long as the ledger has what it sold. *)
EXTENDS Baselines, TLAPS

USE DEF Running, Claims, States, Sync

(* What a price in hand is: a step that records or writes one has one. *)
InHand ==
    /\ \A r \in Recaptures : at[r] = "holding" => took[r].price \in Prices
    /\ took[Sync].price # 0 => took[Sync].price \in Prices
    /\ run.stage \in {"rowed", "written"} => run.want \in Prices

Typed == TypeOK /\ InHand

LEMMA TypeInit == Init => Typed
<1> SUFFICES ASSUME Init PROVE Typed
  OBVIOUS
<1>1. NoRun \in Runs /\ NoRow \in Rows /\ Nothing \in Holds
  <2>1. NoRun \in Runs
    BY DEF NoRun, Runs
  <2>2. NoRow \in Rows
    BY DEF NoRow, Rows, Phases, Said
  <2>3. Nothing \in Holds
    BY DEF Nothing, Holds
  <2> QED BY <2>1, <2>2, <2>3
<1>2. base \in Bases
  <2>1. NoBase \in Bases
    BY DEF NoBase, Bases
  <2>2. [price |-> live, gen |-> 1, late |-> FALSE, ofSale |-> FALSE] \in Bases
    BY DEF Init, Bases
  <2> QED BY <2>1, <2>2 DEF Init
<1>3. edits \in 0 .. MaxEdits /\ runs \in 0 .. MaxRuns /\ troubles \in 0 .. MaxTroubles
  BY BoundsAssumption DEF Init
<1>4. InHand
  BY DEF Init, InHand, NoRun, Nothing
<1> QED BY <1>1, <1>2, <1>3, <1>4 DEF Init, Typed, TypeOK, Stages, Stints, NoStint

LEMMA ReplaceTyped ==
  ASSUME Typed, NEW p \in Prices, NEW s \in BOOLEAN, Replace(p, s)
  PROVE  base' \in Bases /\ base'.price = p
  BY PricesAssumption DEF Replace, Typed, TypeOK, Bases, HasStint, NoBase

LEMMA TroubleTyped == ASSUME Typed, Trouble PROVE troubles' \in 0 .. MaxTroubles
  BY BoundsAssumption DEF Trouble, Typed, TypeOK

(* What the merchant, Shopify's news and the sync do. *)
World == Deliver \/ SyncReads \/ SyncRecords \/ \E p \in Prices : Edit(p) \/ Adopt(p)

LEMMA TypeWorld == Typed /\ World => Typed'
<1> SUFFICES ASSUME Typed, World PROVE Typed'
  OBVIOUS
<1> USE NamesAssumption, PricesAssumption, BoundsAssumption
<1>1. CASE Deliver
  BY <1>1 DEF Deliver, Typed, TypeOK, InHand, sale, jobs
<1>2. CASE SyncReads
  <2>1. took' \in [Recaptures \cup {Sync} -> Holds]
    <3>1. [price |-> mirror, gen |-> base.gen, ofSale |-> FALSE] \in Holds
      BY DEF Holds, Bases, Typed, TypeOK
    <3> QED BY <1>2, <3>1 DEF SyncReads, Typed, TypeOK
  <2>2. took'[Sync].price \in Prices /\ \A r \in Recaptures : took'[r] = took[r]
    BY <1>2 DEF SyncReads, Typed, TypeOK
  <2> QED BY <1>2, <2>1, <2>2 DEF SyncReads, Typed, TypeOK, InHand, sale, jobs
<1>3. CASE SyncRecords
  <2>1. base' \in Bases
    BY <1>3, ReplaceTyped DEF SyncRecords, Typed, TypeOK, InHand, Bases
  <2>2. took' \in [Recaptures \cup {Sync} -> Holds] /\ took'[Sync].price = 0
        /\ \A r \in Recaptures : took'[r] = took[r]
    BY <1>3 DEF SyncRecords, Typed, TypeOK, Holds, Nothing
  <2> QED BY <1>3, <2>1, <2>2 DEF SyncRecords, Typed, TypeOK, InHand, sale, jobs
<1>4. ASSUME NEW p \in Prices, Edit(p) PROVE Typed'
  BY <1>4 DEF Edit, Typed, TypeOK, InHand, sale, jobs
<1>5. ASSUME NEW p \in Prices, Adopt(p) PROVE Typed'
  <2>1. base' \in Bases
    BY <1>5, ReplaceTyped DEF Adopt
  <2> QED BY <1>5, <2>1 DEF Adopt, Typed, TypeOK, InHand, sale, jobs, Nothing
<1> QED BY <1>1, <1>2, <1>3, <1>4, <1>5 DEF World

(* What the campaign's runs do. *)
Campaign ==
    \/ \E k \in {"APPLY", "REVERT"}, typed \in BOOLEAN : Press(k, typed)
    \/ PutBack \/ RunStep \/ StopEarly \/ StopLate

LEMMA WantedTyped == ASSUME Typed, HasBase PROVE Wanted \in Prices /\ Shown \in Prices \cup {0}
<1>1. base.price \in Prices /\ live \in Prices /\ mirror \in Prices \cup {0}
  BY DEF HasBase, Typed, TypeOK, Bases
<1> QED BY <1>1, PricesAssumption DEF Wanted, Shown

LEMMA TypeCampaign == Typed /\ Campaign => Typed'
<1> SUFFICES ASSUME Typed, Campaign PROVE Typed'
  OBVIOUS
<1> USE NamesAssumption, PricesAssumption, BoundsAssumption
<1>0. NoRun \in Runs /\ NoRun.stage = "idle" /\ run \in Runs /\ run.from \in States
  BY DEF NoRun, Runs, Typed, TypeOK
<1>1. ASSUME NEW k \in {"APPLY", "REVERT"}, NEW typed \in BOOLEAN, Press(k, typed) PROVE Typed'
  <2>1. status \in States \ Claims
    BY <1>1 DEF Press, Lawful
  <2>2. run' \in Runs /\ run'.stage = "claimed"
    BY <1>1, <1>0, <2>1 DEF Press, Runs, NoRun
  <2> QED BY <1>1, <2>2 DEF Press, ClaimOf, Typed, TypeOK, InHand, jobs
<1>2. CASE PutBack
  <2>1. run' \in Runs /\ run'.stage = "claimed"
    BY <1>2, <1>0 DEF PutBack, Runs, NoRun
  <2> QED BY <1>2, <2>1 DEF PutBack, Typed, TypeOK, InHand, jobs
<1>3. CASE PlanNothing
  <2>1. run' \in Runs /\ run'.stage = "finishing"
    BY <1>3, <1>0 DEF PlanNothing, Runs
  <2> QED BY <1>3, <2>1 DEF PlanNothing, Typed, TypeOK, InHand, jobs
<1>4. CASE AskForTheWord
  BY <1>4, <1>0 DEF AskForTheWord, Typed, TypeOK, InHand, jobs
<1>5. CASE PlanWrite
  <2>1. Wanted \in Prices /\ Shown \in Prices \cup {0}
    BY <1>5, WantedTyped DEF PlanWrite
  <2>2. run' \in Runs /\ run'.want \in Prices
    BY <1>5, <1>0, <2>1 DEF PlanWrite, Runs
  <2>3. base' \in Bases /\ base'.price = base.price
    BY <1>5 DEF PlanWrite, Bases, Typed, TypeOK, HasStint, NoBase
  <2> QED BY <1>5, <2>1, <2>2, <2>3 DEF PlanWrite, Typed, TypeOK, InHand, jobs, Nothing
<1>6. CASE Write
  <2>1. run' \in Runs /\ run'.want = run.want /\ run.want \in Prices
    BY <1>6, <1>0 DEF Write, Runs, Typed, InHand
  <2> QED BY <1>6, <2>1 DEF Write, Typed, TypeOK, InHand, jobs
<1>7. CASE Verify
  <2>1. run' \in Runs /\ run'.stage = "finishing" /\ run.want \in Prices
    BY <1>7, <1>0 DEF Verify, Runs, Typed, InHand
  <2>2. stint' \in Stints
    BY <1>7, <1>0, <2>1 DEF Verify, NoStint, Stints, Typed, TypeOK, Runs
  <2> QED BY <1>7, <2>1, <2>2 DEF Verify, Typed, TypeOK, InHand, jobs
<1>8. CASE Mismatch
  <2>1. run' \in Runs /\ run'.stage = "finishing"
    BY <1>8, <1>0 DEF Mismatch, Runs
  <2> QED BY <1>8, <2>1 DEF Mismatch, Typed, TypeOK, InHand, jobs
<1>9. CASE Finish
  <2>1. Outcome \in States /\ NoStint \in Stints
    BY DEF Outcome, NoStint, Stints
  <2>2. status' \in States /\ stint' \in Stints /\ sold' \subseteq Prices
    BY <1>9, <2>1 DEF Finish, Typed, TypeOK
  <2> QED BY <1>9, <1>0, <2>2 DEF Finish, Typed, TypeOK, InHand, jobs
<1>10. CASE StopEarly
  <2>1. troubles' \in 0 .. MaxTroubles
    BY <1>10, TroubleTyped DEF StopEarly
  <2> QED BY <1>10, <1>0, <2>1 DEF StopEarly, Typed, TypeOK, InHand, jobs
<1>11. CASE StopLate
  <2>1. troubles' \in 0 .. MaxTroubles
    BY <1>11, TroubleTyped DEF StopLate
  <2> QED BY <1>11, <1>0, <2>1 DEF StopLate, PartWay, Typed, TypeOK, InHand, jobs
<1> QED BY <1>1, <1>2, <1>3, <1>4, <1>5, <1>6, <1>7, <1>8, <1>9, <1>10, <1>11 DEF Campaign, RunStep

(* What a recapture's step leaves of the rows and of the price in hand. *)
LEMMA RowsTyped ==
  ASSUME Typed, NEW r \in Recaptures, NEW x \in Rows
  PROVE  [row EXCEPT ![r] = x] \in [Recaptures -> Rows]
  BY DEF Typed, TypeOK

LEMMA CloseTyped ==
  ASSUME Typed, NEW r \in Recaptures, NEW said \in Said, Close(r, said)
  PROVE  row' \in [Recaptures -> Rows]
<1>1. row[r] \in Rows
  BY DEF Typed, TypeOK
<1>2. [row[r] EXCEPT !.state = "closed", !.said = said] \in Rows
  BY <1>1 DEF Rows
<1> QED BY <1>1, <1>2 DEF Close, Typed, TypeOK

LEMMA MoveTyped ==
  ASSUME Typed, NEW r \in Recaptures, NEW s \in Stages, Move(r, s)
  PROVE  at' \in [Recaptures -> Stages] /\ at'[r] = s /\ \A q \in Recaptures \ {r} : at'[q] = at[q]
  BY DEF Move, Typed, TypeOK

LEMMA DropTyped ==
  ASSUME Typed, NEW r \in Recaptures, took' = [took EXCEPT ![r] = Nothing]
  PROVE  /\ took' \in [Recaptures \cup {Sync} -> Holds]
         /\ took'[Sync] = took[Sync] /\ \A q \in Recaptures \ {r} : took'[q] = took[q]
<1>1. Nothing \in Holds
  BY DEF Nothing, Holds
<1> QED BY <1>1, NamesAssumption DEF Typed, TypeOK

LEMMA DropInHand ==
  ASSUME Typed, NEW r \in Recaptures, NEW s \in Stages \ {"holding"}, Move(r, s),
         took' = [took EXCEPT ![r] = Nothing], run' = run
  PROVE  InHand'
<1>1. \A q \in Recaptures : at'[q] = "holding" => q # r /\ at[q] = "holding" /\ took'[q] = took[q]
  BY MoveTyped, DropTyped
<1> QED BY <1>1, DropTyped DEF Typed, InHand

LEMMA TypeRecapture == Typed /\ (\E r \in Recaptures : RecaptureStep(r)) => Typed'
<1> SUFFICES ASSUME Typed, NEW r \in Recaptures, RecaptureStep(r) PROVE Typed'
  OBVIOUS
<1> USE NamesAssumption
<1>0. /\ {"unborn", "checked", "enqueueing", "queued", "started", "looked", "holding", "recorded",
           "tracked", "dead", "ended"} \subseteq Stages
      /\ {"", "outcome", "nothing", "kept"} \subseteq Said
      /\ row[r] \in Rows
  BY DEF Stages, Said, Typed, TypeOK
<1>1. CASE Check(r)
  <2>1. over' \in [Recaptures -> BOOLEAN]
    BY <1>1 DEF Check, Overlaps, Typed, TypeOK
  <2> QED BY <1>0, <1>1, <2>1, MoveTyped DEF Check, Typed, TypeOK, InHand, Settled, sale
<1>2. CASE FlowLooks(r)
  BY <1>0, <1>2, MoveTyped DEF FlowLooks, Typed, TypeOK, InHand, Settled, sale
<1>3. ASSUME NEW k \in {"page", "queue"}, Claim(r, k) PROVE Typed'
  <2> DEFINE swept == [q \in Recaptures |-> IF q \in Open /\ row[q].quiet
                                             THEN [row[q] EXCEPT !.state = "closed"] ELSE row[q]]
             mine  == [NoRow EXCEPT !.state = "open", !.phase = IF k = "page" THEN "checking" ELSE "queued"]
  <2>1. mine \in Rows
    BY DEF NoRow, Rows, Phases, Said
  <2>2. swept \in [Recaptures -> Rows]
    <3>1. \A q \in Recaptures : row[q] \in Rows /\ [row[q] EXCEPT !.state = "closed"] \in Rows
      BY DEF Rows, Typed, TypeOK
    <3> QED BY <3>1
  <2>3. row' \in [Recaptures -> Rows]
    <3>1. row' = swept \/ row' = [swept EXCEPT ![r] = mine]
      BY <1>3 DEF Claim
    <3> QED BY <2>1, <2>2, <3>1
  <2>4. \E s \in {"ended", "looked", "enqueueing"} : Move(r, s)
    BY <1>3 DEF Claim
  <2> QED BY ZenonT(40), <1>0, <1>3, <2>3, <2>4, MoveTyped DEF Claim, Typed, TypeOK, InHand, Settled, sale
<1>4. CASE Enqueue(r)
  <2>1. [row[r] EXCEPT !.state = "deleted"] \in Rows
    BY <1>0 DEF Rows
  <2>2. row' \in [Recaptures -> Rows] /\ troubles' \in 0 .. MaxTroubles
    BY <1>4, <2>1, TroubleTyped DEF Enqueue, Typed, TypeOK
  <2>3. \E s \in {"queued", "ended"} : Move(r, s)
    BY <1>4 DEF Enqueue
  <2> QED BY <1>0, <1>4, <2>2, <2>3, MoveTyped DEF Enqueue, Typed, TypeOK, InHand, Settled, sale
<1>5. CASE Start(r)
  <2>1. [row[r] EXCEPT !.phase = "checking"] \in Rows
    BY <1>0 DEF Rows, Phases
  <2>2. row' \in [Recaptures -> Rows]
    BY <1>0, <1>5, <2>1, CloseTyped DEF Start, Typed, TypeOK
  <2>3. \E s \in {"started", "ended"} : Move(r, s)
    BY <1>5 DEF Start
  <2> QED BY <1>0, <1>5, <2>2, <2>3, MoveTyped DEF Start, Typed, TypeOK, InHand, Settled, sale
<1>6. CASE Recheck(r)
  <2>1. row' \in [Recaptures -> Rows]
    BY <1>0, <1>6, CloseTyped DEF Recheck, Typed, TypeOK
  <2>2. \E s \in {"looked", "ended"} : Move(r, s)
    BY <1>6 DEF Recheck
  <2> QED BY <1>0, <1>6, <2>1, <2>2, MoveTyped DEF Recheck, Typed, TypeOK, InHand, Settled, sale
<1>7. CASE Read(r)
  <2>1. [price |-> mirror, gen |-> base.gen, ofSale |-> mirror \in sold] \in Holds /\ mirror \in Prices
    BY <1>7 DEF Read, AlreadyCurrent, Holds, Bases, Typed, TypeOK
  <2>2. /\ took' \in [Recaptures \cup {Sync} -> Holds] /\ took'[r].price = mirror
        /\ took'[Sync] = took[Sync] /\ \A q \in Recaptures \ {r} : took'[q] = took[q]
    BY <1>7, <2>1 DEF Read, Typed, TypeOK
  <2>3. Move(r, "holding")
    BY <1>7 DEF Read
  <2>4. InHand'
    BY ZenonT(40), <1>0, <1>7, <2>1, <2>2, <2>3, MoveTyped DEF Read, Typed, InHand, Settled, sale
  <2> QED BY <1>0, <1>7, <2>2, <2>3, <2>4, MoveTyped DEF Read, Typed, TypeOK, Settled, sale
<1>8. CASE KeepBaseline(r)
  <2>1. row' \in [Recaptures -> Rows]
    BY <1>0, <1>8, CloseTyped DEF KeepBaseline
  <2> QED BY <1>0, <1>8, <2>1, MoveTyped DEF KeepBaseline, Typed, TypeOK, InHand, Settled, sale
<1>9. CASE Record(r)
  <2>1. took[r].price \in Prices /\ took[r].ofSale \in BOOLEAN
    BY <1>9 DEF Record, Typed, TypeOK, InHand, Holds
  <2>2. base' \in Bases
    BY <1>9, <2>1, ReplaceTyped DEF Record
  <2>3. merchant' \subseteq Prices /\ wrote' \in [Recaptures -> BOOLEAN]
    BY <1>9, <2>1 DEF Record, Typed, TypeOK
  <2>4. InHand'
    BY <1>0, <1>9, DropInHand DEF Record, sale
  <2> QED BY <1>0, <1>9, <2>2, <2>3, <2>4, DropTyped, MoveTyped DEF Record, Typed, TypeOK, sale
<1>10. CASE Collide(r)
  <2>1. row' \in [Recaptures -> Rows]
    BY <1>0, <1>10, CloseTyped DEF Collide
  <2>2. InHand'
    BY <1>0, <1>10, DropInHand DEF Collide, Settled, sale
  <2> QED BY <1>0, <1>10, <2>1, <2>2, DropTyped, MoveTyped DEF Collide, Typed, TypeOK, Settled, sale
<1>11. CASE Track(r)
  <2>1. [row[r] EXCEPT !.phase = IF row[r].state = "open" THEN "baselines" ELSE @] \in Rows
    BY <1>0 DEF Rows, Phases
  <2>2. row' \in [Recaptures -> Rows]
    BY <1>11, <2>1 DEF Track, Typed, TypeOK
  <2> QED BY <1>0, <1>11, <2>2, MoveTyped DEF Track, Typed, TypeOK, InHand, Settled, sale
<1>12. CASE EndRecapture(r)
  <2>1. row' \in [Recaptures -> Rows]
    BY <1>0, <1>12, CloseTyped DEF EndRecapture
  <2>2. troubles' \in 0 .. MaxTroubles
    BY <1>12, TroubleTyped DEF EndRecapture, Typed, TypeOK
  <2> QED BY <1>0, <1>12, <2>1, <2>2, MoveTyped DEF EndRecapture, Typed, TypeOK, InHand, Settled, sale
<1>13. CASE Throw(r)
  <2>1. row' \in [Recaptures -> Rows] /\ troubles' \in 0 .. MaxTroubles
    BY <1>0, <1>13, CloseTyped, TroubleTyped DEF Throw
  <2>2. InHand'
    BY <1>0, <1>13, DropInHand DEF Throw, Settled, sale
  <2> QED BY <1>0, <1>13, <2>1, <2>2, DropTyped, MoveTyped DEF Throw, Typed, TypeOK, Settled, sale
<1>14. CASE Die(r)
  <2>1. troubles' \in 0 .. MaxTroubles
    BY <1>14, TroubleTyped DEF Die
  <2>2. InHand'
    BY <1>0, <1>14, DropInHand DEF Die, Settled, sale
  <2> QED BY <1>0, <1>14, <2>1, <2>2, DropTyped, MoveTyped DEF Die, Typed, TypeOK, Settled, sale
<1>15. CASE GoQuiet(r)
  <2>1. [row[r] EXCEPT !.quiet = TRUE] \in Rows
    BY <1>0 DEF Rows
  <2>2. row' \in [Recaptures -> Rows]
    BY <1>15, <2>1 DEF GoQuiet, Typed, TypeOK
  <2> QED BY <1>15, <2>2 DEF GoQuiet, Typed, TypeOK, InHand, Settled, sale
<1> QED BY <1>1, <1>2, <1>3, <1>4, <1>5, <1>6, <1>7, <1>8, <1>9, <1>10, <1>11, <1>12, <1>13, <1>14, <1>15
     DEF RecaptureStep

LEMMA TypeNext == Typed /\ [Next]_vars => Typed'
<1> SUFFICES ASSUME Typed, [Next]_vars PROVE Typed'
  OBVIOUS
<1>1. CASE World
  BY <1>1, TypeWorld
<1>2. CASE Campaign
  BY <1>2, TypeCampaign
<1>3. CASE \E r \in Recaptures : RecaptureStep(r)
  BY <1>3, TypeRecapture
<1>4. CASE UNCHANGED vars
  BY <1>4 DEF vars, Typed, TypeOK, InHand
<1> QED BY <1>1, <1>2, <1>3, <1>4 DEF Next, World, Campaign

(* Every state of every behaviour is well typed. *)
THEOREM TypeCorrect == Spec => []TypeOK
<1>1. Spec => []Typed
  BY TypeInit, TypeNext, PTL DEF Spec
<1>2. Typed => TypeOK
  BY DEF Typed
<1> QED BY <1>1, <1>2, PTL

-----------------------------------------------------------------------------
(* A baseline is the merchant's, and no sale is left up.  Both need each other and
   what is in between: a recapture over no sale, and the sync, take what the
   storefront shows when no sale is on; a run puts up a price only while its campaign
   is claimed or running; a start that is given back has sent nothing; and a revert
   that says it is done shows the baseline. *)
HeldIsTrusted ==
    /\ \A r \in Recaptures : at[r] = "holding" => over[r] \/ took[r].price \in merchant
    /\ took[Sync].price # 0 => took[Sync].price \in merchant

RunIsClaimed ==
    run.stage # "idle" =>
        /\ status = IF run.whole THEN ClaimOf(run.kind) ELSE run.from
        /\ ~run.whole => run.from \in Running /\ run.kind = "APPLY"

NothingUp ==
    \/ status \notin MayBeLive
    \/ ~HasBase
    \/ run.stage = "claimed" /\ run.from \notin MayBeLive
    \/ run.stage = "finishing" /\ run.kind = "REVERT" /\ ~run.failed

ShowsTheMerchants == live \in merchant /\ mirror \in merchant \cup {0}

PutsBack ==
    run.stage \in {"rowed", "written"} => HasBase /\ (run.kind = "REVERT" => run.want \in merchant)

Trusted ==
    /\ Typed /\ BaselineIsTheMerchants /\ HeldIsTrusted /\ RunIsClaimed /\ PutsBack
    /\ NothingUp => ShowsTheMerchants

LEMMA TrustedInit == Init => Trusted
<1> SUFFICES ASSUME Init PROVE Trusted
  OBVIOUS
<1>1. Typed
  BY TypeInit
<1>2. BaselineIsTheMerchants
  BY DEF Init, NoBase, BaselineIsTheMerchants, HasBase
<1>3. HeldIsTrusted
  BY DEF Init, HeldIsTrusted, Nothing
<1>4. RunIsClaimed /\ PutsBack /\ ShowsTheMerchants
  BY DEF Init, RunIsClaimed, PutsBack, ShowsTheMerchants, NoRun
<1> QED BY <1>1, <1>2, <1>3, <1>4 DEF Trusted

LEMMA TrustedWorld == Trusted /\ World => Trusted'
<1> SUFFICES ASSUME Trusted, World PROVE Trusted'
  OBVIOUS
<1>0. Typed /\ Typed'
  BY TypeWorld DEF Trusted
<1> USE NamesAssumption
<1>1. CASE Deliver
  BY <1>0, <1>1 DEF Deliver, sale, jobs, Trusted, BaselineIsTheMerchants, HasBase, HeldIsTrusted, RunIsClaimed,
     PutsBack, NothingUp, ShowsTheMerchants
<1>2. CASE SyncReads
  <2>1. mirror \in merchant
    BY <1>2 DEF SyncReads, Trusted, NothingUp, ShowsTheMerchants
  <2>2. took'[Sync].price = mirror /\ \A r \in Recaptures : took'[r] = took[r]
    BY <1>0, <1>2 DEF SyncReads, Typed, TypeOK
  <2>3. HeldIsTrusted'
    BY <1>2, <2>1, <2>2 DEF SyncReads, jobs, Trusted, HeldIsTrusted
  <2> QED BY <1>0, <1>2, <2>3 DEF SyncReads, sale, jobs, Trusted, BaselineIsTheMerchants, HasBase, RunIsClaimed,
          PutsBack, NothingUp, ShowsTheMerchants
<1>3. CASE SyncRecords
  <2>1. took[Sync].price \in merchant /\ took[Sync].price \in Prices
    BY <1>0, <1>3 DEF SyncRecords, Trusted, HeldIsTrusted, Typed, InHand
  <2>2. base' = base \/ base'.price = took[Sync].price
    BY <1>0, <1>3, <2>1, ReplaceTyped DEF SyncRecords
  <2>3. took'[Sync].price = 0 /\ \A r \in Recaptures : took'[r] = took[r]
    BY <1>0, <1>3 DEF SyncRecords, Typed, TypeOK, Nothing
  <2>4. BaselineIsTheMerchants' /\ (HasBase => HasBase')
    BY <1>3, <2>1, <2>2, PricesAssumption DEF SyncRecords, Trusted, BaselineIsTheMerchants, HasBase
  <2>5. HeldIsTrusted'
    BY <1>3, <2>3 DEF SyncRecords, jobs, Trusted, HeldIsTrusted
  <2> QED BY <1>0, <1>3, <2>4, <2>5 DEF SyncRecords, sale, jobs, Trusted, RunIsClaimed, PutsBack, NothingUp,
          ShowsTheMerchants
<1>4. ASSUME NEW p \in Prices, Edit(p) PROVE Trusted'
  BY <1>0, <1>4 DEF Edit, sale, jobs, Trusted, BaselineIsTheMerchants, HasBase, HeldIsTrusted, RunIsClaimed,
     PutsBack, NothingUp, ShowsTheMerchants
<1>5. ASSUME NEW p \in Prices, Adopt(p) PROVE Trusted'
  <2>1. base'.price = p /\ p # 0
    BY <1>0, <1>5, ReplaceTyped, PricesAssumption DEF Adopt
  <2> QED BY <1>0, <1>5, <2>1 DEF Adopt, sale, jobs, Trusted, BaselineIsTheMerchants, HasBase, HeldIsTrusted,
          RunIsClaimed, PutsBack, NothingUp, ShowsTheMerchants
<1> QED BY <1>1, <1>2, <1>3, <1>4, <1>5 DEF World

LEMMA TrustedCampaign == Trusted /\ Campaign => Trusted'
<1> SUFFICES ASSUME Trusted, Campaign PROVE Trusted'
  OBVIOUS
<1>0. /\ Typed /\ Typed' /\ run \in Runs /\ status \in States
      /\ NoRun.stage = "idle"
  BY TypeCampaign DEF Trusted, Typed, TypeOK, NoRun
<1>1. BaselineIsTheMerchants' /\ HeldIsTrusted' /\ (HasBase' <=> HasBase) /\ base'.price = base.price
      /\ merchant' = merchant
  <2>1. base'.price = base.price /\ took' = took /\ UNCHANGED <<at, over, merchant>>
    BY <1>0 DEF Campaign, RunStep, Press, PutBack, PlanNothing, AskForTheWord, PlanWrite, Write, Verify, Mismatch,
       Finish, StopEarly, StopLate, jobs, Typed, TypeOK, Bases
  <2> QED BY <2>1 DEF Trusted, BaselineIsTheMerchants, HasBase, HeldIsTrusted
<1> SUFFICES RunIsClaimed' /\ PutsBack' /\ (NothingUp' => ShowsTheMerchants')
  BY <1>0, <1>1 DEF Trusted
<1> USE DEF RunIsClaimed, PutsBack, NothingUp, ShowsTheMerchants, MayBeLive, ClaimOf
<1>2. ASSUME NEW k \in {"APPLY", "REVERT"}, NEW typed \in BOOLEAN, Press(k, typed)
      PROVE  RunIsClaimed' /\ PutsBack' /\ (NothingUp' => ShowsTheMerchants')
  <2>1. run'.stage = "claimed" /\ run'.kind = k /\ run'.whole /\ run'.from = status /\ status' = ClaimOf(k)
    BY <1>2 DEF Press, NoRun
  <2> QED BY <1>1, <1>2, <2>1 DEF Press, Trusted
<1>3. CASE PutBack
  <2>1. run'.stage = "claimed" /\ run'.kind = "APPLY" /\ ~run'.whole /\ run'.from = status /\ status \in Running
    BY <1>3 DEF PutBack, NoRun
  <2> QED BY <1>1, <1>3, <2>1 DEF PutBack, Trusted
<1>4. CASE PlanNothing
  <2>1. run'.stage = "finishing" /\ run'.kind = run.kind /\ run'.whole = run.whole /\ run'.from = run.from
        /\ run'.failed = run.failed
    BY <1>0, <1>4 DEF PlanNothing, Runs
  <2>2. HasBase /\ run.kind = "REVERT" => live = base.price /\ mirror = base.price
    BY <1>4 DEF PlanNothing, Wanted, Shown
  <2> QED BY <1>0, <1>1, <1>4, <2>1, <2>2 DEF PlanNothing, Trusted, BaselineIsTheMerchants
<1>5. CASE AskForTheWord
  BY <1>0, <1>1, <1>5 DEF AskForTheWord, Trusted
<1>6. CASE PlanWrite
  <2>1. run'.stage = "rowed" /\ run'.kind = run.kind /\ run'.whole = run.whole /\ run'.from = run.from
        /\ run'.want = Wanted
    BY <1>0, <1>6 DEF PlanWrite, Runs
  <2> QED BY <1>0, <1>1, <1>6, <2>1 DEF PlanWrite, Wanted, Trusted, BaselineIsTheMerchants
<1>7. CASE Write
  <2>1. run'.stage = "written" /\ run'.kind = run.kind /\ run'.whole = run.whole /\ run'.from = run.from
        /\ run'.want = run.want
    BY <1>0, <1>7 DEF Write, Runs
  <2> QED BY <1>0, <1>1, <1>7, <2>1 DEF Write, Trusted
<1>8. CASE Verify
  <2>1. run'.stage = "finishing" /\ run'.kind = run.kind /\ run'.whole = run.whole /\ run'.from = run.from
    BY <1>0, <1>8 DEF Verify, Runs
  <2> QED BY <1>0, <1>1, <1>8, <2>1 DEF Verify, Trusted
<1>9. CASE Mismatch
  <2>1. run'.stage = "finishing" /\ run'.kind = run.kind /\ run'.whole = run.whole /\ run'.from = run.from
        /\ run'.failed
    BY <1>0, <1>9 DEF Mismatch, Runs
  <2> QED BY <1>0, <1>1, <1>9, <2>1 DEF Mismatch, Trusted
<1>10. CASE Finish
  <2>1. run.kind \in {"APPLY", "REVERT"} /\ run.whole \in BOOLEAN /\ run.failed \in BOOLEAN /\ run.from \in States
    BY <1>0 DEF Runs
  <2>2. UNCHANGED <<live, mirror>> /\ run'.stage = "idle" /\ RunIsClaimed' /\ PutsBack'
    BY <1>0, <1>10 DEF Finish
  <2>3. CASE run.whole
    <3>1. status' = Outcome
      BY <1>10, <2>3 DEF Finish
    <3>2. Outcome \in {"PARTIAL", "ACTIVE"} \/ (run.kind = "REVERT" /\ ~run.failed)
      BY <2>1 DEF Outcome
    <3>3. status' \in Running \/ (run.kind = "REVERT" /\ ~run.failed)
      BY <3>1, <3>2
    <3> QED BY <1>1, <1>10, <2>2, <3>3 DEF Finish, Trusted
  <2>4. CASE ~run.whole
    <3>1. status' = status /\ status \in Running
      BY <1>10, <2>4 DEF Finish, Trusted
    <3> QED BY <1>1, <2>2, <3>1 DEF Trusted
  <2> QED BY <2>3, <2>4
<1>11. CASE StopEarly
  BY <1>0, <1>1, <1>11 DEF StopEarly, Trusted
<1>12. CASE StopLate
  BY <1>0, <1>1, <1>12 DEF StopLate, PartWay, Trusted
<1> QED BY <1>2, <1>3, <1>4, <1>5, <1>6, <1>7, <1>8, <1>9, <1>10, <1>11, <1>12 DEF Campaign, RunStep

LEMMA TrustedRecapture ==
  ASSUME "looked" \notin Weak, Trusted, NEW r \in Recaptures, RecaptureStep(r) PROVE Trusted'
<1>0. Typed /\ Typed'
  BY TypeRecapture DEF Trusted
<1> USE NamesAssumption
<1>1. CASE Record(r)
  <2>1. took[r].price \in Prices /\ took[r].ofSale \in BOOLEAN
    BY <1>0, <1>1 DEF Record, Typed, TypeOK, InHand, Holds
  <2>2. base'.price = took[r].price /\ base'.price # 0
    BY <1>0, <1>1, <2>1, ReplaceTyped, PricesAssumption DEF Record
  <2>3. base'.price \in merchant' /\ merchant \subseteq merchant'
    BY <1>1, <2>2 DEF Record, Trusted, HeldIsTrusted
  <2>4. \A q \in Recaptures : at'[q] = "holding" => at[q] = "holding" /\ took'[q] = took[q]
    BY <1>0, <1>1 DEF Record, Move, Typed, TypeOK
  <2>5. took'[Sync] = took[Sync]
    BY <1>0, <1>1, DropTyped DEF Record
  <2>6. HeldIsTrusted'
    BY <1>1, <2>3, <2>4, <2>5 DEF Record, Trusted, HeldIsTrusted
  <2> QED BY <1>0, <1>1, <2>2, <2>3, <2>6 DEF Record, sale, Trusted, BaselineIsTheMerchants, HasBase, RunIsClaimed,
          PutsBack, NothingUp, ShowsTheMerchants
<1>2. CASE ~Record(r)
  <2>1. UNCHANGED Settled
    BY <1>2 DEF RecaptureStep, Check, FlowLooks, Claim, Enqueue, Start, Recheck, Read, KeepBaseline, Collide, Track,
       EndRecapture, Throw, Die, GoQuiet
  <2>2. HeldIsTrusted'
    <3>1. CASE Read(r)
      <4>1. over[r] \/ mirror \in merchant
        BY <3>1 DEF Read, Looked, Overlaps, AlreadyCurrent, Trusted, NothingUp, ShowsTheMerchants
      <4>2. took'[r].price = mirror /\ took'[Sync] = took[Sync]
            /\ \A q \in Recaptures \ {r} : at'[q] = at[q] /\ took'[q] = took[q]
        BY <1>0, <3>1 DEF Read, Move, Typed, TypeOK
      <4> QED BY <2>1, <3>1, <4>1, <4>2 DEF Read, Settled, Trusted, HeldIsTrusted
    <3>2. CASE ~Read(r)
      <4>1. /\ took'[Sync] = took[Sync]
            /\ \A q \in Recaptures : at'[q] = "holding" =>
                   at[q] = "holding" /\ took'[q] = took[q] /\ over'[q] = over[q]
        <5>1. CASE Check(r)
          BY <1>0, <5>1 DEF Check, Move, Typed, TypeOK
        <5>2. CASE Collide(r) \/ Throw(r) \/ Die(r)
          BY <1>0, <5>2, DropTyped DEF Collide, Throw, Die, Move, Typed, TypeOK
        <5>3. CASE \E k \in {"page", "queue"} : Claim(r, k)
          BY <1>0, <5>3 DEF Claim, Move, Typed, TypeOK
        <5>4. CASE FlowLooks(r) \/ Enqueue(r) \/ Start(r) \/ Recheck(r)
          <6>1. CASE FlowLooks(r)
            BY <1>0, <6>1 DEF FlowLooks, Move, Typed, TypeOK
          <6>2. CASE Enqueue(r)
            BY <1>0, <6>2 DEF Enqueue, Move, Typed, TypeOK
          <6>3. CASE Start(r)
            BY <1>0, <6>3 DEF Start, Move, Typed, TypeOK
          <6>4. CASE Recheck(r)
            BY <1>0, <6>4 DEF Recheck, Move, Typed, TypeOK
          <6> QED BY <5>4, <6>1, <6>2, <6>3, <6>4
        <5>5. CASE KeepBaseline(r) \/ Track(r) \/ EndRecapture(r) \/ GoQuiet(r)
          BY <1>0, <5>5 DEF KeepBaseline, Track, EndRecapture, GoQuiet, Move, Typed, TypeOK
        <5> QED BY <1>2, <3>2, <5>1, <5>2, <5>3, <5>4, <5>5 DEF RecaptureStep
      <4> QED BY <2>1, <4>1 DEF Settled, Trusted, HeldIsTrusted
    <3> QED BY <3>1, <3>2
  <2> QED BY <1>0, <2>1, <2>2 DEF Settled, sale, Trusted, BaselineIsTheMerchants, HasBase, RunIsClaimed, PutsBack,
          NothingUp, ShowsTheMerchants
<1> QED BY <1>1, <1>2

LEMMA TrustedSpec == ASSUME "looked" \notin Weak PROVE Spec => []Trusted
<1>1. Init => Trusted
  BY TrustedInit
<1>2. Trusted /\ [Next]_vars => Trusted'
  <2> SUFFICES ASSUME Trusted, [Next]_vars PROVE Trusted'
    OBVIOUS
  <2>1. CASE World
    BY <2>1, TrustedWorld
  <2>2. CASE Campaign
    BY <2>2, TrustedCampaign
  <2>3. CASE \E r \in Recaptures : RecaptureStep(r)
    BY <2>3, TrustedRecapture
  <2>4. CASE UNCHANGED vars
    <3>1. Typed'
      BY <2>4, TypeNext DEF Trusted
    <3> QED BY <2>4, <3>1 DEF vars, Trusted, BaselineIsTheMerchants, HasBase, HeldIsTrusted, RunIsClaimed, PutsBack,
            NothingUp, ShowsTheMerchants
  <2> QED BY <2>1, <2>2, <2>3, <2>4 DEF Next, World, Campaign
<1> QED BY <1>1, <1>2, PTL DEF Spec

(* As long as no campaign goes live between a recapture's look and its read, a
   baseline is a price the merchant set or was shown and agreed to. *)
THEOREM BaselineIsTheMerchantsHolds == ASSUME "looked" \notin Weak PROVE Spec => []BaselineIsTheMerchants
<1>1. Trusted => BaselineIsTheMerchants
  BY DEF Trusted
<1> QED BY <1>1, TrustedSpec, PTL

(* And no campaign that is not running leaves a price on the storefront that is not. *)
THEOREM NoSaleLeftUpHolds == ASSUME "looked" \notin Weak PROVE Spec => []NoSaleLeftUp
<1>1. Trusted => NoSaleLeftUp
  BY DEF Trusted, NothingUp, ShowsTheMerchants, NoSaleLeftUp
<1> QED BY <1>1, TrustedSpec, PTL

-----------------------------------------------------------------------------
(* What the page says.  A process that is at work has a row that is open and not
   quiet, or none (Flow), so a claim beside it closes nothing of its; and once
   something is recorded the row's last step says so. *)
AtWork == {"started", "looked", "holding", "recorded", "tracked"}

HonestAbout(r) ==
    /\ at[r] \in AtWork => row[r].state = "none" \/ (row[r].state = "open" /\ ~row[r].quiet)
    /\ row[r].state = "open" => row[r].said = ""
    /\ at[r] \in {"unborn", "checked"} => row[r].state = "none"
    /\ wrote[r] =>
        \/ at[r] = "recorded"
        \/ at[r] = "tracked" /\ (row[r].state = "open" => row[r].phase = "baselines")
        \/ at[r] \in {"dead", "ended"} /\ row[r].state = "none"
        \/ at[r] \in {"dead", "ended"} /\ row[r].state = "closed" /\ row[r].said \in {"outcome", "kept"}
        \/ at[r] = "dead" /\ row[r].state \in {"open", "closed"} /\ row[r].said = "" /\ row[r].phase = "baselines"

Honest == Typed /\ \A r \in Recaptures : HonestAbout(r)

LEMMA HonestInit == Init => Honest
<1> SUFFICES ASSUME Init PROVE Honest
  OBVIOUS
<1>1. Typed
  BY TypeInit
<1>2. ASSUME NEW r \in Recaptures PROVE HonestAbout(r)
  BY DEF Init, NoRow, HonestAbout, AtWork
<1> QED BY <1>1, <1>2 DEF Honest

LEMMA CloseSays ==
  ASSUME Typed, NEW r \in Recaptures, NEW said \in Said, Close(r, said)
  PROVE  /\ row[r].state # "open" => row'[r] = row[r]
         /\ row[r].state = "open" => row'[r].state = "closed" /\ row'[r].said = said
<1>1. row[r] \in Rows
  BY DEF Typed, TypeOK
<1> QED BY <1>1 DEF Close, Rows, Typed, TypeOK

LEMMA HonestStep ==
  ASSUME Typed, "died" \notin Weak, "silent" \notin Weak, \A q \in Recaptures : HonestAbout(q),
         NEW r \in Recaptures, RecaptureStep(r), NEW q \in Recaptures
  PROVE  HonestAbout(q)'
<1>a. HonestAbout(q) /\ HonestAbout(r)
  OBVIOUS
<1> USE <1>a DEF HonestAbout, AtWork
<1>0. row[r] \in Rows /\ row[q] \in Rows
  BY DEF Typed, TypeOK
<1>1. CASE \E k \in {"page", "queue"} : Claim(r, k)
  <2>1. PICK k \in {"page", "queue"} : Claim(r, k)
    BY <1>1
  <2> DEFINE swept == [s \in Recaptures |-> IF s \in Open /\ row[s].quiet
                                             THEN [row[s] EXCEPT !.state = "closed"] ELSE row[s]]
  <2>2. CASE q # r
    <3>1. row'[q] = swept[q] /\ at'[q] = at[q] /\ wrote'[q] = wrote[q]
      BY <2>1, <2>2 DEF Claim, Move, Typed, TypeOK
    <3>2. \/ row'[q] = row[q]
          \/ /\ row[q].state = "open" /\ row[q].quiet /\ row'[q].state = "closed"
             /\ row'[q].said = row[q].said /\ row'[q].phase = row[q].phase
      <4>1. q \in Open /\ row[q].quiet => swept[q] = [row[q] EXCEPT !.state = "closed"]
        OBVIOUS
      <4>2. ~(q \in Open /\ row[q].quiet) => swept[q] = row[q]
        OBVIOUS
      <4> HIDE DEF swept
      <4>3. CASE q \in Open /\ row[q].quiet
        <5>1. row'[q] = [row[q] EXCEPT !.state = "closed"] /\ row[q].state = "open"
          BY <3>1, <4>1, <4>3 DEF Open
        <5> QED BY <1>0, <4>3, <5>1 DEF Rows
      <4> QED BY <3>1, <4>2, <4>3
    <3> HIDE DEF swept
    <3> QED BY <3>1, <3>2
  <2>3. CASE q = r
    <3>1. at[r] = "checked" /\ ~wrote[r] /\ row[r].state = "none"
      BY <2>1, <2>3 DEF Claim
    <3>2. wrote' = wrote /\ at'[r] \in {"ended", "looked", "enqueueing"}
      BY <2>1 DEF Claim, Move, Typed, TypeOK
    <3>3. \/ row'[r] = swept[r] /\ at'[r] = "ended"
          \/ row'[r].state = "open" /\ ~row'[r].quiet /\ row'[r].said = ""
      BY <2>1 DEF Claim, Move, NoRow, Typed, TypeOK
    <3> QED BY <2>3, <3>1, <3>2, <3>3 DEF Open
  <2> QED BY <2>2, <2>3
<1>2. CASE q # r /\ ~(\E k \in {"page", "queue"} : Claim(r, k))
  <2>1. at'[q] = at[q] /\ row'[q] = row[q] /\ wrote'[q] = wrote[q]
    <3>0. CASE Check(r) \/ FlowLooks(r) \/ Recheck(r)
      BY <1>2, <3>0 DEF Check, FlowLooks, Recheck, Move, Close, Typed, TypeOK
    <3>1. CASE Enqueue(r) \/ Start(r)
      <4>1. \/ row' = row
            \/ row' = [row EXCEPT ![r].state = "deleted"]
            \/ row' = [row EXCEPT ![r].phase = "checking"]
            \/ Close(r, "")
        BY <3>1 DEF Enqueue, Start
      <4>2. row'[q] = row[q]
        BY <1>2, <4>1 DEF Close, Typed, TypeOK
      <4> QED BY <1>2, <3>1, <4>2 DEF Enqueue, Start, Move, Typed, TypeOK
    <3>2. CASE Read(r) \/ KeepBaseline(r) \/ Record(r) \/ Collide(r) \/ Track(r)
      BY ZenonT(40), <1>2, <3>2 DEF Read, KeepBaseline, Record, Collide, Track, Move, Close, Typed, TypeOK
    <3>3. CASE EndRecapture(r) \/ Throw(r) \/ Die(r) \/ GoQuiet(r)
      BY <1>2, <3>3 DEF EndRecapture, Throw, Die, GoQuiet, Move, Close, Typed, TypeOK
    <3> QED BY <1>2, <3>0, <3>1, <3>2, <3>3 DEF RecaptureStep
  <2> QED BY <2>1
<1>3. CASE q = r /\ ~(\E k \in {"page", "queue"} : Claim(r, k))
  <2>0. {"outcome", "nothing", "kept", ""} \subseteq Said
    BY DEF Said
  <2> USE <1>0, <1>3, <2>0
  <2>1. CASE Check(r) \/ FlowLooks(r)
    BY <2>1 DEF Check, FlowLooks, Move, Typed, TypeOK
  <2>2. CASE Enqueue(r)
    <3>1. wrote' = wrote /\ at[r] = "enqueueing" /\ at'[r] \in {"queued", "ended"}
          /\ (row' = row \/ row'[r].state = "deleted")
      <4>1. row' = row \/ row'[r] = [row[r] EXCEPT !.state = "deleted"]
        BY <2>2 DEF Enqueue, Typed, TypeOK
      <4>2. row' = row \/ row'[r].state = "deleted"
        BY <4>1 DEF Rows
      <4> QED BY <2>2, <4>2 DEF Enqueue, Move, Typed, TypeOK
    <3> QED BY <3>1
  <2>3. CASE Start(r)
    <3>1. CASE TooLate(r)
      BY <2>3, <3>1, CloseSays DEF Start, Move, Typed, TypeOK
    <3>2. CASE ~TooLate(r)
      <4>1. row'[r].state = "open" /\ row'[r].said = row[r].said /\ ~row'[r].quiet
        <5>1. row'[r] = [row[r] EXCEPT !.phase = "checking"]
          BY <2>3, <3>2 DEF Start, Typed, TypeOK
        <5> QED BY <3>2, <5>1 DEF TooLate, Rows
      <4> QED BY <2>3, <3>2, <4>1 DEF Start, TooLate, Move, Typed, TypeOK
    <3> QED BY <3>1, <3>2
  <2>4. CASE Recheck(r)
    <3>1. at[r] = "started" /\ wrote' = wrote
          /\ \/ Move(r, "ended") /\ Close(r, "nothing")
             \/ at'[r] = "looked" /\ row' = row
      BY <2>4 DEF Recheck, Move, Typed, TypeOK
    <3> QED BY ZenonT(40), <3>1, CloseSays DEF Move, Typed, TypeOK
  <2>5. CASE Read(r) \/ Record(r)
    BY ZenonT(40), <2>5 DEF Read, Looked, Record, Move, Typed, TypeOK
  <2>6. CASE KeepBaseline(r)
    BY <2>6, CloseSays DEF KeepBaseline, Looked, Move, Typed, TypeOK
  <2>7. CASE Collide(r)
    BY <2>7, CloseSays DEF Collide, Move, Typed, TypeOK
  <2>8. CASE Track(r)
    <3>1. \/ row[r].state = "open" /\ row'[r] = [row[r] EXCEPT !.phase = "baselines"]
          \/ row[r].state # "open" /\ row'[r] = [row[r] EXCEPT !.phase = row[r].phase]
      BY <2>8 DEF Track, Typed, TypeOK
    <3>2. /\ row'[r].state = row[r].state /\ row'[r].said = row[r].said /\ row'[r].quiet = row[r].quiet
          /\ row[r].state = "open" => row'[r].phase = "baselines"
      BY <3>1 DEF Rows
    <3> QED BY <2>8, <3>2 DEF Track, Move, Typed, TypeOK
  <2>9. CASE EndRecapture(r)
    <3>1. at[r] = "tracked" /\ wrote' = wrote /\ at'[r] = "ended"
          /\ \E said \in {"outcome", "kept"} : Close(r, said)
      BY <2>9 DEF EndRecapture, Move, Typed, TypeOK
    <3> QED BY ZenonT(40), <3>1, CloseSays
  <2>10. CASE Throw(r)
    BY <2>10, CloseSays DEF Throw, Move, Typed, TypeOK
  <2>11. CASE Die(r)
    BY <2>11 DEF Die, Move, Typed, TypeOK
  <2>12. CASE GoQuiet(r)
    <3>1. /\ at' = at /\ wrote' = wrote /\ at[r] \in {"queued", "dead"} /\ row[r].state = "open"
          /\ row'[r].state = row[r].state /\ row'[r].said = row[r].said /\ row'[r].phase = row[r].phase
      <4>1. row'[r] = [row[r] EXCEPT !.quiet = TRUE]
        BY <2>12 DEF GoQuiet, Typed, TypeOK
      <4>2. row'[r].state = row[r].state /\ row'[r].said = row[r].said /\ row'[r].phase = row[r].phase
        BY <4>1 DEF Rows
      <4> QED BY <2>12, <4>2 DEF GoQuiet
    <3> QED BY <3>1
  <2> QED BY <1>3, <2>1, <2>2, <2>3, <2>4, <2>5, <2>6, <2>7, <2>8, <2>9, <2>10, <2>11, <2>12 DEF RecaptureStep
<1> QED BY <1>1, <1>2, <1>3

(* As long as a recapture's process does not die, and is not taken for dead, after
   its transaction and before its row says so, no page says of a recapture which
   recorded something that nothing was recaptured. *)
THEOREM SaidTrulyHolds == ASSUME "died" \notin Weak, "silent" \notin Weak PROVE Spec => []SaidTruly
<1>1. Init => Honest
  BY HonestInit
<1>2. Honest /\ [Next]_vars => Honest'
  <2> SUFFICES ASSUME Honest, [Next]_vars PROVE Honest'
    OBVIOUS
  <2>1. Typed'
    BY TypeNext DEF Honest
  <2>2. CASE \E r \in Recaptures : RecaptureStep(r)
    BY <2>1, <2>2, HonestStep DEF Honest
  <2>3. CASE World \/ Campaign \/ UNCHANGED vars
    <3>1. UNCHANGED <<at, row, wrote>>
      BY <2>3 DEF World, Campaign, RunStep, vars, jobs, Deliver, SyncReads, SyncRecords, Edit, Adopt, Press, PutBack,
         PlanNothing, AskForTheWord, PlanWrite, Write, Verify, Mismatch, Finish, StopEarly, StopLate
    <3> QED BY <2>1, <3>1 DEF Honest, HonestAbout
  <2> QED BY <2>2, <2>3 DEF Next, World, Campaign
<1>3. Honest => SaidTruly
  BY DEF Honest, HonestAbout, SaidTruly, SaysNothing, AtWork
<1> QED BY <1>1, <1>2, <1>3, PTL DEF Spec
-----------------------------------------------------------------------------
(* What a sale recaptured at its own price is known by.  Its baseline is later than the first
   row of the stint, which has the price before it and has landed at that price; a
   baseline recorded before the prices that are up is their reference, and the
   rule does not lead back to it. *)

Recaptured == base.ofSale /\ base.price \in sold /\ base.price # SaleOf[base.price] =>
                 HasStint /\ base.late /\ base.price \in stint.wrote /\ stint.first # 0
Referred   == base.ofSale /\ Selling => run.want = SaleOf[base.price]
Cleared    == run.stage = "written" /\ run.kind = "REVERT" => sold = {}

Telling == Recaptured /\ Referred /\ Cleared

LEMMA TellingInit == Init => Telling
  BY DEF Init, Telling, Recaptured, Referred, Cleared, Selling, NoRun

LEMMA TellingWorld == ASSUME Typed, Telling, World PROVE Telling'
<1>1. CASE Deliver \/ SyncReads \/ \E p \in Prices : Edit(p)
  BY <1>1 DEF Deliver, SyncReads, Edit, sale, Telling, Recaptured, Referred, Cleared, Selling, HasStint
<1>2. CASE SyncRecords \/ \E p \in Prices : Adopt(p)
  <2>1. base' = base \/ base'.ofSale = FALSE
    BY <1>2 DEF SyncRecords, Adopt, Replace
  <2> QED BY <1>2, <2>1 DEF SyncRecords, Adopt, sale, Telling, Recaptured, Referred, Cleared, Selling, HasStint
<1> QED BY <1>1, <1>2 DEF World

LEMMA TellingCampaign == ASSUME Typed, Telling, Campaign PROVE Telling'
<1>0. run \in Runs /\ base \in Bases /\ stint \in Stints
  BY DEF Typed, TypeOK
<1>1. CASE \/ \E k \in {"APPLY", "REVERT"}, typed \in BOOLEAN : Press(k, typed)
           \/ PutBack \/ PlanNothing \/ AskForTheWord \/ Mismatch \/ StopEarly \/ StopLate
  <2>1. UNCHANGED <<base, stint, sold>> /\ run'.stage \in {"idle", "claimed", "finishing"}
    <3>1. ASSUME NEW k, NEW typed, Press(k, typed) PROVE UNCHANGED <<base, stint, sold>> /\ run'.stage = "claimed"
      BY <3>1 DEF Press, NoRun
    <3>2. PutBack => UNCHANGED <<base, stint, sold>> /\ run'.stage = "claimed"
      BY DEF PutBack, NoRun
    <3>3. PlanNothing \/ Mismatch => UNCHANGED <<base, stint, sold>> /\ run'.stage = "finishing"
      BY <1>0 DEF PlanNothing, Mismatch, Runs
    <3>4. AskForTheWord \/ StopEarly \/ StopLate => UNCHANGED <<base, stint, sold>> /\ run'.stage = "idle"
      BY DEF AskForTheWord, StopEarly, StopLate, NoRun
    <3> QED BY <1>1, <3>1, <3>2, <3>3, <3>4
  <2> QED BY <2>1 DEF Telling, Recaptured, Referred, Cleared, Selling, HasStint
<1>2. CASE PlanWrite
  <2>1. /\ UNCHANGED <<stint, sold>> /\ run'.stage = "rowed" /\ run'.kind = run.kind /\ run'.want = Wanted
        /\ base'.price = base.price /\ base'.ofSale = base.ofSale /\ base'.late = (HasStint /\ base.late)
    BY <1>0, <1>2 DEF PlanWrite, Runs, Bases
  <2> QED BY <2>1 DEF Telling, Recaptured, Referred, Cleared, Selling, HasStint, Wanted
<1>3. CASE Write
  <2>1. /\ UNCHANGED <<base, stint>> /\ run.stage = "rowed" /\ run'.stage = "written"
        /\ run'.kind = run.kind /\ run'.want = run.want
        /\ sold' = IF run.kind = "APPLY" THEN sold \cup {run.want} ELSE {}
    BY <1>0, <1>3 DEF Write, Runs
  <2>2. CASE run.kind = "APPLY"
    <3>1. base.ofSale => run.want = SaleOf[base.price]
      BY <2>1, <2>2 DEF Telling, Referred, Selling
    <3> QED BY <2>1, <2>2, <3>1 DEF Telling, Recaptured, Referred, Cleared, Selling, HasStint
  <2>3. CASE run.kind # "APPLY"
    BY <2>1, <2>3 DEF Telling, Recaptured, Referred, Cleared, Selling
  <2> QED BY <2>2, <2>3
<1>4. CASE Verify
  <2>1. UNCHANGED <<base, sold>> /\ run'.stage = "finishing" /\ run.stage = "written" /\ run.kind \in {"APPLY", "REVERT"}
    BY <1>0, <1>4 DEF Verify, Runs
  <2>2. CASE run.kind = "REVERT"
    BY <2>1, <2>2 DEF Telling, Recaptured, Referred, Cleared, Selling
  <2>3. CASE run.kind # "REVERT"
    <3>1. HasStint => stint'.first = stint.first /\ stint.wrote \subseteq stint'.wrote
      BY <1>4, <2>3 DEF Verify
    <3> QED BY <2>1, <3>1 DEF Telling, Recaptured, Referred, Cleared, Selling, HasStint
  <2> QED BY <2>2, <2>3
<1>5. CASE Finish
  BY <1>5 DEF Finish, NoRun, Telling, Recaptured, Referred, Cleared, Selling, HasStint
<1> QED BY <1>1, <1>2, <1>3, <1>4, <1>5 DEF Campaign, RunStep

LEMMA TellingRecapture ==
  ASSUME "unrecorded" \notin Weak, Typed, Telling, NEW r \in Recaptures, RecaptureStep(r) PROVE Telling'
<1>1. CASE Record(r)
  <2>1. /\ base'.ofSale = took[r].ofSale /\ base'.late = (HasStint \/ run.stage \in {"rowed", "written"})
        /\ base'.price = took[r].price /\ UNCHANGED <<run, stint, sold>>
        /\ ~(took[r].ofSale /\ (Unrecorded \/ Selling))
    BY <1>1 DEF Record, Replace, sale
  <2>2. took[r].ofSale /\ sold # {} => HasStint /\ stint.first # 0 /\ sold \subseteq stint.wrote
    BY <2>1 DEF Unrecorded, HasStint
  <2> QED BY <2>1, <2>2 DEF Telling, Recaptured, Referred, Cleared, Selling, HasStint
<1>2. CASE ~Record(r)
  <2>1. UNCHANGED <<base, run, stint, sold>>
    BY <1>2 DEF RecaptureStep, Check, FlowLooks, Claim, Enqueue, Start, Recheck, Read, KeepBaseline, Collide, Track,
                EndRecapture, Throw, Die, GoQuiet, Settled, sale
  <2> QED BY <2>1 DEF Telling, Recaptured, Referred, Cleared, Selling, HasStint
<1> QED BY <1>1, <1>2

LEMMA TellingAsks ==
  ASSUME "putback" \notin Weak, Typed, Telling, [Next]_vars,
         run.stage = "claimed", run'.stage = "rowed", run.kind = "APPLY", ~run.typed
  PROVE  ~(base.ofSale /\ base.price \in sold /\ base.price \notin {stint.first, SaleOf[base.price]})
<1>0. run \in Runs
  BY DEF Typed, TypeOK
<1>1. PlanWrite
  <2>1. CASE Campaign
    BY <1>0, <2>1 DEF Campaign, RunStep, Press, PutBack, PlanNothing, AskForTheWord, Write, Verify, Mismatch, Finish,
                      StopEarly, StopLate, NoRun, Runs
  <2>2. CASE World
    BY <2>2 DEF World, Deliver, SyncReads, SyncRecords, Edit, Adopt, sale
  <2>3. ASSUME NEW r \in Recaptures, RecaptureStep(r) PROVE run' = run
    BY <2>3 DEF RecaptureStep, Check, FlowLooks, Claim, Enqueue, Start, Recheck, Read, KeepBaseline, Record, Collide,
                Track, EndRecapture, Throw, Die, GoQuiet, Settled, sale
  <2>4. CASE UNCHANGED vars
    BY <2>4 DEF vars
  <2> QED BY <2>1, <2>2, <2>3, <2>4 DEF Next, World, Campaign
<1>2. ~RecapturedAtSale
  BY <1>1 DEF PlanWrite, Compounds
<1> QED BY <1>2 DEF RecapturedAtSale, Telling, Recaptured

(* As long as the ledger has the writes of a sale that is recaptured, and no edit is put back
   in one, no apply discounts the campaign's own sale price without the word: for
   any prices, rule, runs and recaptures, whatever is edited, stopped or taken for dead. *)
THEOREM AsksBeforeCompoundingHolds ==
  ASSUME "unrecorded" \notin Weak, "putback" \notin Weak PROVE Spec => AsksBeforeCompounding
<1> DEFINE Asks == (run.stage = "claimed" /\ run'.stage = "rowed" /\ run.kind = "APPLY" /\ ~run.typed)
                      => ~(base.ofSale /\ base.price \in sold /\ base.price \notin {stint.first, SaleOf[base.price]})
<1>1. Init => Typed /\ Telling
  BY TypeInit, TellingInit
<1>2. Typed /\ Telling /\ [Next]_vars => (Typed /\ Telling)'
  <2> SUFFICES ASSUME Typed, Telling, [Next]_vars PROVE Telling'
    BY TypeNext
  <2>1. CASE UNCHANGED vars
    BY <2>1 DEF vars, Telling, Recaptured, Referred, Cleared, Selling, HasStint
  <2> QED BY <2>1, TellingWorld, TellingCampaign, TellingRecapture DEF Next, World, Campaign
<1>3. Typed /\ Telling /\ [Next]_vars => [Asks]_vars
  BY TellingAsks
<1>4. ([][Asks]_vars) => AsksBeforeCompounding
  BY PTL DEF AsksBeforeCompounding
<1> HIDE DEF Asks
<1> QED BY <1>1, <1>2, <1>3, <1>4, PTL DEF Spec
=============================================================================
