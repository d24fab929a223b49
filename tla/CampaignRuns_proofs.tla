------------------------ MODULE CampaignRuns_proofs ------------------------
(* What holds of CampaignRuns for any number of calls, crashes and faults, and,
   after it, of Schedule, whose ticks are among those calls, for any number of
   workers.  The second is an instance with variables of its own: nothing of
   the one is used of the other. *)
EXTENDS CampaignRuns, ScheduleRows, TLAPS, Integers

(* The states a call can be sent to are states. *)
LEMMA StatesOfCalls ==
    ASSUME NEW p \in Calls, TypeOK
    PROVE  ClaimOf(p) \in States /\ FinalOf(p) \in States
BY DEF ClaimOf, FinalOf, TypeOK, States, Claims

(* Each step keeps the types. *)
LEMMA TypeStep ==
    ASSUME TypeOK, [Next]_vars
    PROVE  TypeOK'
<1> USE DEF TypeOK, Goto, calls, world
<1>1. ASSUME NEW p \in Full, Press(p) PROVE TypeOK'
  BY <1>1 DEF Press, Begin, Calls, Stages
<1>2. ASSUME NEW p \in Full, TickRead(p) PROVE TypeOK'
  BY <1>2 DEF TickRead, Begin, Calls, Stages
<1>3. ASSUME NEW p \in Full, Worker(p) PROVE TypeOK'
  BY <1>3 DEF Worker, JobBegin, Begin, Calls, Stages
<1>4. ASSUME NEW p \in Full, JobDropped(p) PROVE TypeOK'
  BY <1>4 DEF JobDropped
<1>5. ASSUME NEW s \in Scoped, ScopedCheck(s) PROVE TypeOK'
  BY <1>5 DEF ScopedCheck, Begin, Calls, Stages
<1>6. ASSUME NEW p \in Full, FullStep(p) PROVE TypeOK'
  <2> p \in Calls BY DEF Calls
  <2> USE DEF Stages, GiveBack, Refused
  <2>1. CASE TickClaim(p)
    BY <2>1, StatesOfCalls DEF TickClaim, TransitionWrite
  <2>2. CASE LookForRun(p)
    BY <2>2 DEF LookForRun, StandDown
  <2>3. CASE GatesRefuse(p)
    BY <2>3 DEF GatesRefuse
  <2>4. CASE GatesPass(p)
    BY <2>4 DEF GatesPass
  <2>5. CASE ClearEndedWindow(p)
    BY <2>5 DEF ClearEndedWindow, Move, States
  <2>6. CASE HandOver(p)
    BY <2>6 DEF HandOver
  <2>7. CASE HandClaim(p)
    BY <2>7 DEF HandClaim, TransitionRead
  <2>8. CASE HandClaimWrite(p)
    BY <2>8, StatesOfCalls DEF HandClaimWrite, TransitionWrite
  <2>9. CASE Enqueue(p)
    BY <2>9 DEF Enqueue
  <2>10. CASE EnqueueFails(p)
    BY <2>10 DEF EnqueueFails
  <2>11. CASE Claim(p)
    BY <2>11 DEF Claim, TransitionRead
  <2>12. CASE ClaimWrite(p)
    BY <2>12, StatesOfCalls DEF ClaimWrite, TransitionWrite
  <2>13. CASE LookForScoped(p)
    BY <2>13 DEF LookForScoped
  <2>14. CASE CreateRun(p)
    BY <2>14 DEF CreateRun, RunStates
  <2>15. CASE CreateRefused(p)
    BY <2>15 DEF CreateRefused, StandDown
  <2>16. CASE FullStarts(p)
    BY <2>16 DEF FullStarts
  <2>17. CASE FinishRun(p)
    BY <2>17 DEF FinishRun, RunStates
  <2>18. CASE Final(p)
    BY <2>18 DEF Final, TransitionRead
  <2>19. CASE FinalWrite(p)
    BY <2>19, StatesOfCalls DEF FinalWrite, TransitionWrite
  <2>20. CASE Throw(p)
    BY <2>20 DEF Throw
  <2>21. CASE Catch(p)
    BY <2>21 DEF Catch, RunStates
  <2>22. CASE Stop(p)
    BY <2>22 DEF Stop, TransitionRead
  <2>23. CASE StopWrite(p)
    BY <2>23 DEF StopWrite, TransitionWrite, States
  <2>24. CASE Release(p)
    BY <2>24 DEF Release
  <2>25. CASE ReleaseWrite(p)
    BY <2>25 DEF ReleaseWrite, TransitionWrite
  <2>26. CASE TickLosesEdits(p)
    BY <2>26 DEF TickLosesEdits
  <2> QED
    BY <1>6, <2>1, <2>2, <2>3, <2>4, <2>5, <2>6, <2>7, <2>8, <2>9, <2>10, <2>11, <2>12, <2>13,
       <2>14, <2>15, <2>16, <2>17, <2>18, <2>19, <2>20, <2>21, <2>22, <2>23, <2>24, <2>25, <2>26
    DEF FullStep
<1>7. ASSUME NEW s \in Scoped, ScopedStep(s) PROVE TypeOK'
  <2> s \in Calls BY DEF Calls
  <2> USE DEF Stages, GiveBack, Refused
  <2>1. CASE ScopedBegin(s)
    BY <2>1 DEF ScopedBegin
  <2>2. CASE GatesRefuse(s)
    BY <2>2 DEF GatesRefuse
  <2>3. CASE GatesPass(s)
    BY <2>3 DEF GatesPass
  <2>4. CASE CreateRun(s)
    BY <2>4 DEF CreateRun, RunStates
  <2>5. CASE CreateRefused(s)
    BY <2>5 DEF CreateRefused, StandDown
  <2>6. CASE ScopedStarts(s)
    BY <2>6 DEF ScopedStarts, RunStates
  <2>7. CASE FinishRun(s)
    BY <2>7 DEF FinishRun, RunStates
  <2>8. CASE Throw(s)
    BY <2>8 DEF Throw
  <2>9. CASE Catch(s)
    BY <2>9 DEF Catch, RunStates
  <2>10. CASE Release(s)
    BY <2>10 DEF Release
  <2>11. CASE ReleaseWrite(s)
    BY <2>11 DEF ReleaseWrite, TransitionWrite
  <2> QED
    BY <1>7, <2>1, <2>2, <2>3, <2>4, <2>5, <2>6, <2>7, <2>8, <2>9, <2>10, <2>11 DEF ScopedStep
<1>8. ASSUME NEW p \in Calls, Reaper(p) PROVE TypeOK'
  <2>1. CASE ReapRun(p)
    BY <2>1 DEF ReapRun, RunStates
  <2>2. CASE ReapRead(p)
    BY <2>2 DEF ReapRead
  <2>3. CASE ReapWrite(p)
    BY <2>3 DEF ReapWrite, Move, States
  <2> QED
    BY <1>8, <2>1, <2>2, <2>3 DEF Reaper
<1>9. ASSUME NEW p \in Calls, Crash(p) PROVE TypeOK'
  BY <1>9, CrashAssumption DEF Crash, Stages
<1>10. ASSUME NEW p \in Calls, ReaperCrash(p) PROVE TypeOK'
  BY <1>10, CrashAssumption DEF ReaperCrash
<1>11. CASE MoverLooks \/ Hold \/ ReleaseHold \/ CancelScheduled \/ Unschedule
  BY <1>11 DEF MoverLooks, MoveIfLegal, Hold, ReleaseHold, CancelScheduled, Unschedule, Move, States
<1>12. CASE UNCHANGED vars
  BY <1>12 DEF vars
<1> QED
  BY <1>1, <1>2, <1>3, <1>4, <1>5, <1>6, <1>7, <1>8, <1>9, <1>10, <1>11, <1>12 DEF Next, Step

(* Every variable keeps its type, however many calls there are and whatever fails. *)
THEOREM TypeCorrect == Spec => []TypeOK
<1>1. Init => TypeOK
  BY CrashAssumption DEF Init, TypeOK, States, Claims, RunStates, Stages
<1>2. TypeOK /\ [Next]_vars => TypeOK'
  BY TypeStep
<1> QED
  BY <1>1, <1>2, PTL DEF Spec

-----------------------------------------------------------------------------
(* The inductive invariant.  A row is NONE until its call gets to the insert,
   is live only between the insert and the end of the catch, and, unless the
   reaper can be wrong, is live for as long as its call may write. *)
BeforeRow == {"idle", "ticking", "checked", "look", "gates", "hand", "handclaim", "handclaiming",
              "enqueue", "claim", "claiming", "scopes", "plan"}
WithRow == {"created", "writing", "threw", "threwWriting", "dead"}
           \cup IF Faults THEN {"release", "releasing", "done"} ELSE {}

RowOK(p) ==
    /\ pc[p] \in BeforeRow => run[p] = "NONE"
    /\ p \in jobs => run[p] = "NONE" /\ pc[p] \in {"release", "releasing", "done", "dead"}
    /\ Live(p) => pc[p] \in WithRow
    /\ ~FalseReclaim /\ pc[p] \in {"created", "writing"} => Live(p)

RowFollowsStage == \A p \in Calls : RowOK(p)

OneLiveFull == \A f, g \in Full : Live(f) /\ Live(g) => f = g

(* A claim that stands is on the campaign, and a full run that has looked for
   scoped ones beneath its standing claim has none beside it. *)
HoldingIsClaimed == holding # {} => status \in Claims
LookedAndAlone ==
    ~FalseReclaim => \A f \in holding, s \in Scoped :
                        pc[f] \in {"plan", "created", "writing"} => pc[s] # "writing"

(* What a conditional update was checked against when its read was made. *)
ReadOK(p) ==
    /\ pc[p] \in {"ticking", "handclaiming", "claiming"} => <<seen[p], ClaimOf(p)>> \in Legal
    /\ pc[p] = "finishing" => <<seen[p], FinalOf(p)>> \in Legal
    /\ pc[p] = "stopping" => <<seen[p], "PARTIAL">> \in Legal
    /\ pc[p] = "releasing" => seen[p] \in Claims
    /\ reap[p] \in States => <<reap[p], "PARTIAL">> \in Legal

ReadsAllowWrites == \A p \in Calls : ReadOK(p)

IInv == TypeOK /\ RowFollowsStage /\ OneLiveFull /\ HoldingIsClaimed /\ LookedAndAlone
        /\ ReadsAllowWrites

-----------------------------------------------------------------------------
(* The steps of a call by what they touch: those that move the call alone, those
   that write the campaign's status, and (the rest) those that write a row. *)
Looks(p) ==
    \/ LookForRun(p) \/ GatesRefuse(p) \/ GatesPass(p) \/ HandOver(p) \/ Enqueue(p) \/ EnqueueFails(p)
    \/ LookForScoped(p) \/ CreateRefused(p) \/ FullStarts(p) \/ Throw(p) \/ TickLosesEdits(p)
    \/ HandClaim(p) \/ Claim(p) \/ Final(p) \/ Stop(p) \/ Release(p) \/ ScopedBegin(p)
Writes(p) ==
    \/ TickClaim(p) \/ ClearEndedWindow(p) \/ HandClaimWrite(p) \/ ClaimWrite(p)
    \/ FinalWrite(p) \/ StopWrite(p) \/ ReleaseWrite(p)
WritesRow(p) == CreateRun(p) \/ FinishRun(p) \/ Catch(p) \/ ScopedStarts(p)
Begins(p) == Press(p) \/ TickRead(p) \/ Worker(p) \/ JobDropped(p) \/ ScopedCheck(p)
Dies(p) == Crash(p) \/ ReaperCrash(p)
Moves == MoverLooks \/ Hold \/ ReleaseHold \/ CancelScheduled \/ Unschedule

(* Every step is one of these. *)
LEMMA StepKinds ==
    ASSUME [Next]_vars
    PROVE  \/ \E p \in Calls : Begins(p) \/ Looks(p) \/ Writes(p) \/ WritesRow(p) \/ Reaper(p) \/ Dies(p)
           \/ Moves
           \/ UNCHANGED vars
<1>1. ASSUME NEW p \in Calls, Step(p) PROVE Looks(p) \/ Writes(p) \/ WritesRow(p)
  BY <1>1 DEF Step, FullStep, ScopedStep, Looks, Writes, WritesRow
<1> QED
  BY <1>1 DEF Next, Calls, Begins, Dies, Moves

(* A row is opened by CreateRun, ended by one of three, and touched by nothing else. *)
LEMMA RowMoves ==
    ASSUME IInv, [Next]_vars
    PROVE  \/ run' = run
           \/ \E p \in Calls : CreateRun(p)
           \/ \E p \in Calls : /\ ~FalseReclaim => Live(p)
                               /\ \E end \in {"COMPLETED", "PARTIAL", "FAILED", "CANCELLED"} :
                                     run' = [run EXCEPT ![p] = end]
<1> USE DEF IInv, RowFollowsStage
<1>1. ASSUME NEW p \in Calls, Begins(p) \/ Looks(p) \/ Dies(p) PROVE run' = run
  BY <1>1 DEF Begins, Press, TickRead, Worker, JobBegin, JobDropped, ScopedCheck, Dies, Crash, ReaperCrash,
     Looks, LookForRun, GatesRefuse, GatesPass, HandOver, Enqueue, EnqueueFails, LookForScoped,
     CreateRefused, FullStarts, Throw, TickLosesEdits, HandClaim, Claim, Final, Stop, TransitionRead,
     Release, ScopedBegin
<1>2. ASSUME NEW p \in Calls, Writes(p) PROVE run' = run
  BY <1>2 DEF Writes, TickClaim, ClearEndedWindow, HandClaimWrite, ClaimWrite, FinalWrite, StopWrite,
     ReleaseWrite, TransitionWrite
<1>3. ASSUME NEW p \in Calls, FinishRun(p) \/ ScopedStarts(p)
      PROVE  \/ run' = run
             \/ /\ ~FalseReclaim => Live(p)
                /\ \E end \in {"COMPLETED", "PARTIAL", "CANCELLED"} : run' = [run EXCEPT ![p] = end]
  BY <1>3 DEF FinishRun, ScopedStarts, RowOK
<1>4. ASSUME NEW p \in Calls, Catch(p) \/ Reaper(p)
      PROVE  \/ run' = run
             \/ Live(p) /\ \E end \in {"PARTIAL", "FAILED"} : run' = [run EXCEPT ![p] = end]
  BY <1>4 DEF Catch, Reaper, ReapRun, ReapRead, ReapWrite
<1>5. ASSUME Moves \/ UNCHANGED vars PROVE run' = run
  BY <1>5 DEF Moves, MoverLooks, MoveIfLegal, Hold, ReleaseHold, CancelScheduled, Unschedule, vars
<1> QED
  BY <1>1, <1>2, <1>3, <1>4, <1>5, StepKinds DEF WritesRow

(* The unique index: a full row is opened only when there is none. *)
LEMMA OneLiveFullKept ==
    ASSUME IInv, [Next]_vars
    PROVE  OneLiveFull'
<1> USE DEF IInv, TypeOK, OneLiveFull, Live, Calls
<1>1. ASSUME NEW p \in Calls, CreateRun(p) PROVE OneLiveFull'
  BY <1>1 DEF CreateRun, LiveFull
<1>2. ASSUME NEW p \in Calls, NEW end \in {"COMPLETED", "PARTIAL", "FAILED", "CANCELLED"},
             run' = [run EXCEPT ![p] = end]
      PROVE  OneLiveFull'
  BY <1>2
<1> QED
  BY <1>1, <1>2, RowMoves

(* A call's row and its stage move together. *)
LEMMA RowFollowsStageKept ==
    ASSUME IInv, [Next]_vars
    PROVE  RowFollowsStage'
<1> SUFFICES ASSUME NEW q \in Calls PROVE RowOK(q)'
  BY DEF RowFollowsStage
<1> USE DEF IInv, TypeOK, RowFollowsStage, RowOK, BeforeRow, WithRow, Live, Goto, calls, world
<1>1. ASSUME NEW p \in Calls, Begins(p) PROVE RowOK(q)'
  BY <1>1 DEF Begins, Press, TickRead, Worker, JobBegin, JobDropped, ScopedCheck, Begin, Calls
<1>2. ASSUME NEW p \in Calls, Looks(p) PROVE RowOK(q)'
  BY <1>2 DEF Looks, LookForRun, GatesRefuse, GatesPass, HandOver, Enqueue, EnqueueFails, LookForScoped,
     CreateRefused, StandDown, GiveBack, Refused, FullStarts, Throw, TickLosesEdits, HandClaim, Claim,
     Final, Stop, TransitionRead, Release, ScopedBegin
<1>3. ASSUME NEW p \in Calls, Writes(p) PROVE RowOK(q)'
  BY <1>3 DEF Writes, TickClaim, ClearEndedWindow, Move, HandClaimWrite, ClaimWrite, FinalWrite, StopWrite,
     ReleaseWrite, TransitionWrite
<1>4. ASSUME NEW p \in Calls, WritesRow(p) PROVE RowOK(q)'
  BY <1>4 DEF WritesRow, CreateRun, FinishRun, Catch, GiveBack, ScopedStarts
<1>5. ASSUME NEW p \in Calls, Reaper(p) \/ Dies(p) PROVE RowOK(q)'
  BY <1>5 DEF Reaper, ReapRun, ReapRead, ReapWrite, Dies, Crash, ReaperCrash
<1>6. ASSUME Moves \/ UNCHANGED vars PROVE RowOK(q)'
  BY <1>6 DEF Moves, MoverLooks, MoveIfLegal, Hold, ReleaseHold, CancelScheduled, Unschedule, vars
<1> QED
  BY <1>1, <1>2, <1>3, <1>4, <1>5, <1>6, StepKinds

(* Whoever moves a claimed campaign ends every claim that stood. *)
LEMMA HoldingIsClaimedKept ==
    ASSUME IInv, [Next]_vars
    PROVE  HoldingIsClaimed'
<1> USE DEF IInv, TypeOK, HoldingIsClaimed, Claims, ClaimOf, calls, world
<1>1. ASSUME NEW p \in Calls, Begins(p) \/ Looks(p) \/ WritesRow(p) \/ Dies(p) PROVE HoldingIsClaimed'
  BY <1>1 DEF Begins, Press, TickRead, Worker, JobBegin, JobDropped, ScopedCheck, Begin, Looks,
     LookForRun, GatesRefuse, GatesPass, HandOver, Enqueue, EnqueueFails, LookForScoped,
     CreateRefused, StandDown, GiveBack, Refused, FullStarts, Throw, TickLosesEdits, HandClaim, Claim,
     Final, Stop, TransitionRead, Release, ScopedBegin, WritesRow, CreateRun, FinishRun, Catch, ScopedStarts,
     Dies, Crash, ReaperCrash
<1>2. ASSUME NEW p \in Calls, Writes(p) \/ Reaper(p) PROVE HoldingIsClaimed'
  BY <1>2 DEF Writes, TickClaim, ClearEndedWindow, Move, HandClaimWrite, ClaimWrite, FinalWrite, StopWrite,
     ReleaseWrite, TransitionWrite,
     Reaper, ReapRun, ReapRead, ReapWrite
<1>3. ASSUME Moves \/ UNCHANGED vars PROVE HoldingIsClaimed'
  BY <1>3 DEF Moves, MoverLooks, MoveIfLegal, Hold, ReleaseHold, CancelScheduled, Unschedule, Move, vars
<1> QED
  BY <1>1, <1>2, <1>3, StepKinds

(* Each of a full and a scoped run looks for the other after it has said it is
   there: a full run passes LookForScoped only with no scoped row live, and a
   scoped one starts only on a campaign nobody has claimed. *)
LEMMA LookedAndAloneKept ==
    ASSUME IInv, [Next]_vars
    PROVE  LookedAndAlone'
<1> SUFFICES ASSUME ~FalseReclaim, NEW f \in holding', NEW s \in Scoped,
                    pc'[f] \in {"plan", "created", "writing"}
             PROVE  pc'[s] # "writing"
  BY DEF LookedAndAlone
<1> f \in Calls /\ f \in Full /\ s \in Calls /\ f # s
  <2>1. TypeOK'
    BY TypeStep DEF IInv
  <2> QED
    BY <2>1, CallsAssumption DEF TypeOK, Calls
<1> USE DEF IInv, TypeOK, LookedAndAlone, Goto, calls, world
<1>1. ASSUME NEW p \in Calls, Begins(p) PROVE pc'[s] # "writing"
  BY <1>1 DEF Begins, Press, TickRead, Worker, JobBegin, JobDropped, ScopedCheck, Begin, Calls
<1>2. ASSUME NEW p \in Calls, Looks(p) PROVE pc'[s] # "writing"
  BY <1>2, CallsAssumption DEF Looks, LookForRun, GatesRefuse, GatesPass, HandOver, Enqueue, EnqueueFails, LookForScoped,
     CreateRefused, StandDown, GiveBack, Refused, FullStarts, Throw, TickLosesEdits, HandClaim, Claim,
     Final, Stop, TransitionRead, Release, ScopedBegin, LiveScoped, RowFollowsStage, RowOK
<1>3. ASSUME NEW p \in Calls, Writes(p) PROVE pc'[s] # "writing"
  BY <1>3 DEF Writes, TickClaim, ClearEndedWindow, Move, HandClaimWrite, ClaimWrite, FinalWrite, StopWrite,
     ReleaseWrite, TransitionWrite
<1>4. ASSUME NEW p \in Calls, WritesRow(p) PROVE pc'[s] # "writing"
  BY <1>4 DEF WritesRow, CreateRun, FinishRun, Catch, GiveBack, ScopedStarts, HoldingIsClaimed
<1>5. ASSUME NEW p \in Calls, Reaper(p) \/ Dies(p) PROVE pc'[s] # "writing"
  BY <1>5 DEF Reaper, ReapRun, ReapRead, ReapWrite, Move, Dies, Crash, ReaperCrash
<1>6. ASSUME Moves \/ UNCHANGED vars PROVE pc'[s] # "writing"
  BY <1>6 DEF Moves, MoverLooks, MoveIfLegal, Hold, ReleaseHold, CancelScheduled, Unschedule, Move, vars
<1> QED
  BY <1>1, <1>2, <1>3, <1>4, <1>5, <1>6, StepKinds

(* A conditional update still means what it meant when its read was made: the
   call's kind and its row stay as they were until it has been tried. *)
LEMMA ReadsAllowWritesKept ==
    ASSUME IInv, [Next]_vars
    PROVE  ReadsAllowWrites'
<1> SUFFICES ASSUME NEW q \in Calls PROVE ReadOK(q)'
  BY DEF ReadsAllowWrites
<1> DEFINE Same == /\ pc'[q] = pc[q] /\ kind'[q] = kind[q] /\ run'[q] = run[q]
                   /\ seen'[q] = seen[q] /\ reap'[q] = reap[q]
           Neither == pc'[q] \notin {"ticking", "handclaiming", "claiming", "finishing", "stopping", "releasing"}
                      /\ reap'[q] = reap[q]
<1>1. ASSUME Same PROVE ReadOK(q)'
  BY <1>1 DEF IInv, ReadsAllowWrites, ReadOK, ClaimOf, FinalOf
<1>2. ASSUME Neither PROVE ReadOK(q)'
  BY <1>2 DEF IInv, ReadsAllowWrites, ReadOK
<1> USE DEF IInv, TypeOK, Goto, calls, world
<1>3. ASSUME NEW p \in Calls, Begins(p) PROVE ReadOK(q)'
  <2>1. CASE TickRead(p) /\ q = p
    <3>1. pc'[q] = "ticking" /\ reap'[q] = reap[q] /\ seen'[q] = status
      BY <2>1 DEF TickRead, Begin
    <3>2. <<status, ClaimOf(q)'>> \in Legal
      BY <2>1 DEF TickRead, Begin, ClaimOf, Legal
    <3> QED
      BY <3>1, <3>2 DEF ReadsAllowWrites, ReadOK
  <2>2. CASE Press(p) \/ Worker(p) \/ JobDropped(p) \/ ScopedCheck(p) \/ (TickRead(p) /\ q # p)
    <3> Same \/ Neither
      BY <2>2 DEF Press, TickRead, Worker, JobBegin, JobDropped, ScopedCheck, Begin, Calls
    <3> QED
      BY <1>1, <1>2
  <2> QED
    BY <1>3, <2>1, <2>2 DEF Begins
<1>4. ASSUME NEW p \in Calls, Looks(p) PROVE ReadOK(q)'
  <2>1. CASE HandClaim(p) \/ Claim(p) \/ Final(p) \/ Stop(p) \/ Release(p)
    <3>1. CASE q = p
      <4>1. /\ ClaimOf(q)' = ClaimOf(q) /\ FinalOf(q)' = FinalOf(q)
            /\ reap'[q] = reap[q] /\ seen'[q] = status
        BY <2>1, <3>1 DEF HandClaim, Claim, Final, Stop, TransitionRead, Release, ClaimOf, FinalOf
      <4>2. CASE HandClaim(p) \/ Claim(p)
        BY ZenonT(40), <3>1, <4>1, <4>2 DEF HandClaim, Claim, TransitionRead, ReadsAllowWrites, ReadOK
      <4>3. CASE Final(p)
        BY <3>1, <4>1, <4>3 DEF Final, TransitionRead, ReadsAllowWrites, ReadOK
      <4>4. CASE Stop(p) \/ Release(p)
        BY ZenonT(40), <3>1, <4>1, <4>4 DEF Stop, TransitionRead, Release, ReadsAllowWrites, ReadOK
      <4> QED
        BY <2>1, <4>2, <4>3, <4>4
    <3>2. CASE q # p
      <4> Same
        BY <2>1, <3>2 DEF HandClaim, Claim, Final, Stop, TransitionRead, Release
      <4> QED
        BY <1>1
    <3> QED
      BY <3>1, <3>2
  <2>2. CASE ~(HandClaim(p) \/ Claim(p) \/ Final(p) \/ Stop(p) \/ Release(p))
    <3> Same \/ Neither
      BY <1>4, <2>2 DEF Looks, LookForRun, GatesRefuse, GatesPass, HandOver, Enqueue, EnqueueFails,
         LookForScoped, CreateRefused, StandDown, GiveBack, Refused, FullStarts, Throw, TickLosesEdits,
         ScopedBegin
    <3> QED
      BY <1>1, <1>2
  <2> QED
    BY <2>1, <2>2
<1>5. ASSUME NEW p \in Calls, Writes(p) PROVE ReadOK(q)'
  <2> Same \/ Neither
    BY <1>5 DEF Writes, TickClaim, ClearEndedWindow, Move, HandClaimWrite, ClaimWrite, FinalWrite,
       StopWrite, ReleaseWrite, TransitionWrite
  <2> QED
    BY <1>1, <1>2
<1>6. ASSUME NEW p \in Calls, WritesRow(p) PROVE ReadOK(q)'
  <2> Same \/ Neither
    BY <1>6 DEF WritesRow, CreateRun, FinishRun, Catch, GiveBack, ScopedStarts
  <2> QED
    BY <1>1, <1>2
<1>7. ASSUME NEW p \in Calls, Reaper(p) \/ Dies(p) PROVE ReadOK(q)'
  <2>1. CASE ReapRun(p) /\ q = p
    BY <2>1 DEF ReapRun, RowFollowsStage, RowOK, WithRow, ReadsAllowWrites, ReadOK, ClaimOf, States, Claims
  <2>2. CASE ReapRead(p) /\ q = p
    BY <2>2 DEF ReapRead, ReadsAllowWrites, ReadOK, ClaimOf, FinalOf, States, Claims
  <2>3. CASE (ReapWrite(p) \/ ReaperCrash(p)) /\ q = p
    <3>1. /\ ClaimOf(q)' = ClaimOf(q) /\ FinalOf(q)' = FinalOf(q)
          /\ reap'[q] = "idle" /\ pc' = pc /\ seen' = seen
      BY <2>3 DEF ReapWrite, ReaperCrash, ClaimOf, FinalOf
    <3> QED
      BY <3>1 DEF ReadsAllowWrites, ReadOK, States, Claims
  <2>4. CASE Crash(p) \/ q # p
    <3> Same \/ Neither
      BY <1>7, <2>4 DEF Reaper, ReapRun, ReapRead, ReapWrite, Dies, Crash, ReaperCrash
    <3> QED
      BY <1>1, <1>2
  <2> QED
    BY <1>7, <2>1, <2>2, <2>3, <2>4 DEF Reaper, Dies
<1>8. ASSUME Moves \/ UNCHANGED vars PROVE ReadOK(q)'
  <2> Same
    BY <1>8 DEF Moves, MoverLooks, MoveIfLegal, Hold, ReleaseHold, CancelScheduled, Unschedule, vars
  <2> QED
    BY <1>1
<1> QED
  BY <1>3, <1>4, <1>5, <1>6, <1>7, <1>8, StepKinds

-----------------------------------------------------------------------------
(* The strengthening holds in every state of the specification. *)
THEOREM Invariance == Spec => []IInv
<1>1. Init => IInv
  <2> SUFFICES ASSUME Init PROVE IInv
    OBVIOUS
  <2>1. TypeOK
    BY CrashAssumption DEF Init, TypeOK, States, Claims, RunStates, Stages
  <2>2. RowFollowsStage
    BY DEF Init, RowFollowsStage, RowOK, BeforeRow, Live
  <2>3. OneLiveFull /\ HoldingIsClaimed /\ LookedAndAlone
    BY DEF Init, OneLiveFull, HoldingIsClaimed, LookedAndAlone, Live, Calls
  <2>4. ReadsAllowWrites
    BY DEF Init, ReadsAllowWrites, ReadOK, States, Claims
  <2> QED
    BY <2>1, <2>2, <2>3, <2>4 DEF IInv
<1>2. IInv /\ [Next]_vars => IInv'
  <2> SUFFICES ASSUME IInv, [Next]_vars PROVE IInv'
    OBVIOUS
  <2>1. TypeOK'
    BY TypeStep DEF IInv
  <2> QED
    BY <2>1, RowFollowsStageKept, OneLiveFullKept, HoldingIsClaimedKept, LookedAndAloneKept,
       ReadsAllowWritesKept DEF IInv
<1> QED
  BY <1>1, <1>2, PTL DEF Spec

(* Rule 2 for whole-campaign runs, for any number of presses, ticks, jobs,
   crashes and faults: no two of them write at the same time. *)
THEOREM OneFullWriterHolds == Spec => []OneFullWriter
<1>1. IInv => OneFullWriter
  BY DEF IInv, OneFullWriter, OneLiveFull, RowFollowsStage, RowOK, Calls
<1> QED
  BY <1>1, Invariance, PTL

(* Rule 2 across the two kinds: while a full run's claim stands, no scoped run
   writes beside it, however many of either there are. *)
THEOREM ClaimExcludesScopedHolds == Spec => []ClaimExcludesScoped
<1>1. IInv => ClaimExcludesScoped
  BY DEF IInv, ClaimExcludesScoped, LookedAndAlone
<1> QED
  BY <1>1, Invariance, PTL

(* Unless the database fails the catch itself, a call that has returned has no
   row that says it is in progress. *)
THEOREM ReturnedRunsAreOverHolds == Spec => []ReturnedRunsAreOver
<1>1. IInv => ReturnedRunsAreOver
  BY DEF IInv, ReturnedRunsAreOver, RowFollowsStage, RowOK, WithRow
<1> QED
  BY <1>1, Invariance, PTL

(* The status moves along the state machine's edges, or back to where a call
   that gives its claim back took it from, whoever comes between a read and
   its update. *)
THEOREM StatusMovesHolds == Spec => StatusMoves
<1> DEFINE Allowed == \/ <<status, status'>> \in Legal
                      \/ status \in Claims /\ \E p \in Calls : pc[p] = "releasing" /\ status' = before[p]
<1>1. ASSUME IInv, [Next]_vars PROVE Allowed \/ status' = status
  <2> USE DEF IInv, ReadsAllowWrites, ReadOK, calls, world
  <2>1. ASSUME NEW p \in Calls, Begins(p) \/ Looks(p) \/ WritesRow(p) \/ Dies(p) PROVE status' = status
    BY <2>1 DEF Begins, Press, TickRead, Worker, JobBegin, JobDropped, ScopedCheck,
       Looks, LookForRun, GatesRefuse, GatesPass, HandOver, Enqueue, EnqueueFails, LookForScoped,
       CreateRefused, FullStarts, Throw, TickLosesEdits, HandClaim, Claim, Final, Stop, TransitionRead,
       Release, ScopedBegin, WritesRow, CreateRun, FinishRun, Catch, ScopedStarts, Dies, Crash, ReaperCrash
  <2>2. ASSUME NEW p \in Calls, Writes(p) PROVE Allowed \/ status' = status
    <3>1. CASE ClearEndedWindow(p)
      BY <1>1, <3>1 DEF ClearEndedWindow, Move, Legal
    <3>2. CASE ReleaseWrite(p)
      BY <1>1, <3>2 DEF ReleaseWrite, TransitionWrite
    <3>3. CASE StopWrite(p) \/ FinalWrite(p)
      BY <1>1, <3>3 DEF StopWrite, FinalWrite, TransitionWrite
    <3>4. CASE TickClaim(p) \/ HandClaimWrite(p) \/ ClaimWrite(p)
      BY <1>1, <3>4 DEF TickClaim, HandClaimWrite, ClaimWrite, TransitionWrite
    <3> QED
      BY <2>2, <3>1, <3>2, <3>3, <3>4 DEF Writes
  <2>3. ASSUME NEW p \in Calls, Reaper(p) PROVE Allowed \/ status' = status
    BY <1>1, <2>3 DEF Reaper, ReapRun, ReapRead, ReapWrite, Move
  <2>4. ASSUME Moves \/ UNCHANGED vars PROVE Allowed \/ status' = status
    BY <1>1, <2>4 DEF Moves, MoverLooks, MoveIfLegal, Hold, ReleaseHold, CancelScheduled, Unschedule, Move, Legal, TypeOK, vars
  <2> QED
    BY <1>1, <2>1, <2>2, <2>3, <2>4, StepKinds
<1>2. IInv /\ [Next]_vars => [Allowed]_status
  BY <1>1
<1> QED
  BY <1>2, Invariance, PTL DEF Spec, StatusMoves

(* While the reaper takes only dead runs for dead, every step on the rows is one
   RunRows allows: a row opens once, alone among full runs, and closes once. *)
THEOREM RowsImplemented == ASSUME ~FalseReclaim PROVE Spec => Rows!SafeSpec
<1>1. Init => Rows!Init
  BY DEF Init, Rows!Init, Rows!Calls, Calls
<1>2. ASSUME IInv, [Next]_vars PROVE [Rows!Next]_run
  <2> USE DEF IInv, TypeOK, Rows!Next, Rows!Calls, Calls
  <2>1. ASSUME NEW p \in Calls, CreateRun(p) PROVE Rows!Open(p)
    <3>1. run[p] = "NONE"
      BY <1>2, <2>1 DEF CreateRun, RowFollowsStage, RowOK, BeforeRow
    <3> QED
      BY <1>2, <2>1, <3>1 DEF CreateRun, LiveFull, Live, Rows!Open
  <2>2. ASSUME NEW p \in Calls, Live(p), NEW end \in {"COMPLETED", "PARTIAL", "FAILED", "CANCELLED"},
               run' = [run EXCEPT ![p] = end]
        PROVE  Rows!Close(p)
    BY <2>2 DEF Live, Rows!Close, Rows!Ends
  <2> QED
    BY <1>2, <2>1, <2>2, RowMoves
<1>3. IInv /\ [Next]_vars => [Rows!Next]_run
  BY <1>2
<1> QED
  BY <1>1, <1>3, Invariance, PTL DEF Spec, Rows!SafeSpec

-----------------------------------------------------------------------------
(* No claim is left behind by a lone whole call, for any scoped calls beside it.

   Where such a call has the campaign claimed, it is at a stage from which every
   path ends the claim, and what its conditional update read is still there. *)
Keeping(f) ==
    \/ pc[f] \in {"look", "gates", "claim"} /\ via[f] \in {"tick", "job"}
    \/ pc[f] \in {"enqueue", "scopes", "plan", "created", "writing", "finished",
                  "threw", "threwWriting", "stopped", "release"}
    \/ pc[f] \in {"finishing", "stopping", "releasing"} /\ seen[f] = status
    \/ pc[f] = "done" /\ f \in jobs

(* And whatever anybody gives back is not itself a claim. *)
GivesBack ==
    crashes = 0 =>
        /\ \A s \in Scoped : pc[s] \in {"release", "releasing"} => before[s] \notin Claims
        /\ \A f \in Full : /\ before[f] \notin Claims /\ handed[f] \notin Claims
                           /\ pc[f] = "ticking" => via[f] = "tick"
                           /\ status \in Claims => status = ClaimOf(f) /\ Keeping(f)

(* What a scoped call does to the claim is to give it back. *)
LEMMA ScopedGivesBack ==
    ASSUME IInv, GivesBack, NEW s \in Scoped, ScopedStep(s)
    PROVE  GivesBack'
<1> USE DEF IInv, TypeOK, Calls
<1>1. /\ UNCHANGED <<jobs, crashes, handed, via, kind>>
      /\ \A p \in Calls \ {s} : pc'[p] = pc[p] /\ before'[p] = before[p] /\ seen'[p] = seen[p]
  BY DEF ScopedStep, ScopedBegin, GatesRefuse, GatesPass, CreateRun, CreateRefused, ScopedStarts, FinishRun, Throw,
     Catch, Release, ReleaseWrite, TransitionWrite, Goto, calls, world
<1>2. pc'[s] \in {"release", "releasing"} =>
         \/ before'[s] = before[s] /\ pc[s] \in {"release", "releasing"}
         \/ before'[s] \notin Claims
  BY DEF ScopedStep, ScopedBegin, GatesRefuse, GatesPass, CreateRun, CreateRefused, ScopedStarts, FinishRun, Throw,
     Catch, Release, ReleaseWrite, TransitionWrite, Goto, calls, Refused, GiveBack, StandDown
<1>3. status' = status \/ (pc[s] = "releasing" /\ status' = before[s])
  BY DEF ScopedStep, ScopedBegin, GatesRefuse, GatesPass, CreateRun, CreateRefused, ScopedStarts, FinishRun, Throw,
     Catch, Release, ReleaseWrite, TransitionWrite
<1>4. \A f \in Full : f \in Calls \ {s}
  BY CallsAssumption
<1>5. ASSUME crashes' = 0, NEW t \in Scoped, pc'[t] \in {"release", "releasing"} PROVE before'[t] \notin Claims
  BY <1>1, <1>2, <1>5 DEF GivesBack
<1>6. ASSUME crashes' = 0, NEW f \in Full
      PROVE  /\ before'[f] \notin Claims /\ handed'[f] \notin Claims
             /\ pc'[f] = "ticking" => via'[f] = "tick"
             /\ status' \in Claims => status' = ClaimOf(f)' /\ Keeping(f)'
  <2>1. status' \in Claims => status' = status
    BY <1>1, <1>3, <1>6 DEF GivesBack
  <2> QED
    BY <1>1, <1>4, <1>6, <2>1 DEF GivesBack, Keeping, ClaimOf
<1> QED
  BY <1>5, <1>6 DEF GivesBack, Claims

(* A step that leaves the campaign unclaimed, or as it was with its claim kept. *)
LEMMA KeepsTheClaim ==
    ASSUME IInv, GivesBack, NEW f, Full = {f}, crashes' = crashes,
           \A p \in Scoped : pc'[p] = pc[p] /\ before'[p] = before[p],
           crashes = 0 => before'[f] \notin Claims /\ handed'[f] \notin Claims,
           crashes = 0 /\ pc'[f] = "ticking" => via'[f] = "tick",
           crashes = 0 /\ status' \in Claims => status' = ClaimOf(f)' /\ Keeping(f)'
    PROVE  GivesBack'
BY DEF GivesBack, Claims

(* The call itself. *)
LEMMA FullGivesBack ==
    ASSUME IInv, GivesBack, ~Faults, NEW f, Full = {f}, FullStep(f)
    PROVE  GivesBack'
<1> f \in Calls /\ f \notin Scoped
  BY CallsAssumption DEF Calls
<1> USE DEF IInv, TypeOK
<1>1. /\ UNCHANGED <<crashes, kind, via>>
      /\ \A p \in Scoped : pc'[p] = pc[p] /\ before'[p] = before[p]
  BY DEF FullStep, TickClaim, LookForRun, GatesRefuse, GatesPass, ClearEndedWindow, HandOver, HandClaim, HandClaimWrite,
     Enqueue, EnqueueFails, Claim, ClaimWrite, LookForScoped, CreateRun, CreateRefused, FullStarts, FinishRun,
     Final, FinalWrite, Throw, Catch, Stop, StopWrite, Release, ReleaseWrite, TickLosesEdits,
     TransitionRead, TransitionWrite, Goto, calls, world, Calls
<1>2. pc'[f] # "ticking"
  BY DEF FullStep, TickClaim, LookForRun, GatesRefuse, GatesPass, ClearEndedWindow, HandOver, HandClaim, HandClaimWrite,
     Enqueue, EnqueueFails, Claim, ClaimWrite, LookForScoped, CreateRun, CreateRefused, FullStarts, FinishRun,
     Final, FinalWrite, Throw, Catch, Stop, StopWrite, Release, ReleaseWrite, TickLosesEdits,
     TransitionRead, TransitionWrite, Goto, StandDown, Refused, GiveBack
<1> SUFFICES ASSUME crashes = 0
             PROVE  /\ before'[f] \notin Claims /\ handed'[f] \notin Claims
                    /\ status' \in Claims => status' = ClaimOf(f)' /\ Keeping(f)'
  BY <1>1, <1>2, KeepsTheClaim
<1>3. /\ before[f] \notin Claims /\ handed[f] \notin Claims
      /\ pc[f] = "ticking" => via[f] = "tick"
      /\ status \in Claims => status = ClaimOf(f) /\ Keeping(f)
  BY DEF GivesBack
<1>4. ClaimOf(f)' = ClaimOf(f) /\ FinalOf(f) \notin Claims
  BY <1>1 DEF ClaimOf, FinalOf, Claims
<1>5. pc[f] \notin {"created", "writing", "threw", "threwWriting", "dead"} => LiveFull = {}
  BY DEF RowFollowsStage, RowOK, WithRow, LiveFull
<1>6. CASE TickClaim(f) \/ HandClaimWrite(f) \/ ClaimWrite(f)
  <2>1. status \notin Claims
    BY <1>3, <1>6 DEF TickClaim, HandClaimWrite, ClaimWrite, TransitionWrite, Keeping
  <2>2. pc[f] = "ticking" => seen[f] \notin Claims
    <3>1. \A a, b \in Claims : <<a, b>> \notin Legal
      BY DEF Legal, Claims
    <3>2. ClaimOf(f) \in Claims
      BY DEF ClaimOf, Claims
    <3> QED
      BY <3>1, <3>2 DEF ReadsAllowWrites, ReadOK
  <2>3. CASE TickClaim(f)
    BY <1>1, <1>3, <1>4, <2>1, <2>2, <2>3 DEF TickClaim, TransitionWrite, Goto, Keeping
  <2>4. CASE HandClaimWrite(f) \/ ClaimWrite(f)
    BY <1>1, <1>3, <1>4, <2>1, <2>4 DEF HandClaimWrite, ClaimWrite, TransitionWrite, Goto, Keeping, calls
  <2> QED
    BY <1>6, <2>3, <2>4
<1>7. CASE LookForRun(f) \/ GatesRefuse(f) \/ GatesPass(f) \/ LookForScoped(f)
  <2>1. UNCHANGED <<status, before, handed>>
    BY <1>7 DEF LookForRun, GatesRefuse, GatesPass, LookForScoped, calls
  <2>2. GiveBack(f) = "release" /\ (via[f] \in {"tick", "job"} => Refused(f) = "release")
    BY <1>3 DEF GiveBack, Refused
  <2>3. status \in Claims => \/ pc'[f] \in {"release", "plan"}
                             \/ pc'[f] \in {"gates", "claim"} /\ via[f] \in {"tick", "job"}
    <3>1. CASE LookForRun(f)
      BY <1>3, <1>5, <3>1 DEF LookForRun, Goto, Keeping
    <3>2. CASE GatesRefuse(f)
      BY <1>3, <2>2, <3>2 DEF GatesRefuse, Goto, Keeping
    <3>3. CASE GatesPass(f)
      BY <1>3, <3>3 DEF GatesPass, Goto, Keeping
    <3>4. CASE LookForScoped(f)
      BY <2>2, <3>4 DEF LookForScoped, Goto
    <3> QED
      BY <1>7, <3>1, <3>2, <3>3, <3>4
  <2> QED
    BY <1>1, <1>3, <1>4, <2>1, <2>2, <2>3 DEF Keeping
<1>8. CASE ClearEndedWindow(f)
  BY <1>3, <1>8 DEF ClearEndedWindow, Move, Claims
<1>9. CASE HandOver(f) \/ HandClaim(f)
  <2>1. status \notin Claims
    BY <1>3, <1>9 DEF HandOver, HandClaim, TransitionRead, Keeping
  <2> QED
    BY <1>3, <1>9, <2>1 DEF HandOver, HandClaim, TransitionRead, calls
<1>10. CASE Enqueue(f) \/ EnqueueFails(f)
  BY <1>1, <1>3, <1>4, <1>10 DEF Enqueue, EnqueueFails, Goto, Keeping, calls
<1>11. CASE Claim(f)
  BY <1>1, <1>3, <1>4, <1>11 DEF Claim, TransitionRead, Goto, Keeping, calls
<1>12. CASE CreateRun(f) \/ FullStarts(f) \/ FinishRun(f)
  BY <1>1, <1>3, <1>4, <1>12 DEF CreateRun, FullStarts, FinishRun, Goto, Keeping, calls
<1>13. CASE CreateRefused(f)
  BY <1>5, <1>13 DEF CreateRefused
<1>14. CASE Final(f) \/ Stop(f)
  <2>1. status \in Claims => /\ status # FinalOf(f) /\ status # "PARTIAL"
                             /\ <<status, FinalOf(f)>> \in Legal /\ <<status, "PARTIAL">> \in Legal
    BY <1>3, <1>4 DEF ClaimOf, FinalOf, Legal, Claims
  <2> QED
    BY <1>1, <1>3, <1>4, <1>14, <2>1 DEF Final, Stop, TransitionRead, Goto, Keeping, calls
<1>15. CASE FinalWrite(f) \/ StopWrite(f) \/ ReleaseWrite(f)
  <2>1. status' \notin Claims
    BY <1>3, <1>4, <1>15 DEF FinalWrite, StopWrite, ReleaseWrite, TransitionWrite, Keeping, Claims
  <2> QED
    BY <1>3, <1>15, <2>1 DEF FinalWrite, StopWrite, ReleaseWrite, calls
<1>16. CASE Throw(f)
  BY <1>1, <1>3, <1>4, <1>16 DEF Throw, Goto, Keeping, calls
<1>17. CASE Catch(f)
  <2>1. pc'[f] \in {"release", "stopped"} /\ UNCHANGED <<status, before, handed>>
    BY <1>3, <1>17 DEF Catch, Goto, GiveBack, calls
  <2> QED
    BY <1>1, <1>3, <1>4, <2>1 DEF Keeping
<1>18. CASE Release(f)
  BY <1>1, <1>3, <1>4, <1>5, <1>18 DEF Release, Goto, Keeping, calls
<1> QED
  BY <1>6, <1>7, <1>8, <1>9, <1>10, <1>11, <1>12, <1>13, <1>14, <1>15, <1>16, <1>17, <1>18 DEF FullStep, TickLosesEdits

(* How a call begins, a death, the reaper, the merchant and the drift detector. *)
LEMMA OthersGiveBack ==
    ASSUME IInv, GivesBack, ~Faults, NEW f, Full = {f},
           \/ \E p \in Full : Press(p) \/ TickRead(p) \/ Worker(p) \/ JobDropped(p)
           \/ \E s \in Scoped : ScopedCheck(s)
           \/ \E p \in Calls : Reaper(p) \/ Crash(p) \/ ReaperCrash(p)
           \/ Moves \/ UNCHANGED vars
    PROVE  GivesBack'
<1> f \in Calls /\ f \notin Scoped
  BY CallsAssumption DEF Calls
<1> USE DEF IInv, TypeOK
<1>1. crashes = 0 =>
      /\ before[f] \notin Claims /\ handed[f] \notin Claims
      /\ pc[f] = "ticking" => via[f] = "tick"
      /\ status \in Claims => status = ClaimOf(f) /\ Keeping(f)
  BY DEF GivesBack
<1>2. CASE \E p \in Full : Press(p) \/ TickRead(p) \/ Worker(p) \/ JobDropped(p)
  <2>1. Press(f) \/ TickRead(f) \/ JobBegin(f, f)
    BY <1>2 DEF Worker, JobBegin, JobDropped
  <2>2. crashes' = crashes /\ status' = status /\ handed' = handed
        /\ \A p \in Scoped : pc'[p] = pc[p] /\ before'[p] = before[p]
    BY <2>1 DEF Press, TickRead, JobBegin, Begin, Goto, world, Calls
  <2>3. CASE Press(f)
    <3>1. crashes = 0 => status \notin Claims
      BY <1>1, <2>3 DEF Press, Keeping
    <3> QED
      BY <1>1, <2>2, <2>3, <3>1, KeepsTheClaim DEF Press, Begin, Goto
  <2>4. CASE TickRead(f)
    BY <1>1, <2>2, <2>4, KeepsTheClaim DEF TickRead, Begin, Goto, Claims
  <2>5. CASE JobBegin(f, f)
    <3>1. ClaimOf(f)' = ClaimOf(f) /\ pc'[f] = "look" /\ via'[f] = "job" /\ before'[f] = handed[f]
      BY <2>5 DEF JobBegin, Begin, Goto, ClaimOf
    <3>2. Keeping(f)'
      BY <3>1 DEF Keeping
    <3> QED
      BY <1>1, <2>2, <3>1, <3>2, KeepsTheClaim
  <2> QED
    BY <2>1, <2>3, <2>4, <2>5
<1>3. ASSUME NEW s \in Scoped, ScopedCheck(s) PROVE GivesBack'
  <2>1. /\ UNCHANGED <<crashes, status, before, handed, jobs, seen>>
        /\ pc'[f] = pc[f] /\ kind'[f] = kind[f] /\ via'[f] = via[f]
        /\ \A p \in Scoped : pc'[p] = pc[p] \/ pc'[p] = "checked"
    BY <1>3 DEF ScopedCheck, Begin, Goto, world, Calls
  <2> QED
    BY <1>1, <2>1 DEF GivesBack, Keeping, ClaimOf, Claims
<1>4. ASSUME NEW p \in Calls, Crash(p) \/ ReaperCrash(p) PROVE GivesBack'
  <2>1. crashes' = crashes + 1 /\ crashes \in Nat
    BY <1>4 DEF Crash, ReaperCrash
  <2>2. crashes' # 0
    BY <2>1
  <2> QED
    BY <2>2 DEF GivesBack
<1>5. CASE Moves \/ UNCHANGED vars \/ \E p \in Calls : Reaper(p)
  <2>1. UNCHANGED <<pc, before, handed, via, kind, seen, jobs, crashes>>
    BY <1>5 DEF Moves, MoverLooks, MoveIfLegal, Hold, ReleaseHold, CancelScheduled, Unschedule, vars,
       Reaper, ReapRun, ReapRead, ReapWrite, calls, world
  <2>2. status' = status \/ status' \notin Claims
    BY <1>5 DEF Moves, MoverLooks, MoveIfLegal, Hold, ReleaseHold, CancelScheduled, Unschedule, vars, Move,
       Reaper, ReapRun, ReapRead, ReapWrite, Claims
  <2> QED
    BY <1>1, <2>1, <2>2, KeepsTheClaim DEF Keeping, ClaimOf
<1> QED
  BY <1>2, <1>3, <1>4, <1>5

(* While no process has died and the recovery's own statements succeed, a whole
   call that has returned has left no claim, whatever scoped calls, holds, cancels
   and queued jobs came between.  (Two whole calls can leave one: a tick's claim
   is where the press that overtook it would go back to.) *)
THEOREM NoClaimLeftBehindHolds ==
    ASSUME ~Faults, NEW f, Full = {f}
    PROVE  Spec => []NoClaimLeftBehind
<1>1. Init => GivesBack
  BY DEF Init, GivesBack, Calls, Claims, States
<1>2. ASSUME IInv, GivesBack, [Next]_vars PROVE GivesBack'
  <2>1. CASE \E p \in Calls : Step(p)
    BY <1>2, <2>1, ScopedGivesBack, FullGivesBack DEF Step
  <2>2. CASE ~\E p \in Calls : Step(p)
    BY <1>2, <2>2, OthersGiveBack DEF Next, Moves
  <2> QED
    BY <2>1, <2>2
<1>3. IInv /\ GivesBack /\ [Next]_vars => GivesBack'
  BY <1>2
<1>4. IInv /\ GivesBack => NoClaimLeftBehind
  BY DEF IInv, TypeOK, GivesBack, Keeping, NoClaimLeftBehind, Calls
<1> QED
  BY <1>1, <1>3, <1>4, Invariance, PTL DEF Spec

----------------------------------------------------------------------------
(* The window and the ticks that start and end it (Schedule), for any workers,
   windows, attempts and bounds. *)
CONSTANTS Workers, Windows, Overlaps, MaxMoves, MaxPresses, MaxTroubles
VARIABLES now, state, attempt, tick, confirm, moves, presses, troubles

S == INSTANCE Schedule WITH status <- state, run <- attempt

Given == /\ S!WorkersAssumption /\ S!WindowsAssumption /\ S!OrderAssumption
         /\ S!LimitsAssumption /\ S!BoundsAssumption

(* A tick with a claim. *)
Claiming == {"claimed", "running", "noting", "releasing"}

(* A tick at work has a transition and its moment; with a claim, it knows the
   status it took it from, and with a mark to write, the blob it read. *)
Proper(t) == t.stage # "idle" =>
    /\ t.due \in S!Transitions /\ t.at \in S!Instants
    /\ t.stage \in Claiming => t.from \in S!Claimable(t.due)
    /\ t.stage = "noting" => t.read # <<>>
Owes == \A w \in Workers : Proper(tick[w])
Typed == S!TypeOK /\ Owes

(* The type of what a confirmation or a tick has read. *)
ReadType == {<<>>} \cup {<<b>> : b \in S!Blobs}

LEMMA TypesOfTicks ==
    ASSUME Given, Typed, NEW w \in Workers
    PROVE  /\ tick[w] \in S!TickType /\ Proper(tick[w]) /\ S!Idle \in S!TickType /\ Proper(S!Idle)
           /\ S!Listed("revert") \in S!TickType /\ S!Listed("apply") \in S!TickType
           /\ \A r \in S!TickType : Proper(r) => [tick EXCEPT ![w] = r] \in [Workers -> S!TickType]
<1>1. tick \in [Workers -> S!TickType]
  BY DEF Typed, S!TypeOK
<1>2. S!Idle \in S!TickType
  BY DEF S!Idle, S!TickType, S!Stages, S!Never, Given, S!LimitsAssumption
<1>3. \A due \in S!Transitions : S!Listed(due) \in S!TickType
  <2>1. blob.win \in Windows \cup {S!Manual}
    BY DEF Typed, S!TypeOK, S!Blobs
  <2>2. \A due \in S!Transitions : S!OccurrenceOf(blob.win, due) \in 0 .. Horizon
    BY <2>1 DEF S!OccurrenceOf, S!Manual, S!Instants, Given, S!WindowsAssumption, S!LimitsAssumption
  <2> QED  BY <1>2, <2>2 DEF S!Listed, S!Idle, S!TickType, S!Stages, S!Transitions
<1> QED  BY <1>1, <1>2, <1>3 DEF Typed, Owes, Proper, Claiming, S!Idle, S!Transitions

(* What is due is due of a window the merchant set, at one of its moments. *)
LEMMA DueIsOwed ==
    ASSUME Given, Typed, NEW due, due = S!DueTransition(blob.win, state, now), due # "none"
    PROVE  /\ due \in S!Transitions /\ S!OccurrenceOf(blob.win, due) \in S!Instants
           /\ Proper(S!Listed(due))
<1>1. blob.win \in Windows
  BY DEF S!DueTransition, Typed, S!TypeOK, S!Blobs
<1>2. due \in S!Transitions
  BY DEF S!DueTransition, S!Transitions
<1>3. S!OccurrenceOf(blob.win, due) \in S!Instants
  BY <1>1 DEF S!OccurrenceOf, Given, S!WindowsAssumption
<1>4. S!Listed(due) = [S!Idle EXCEPT !.stage = "listed", !.due = due, !.at = S!OccurrenceOf(blob.win, due)]
  BY DEF S!Listed
<1>5. /\ S!Listed(due).due = due /\ S!Listed(due).at = S!OccurrenceOf(blob.win, due)
      /\ S!Listed(due).stage = "listed"
  BY <1>4 DEF S!Idle
<1> QED  BY <1>2, <1>3, <1>5 DEF Proper, Claiming

LEMMA TypedInit == Given /\ S!Init => Typed
<1> SUFFICES ASSUME Given, S!Init PROVE Typed
  OBVIOUS
<1>1. S!Idle \in S!TickType
  BY DEF S!Idle, S!TickType, S!Stages, S!Never, Given, S!LimitsAssumption
<1>2. \A win \in Windows : [win |-> win, refused |-> S!Never] \in S!Blobs
  BY DEF S!Blobs, S!Never, Given, S!LimitsAssumption
<1>3. /\ now \in 0 .. Horizon /\ state \in S!States
      /\ blob \in S!Blobs /\ dates \in Windows \cup {S!Manual}
      /\ rows \in [S!Occurrences -> Nat] /\ done \subseteq S!Occurrences
  BY <1>2 DEF S!Init, S!States, S!Live, S!Claims, Given, S!LimitsAssumption
<1>4. attempt \in [by : Workers \cup {"nobody", "hand"}, due : S!Transitions \cup {"none"},
                   at : 0 .. Horizon, alive : BOOLEAN]
  BY DEF S!Init, S!NoRun, S!Never, Given, S!LimitsAssumption
<1>5. tick \in [Workers -> S!TickType] /\ Owes
  BY <1>1 DEF S!Init, Owes, Proper, Claiming, S!Idle
<1>6. moves \in 0 .. MaxMoves /\ presses \in 0 .. MaxPresses /\ troubles \in 0 .. MaxTroubles
  BY DEF S!Init, Given, S!BoundsAssumption
<1> QED  BY <1>3, <1>4, <1>5, <1>6 DEF S!Init, Typed, S!TypeOK

(* What a tick becomes, field by field. *)
LEMMA Becomes ==
    ASSUME Given, Typed, NEW w \in Workers, NEW stage, NEW x, NEW y
    PROVE  /\ [tick EXCEPT ![w].stage = stage] = [tick EXCEPT ![w] = [tick[w] EXCEPT !.stage = stage]]
           /\ [tick EXCEPT ![w].stage = stage, ![w].n = x]
                = [tick EXCEPT ![w] = [tick[w] EXCEPT !.stage = stage, !.n = x]]
           /\ [tick EXCEPT ![w].stage = stage, ![w].from = x]
                = [tick EXCEPT ![w] = [tick[w] EXCEPT !.stage = stage, !.from = x]]
           /\ [tick EXCEPT ![w].stage = stage, ![w].read = x]
                = [tick EXCEPT ![w] = [tick[w] EXCEPT !.stage = stage, !.read = x]]
<1>1. tick \in [Workers -> S!TickType]  BY DEF Typed, S!TypeOK
<1>2. tick[w] \in [stage : S!Stages, due : S!Transitions \cup {"none"}, at : 0 .. Horizon, n : 0 .. MaxAttempts,
                    from : S!States \cup {"none"}, read : ReadType]
  BY <1>1 DEF S!TickType, ReadType
<1>3. [tick EXCEPT ![w].stage = stage] = [tick EXCEPT ![w] = [tick[w] EXCEPT !.stage = stage]]
  BY <1>1, <1>2
<1>4. [tick EXCEPT ![w].stage = stage, ![w].n = x]
              = [tick EXCEPT ![w] = [tick[w] EXCEPT !.stage = stage, !.n = x]]
  BY <1>1, <1>2
<1>5. [tick EXCEPT ![w].stage = stage, ![w].from = x]
              = [tick EXCEPT ![w] = [tick[w] EXCEPT !.stage = stage, !.from = x]]
  BY <1>1, <1>2
<1>6. [tick EXCEPT ![w].stage = stage, ![w].read = x]
              = [tick EXCEPT ![w] = [tick[w] EXCEPT !.stage = stage, !.read = x]]
  BY <1>1, <1>2
<1> QED BY <1>3, <1>4, <1>5, <1>6

(* No other worker's tick changes, *)
Others(w) == \A v \in Workers \ {w} : tick'[v] = tick[v]

(* and this one's goes on to a stage with the transition it has. *)
Turns(w, stage) == /\ Others(w)
                   /\ tick'[w].stage = stage /\ tick'[w].due = tick[w].due /\ tick'[w].at = tick[w].at

Ticking == tick' \in [Workers -> S!TickType] /\ Owes'

LEMMA Ticks ==
    ASSUME Given, Typed, NEW w \in Workers, NEW t \in S!TickType, Proper(t), tick' = [tick EXCEPT ![w] = t]
    PROVE  Ticking /\ Others(w) /\ tick'[w] = t
<1>1. tick \in [Workers -> S!TickType] /\ Owes  BY DEF Typed, S!TypeOK
<1> QED  BY <1>1 DEF Ticking, Others, Owes

(* A tick with the transition of the one before it. *)
LEMMA TicksOn ==
    ASSUME Given, Typed, NEW w \in Workers, NEW t \in S!TickType, Proper(t), tick' = [tick EXCEPT ![w] = t],
           t.due = tick[w].due, t.at = tick[w].at
    PROVE  Ticking /\ Turns(w, t.stage) /\ tick'[w].read = t.read
BY Ticks DEF Turns

LEMMA Staged ==
    ASSUME Given, Typed, NEW w \in Workers, tick[w].stage # "idle", NEW stage \in S!Stages,
           stage \in Claiming => tick[w].stage \in Claiming, stage # "noting",
           tick' = [tick EXCEPT ![w].stage = stage]
    PROVE  Ticking /\ Turns(w, stage)
<1> DEFINE t == [tick[w] EXCEPT !.stage = stage]
<1>1. tick[w] \in S!TickType /\ Proper(tick[w])  BY TypesOfTicks
<1>2. t \in S!TickType /\ Proper(t)  BY <1>1 DEF S!TickType, Proper, Claiming
<1>3. tick' = [tick EXCEPT ![w] = t]  BY Becomes
<1>4. t.stage = stage /\ t.due = tick[w].due /\ t.at = tick[w].at  BY <1>1 DEF S!TickType
<1> HIDE DEF t
<1> QED  BY <1>2, <1>3, <1>4, TicksOn

(* With the blob it has read, or nothing. *)
LEMMA Read ==
    ASSUME Given, Typed, NEW w \in Workers, tick[w].stage \in Claiming, NEW stage \in {"noting", "releasing"},
           NEW r \in ReadType, stage = "noting" => r # <<>>,
           tick' = [tick EXCEPT ![w].stage = stage, ![w].read = r]
    PROVE  Ticking /\ Turns(w, stage) /\ tick'[w].read = r
<1> DEFINE t == [tick[w] EXCEPT !.stage = stage, !.read = r]
<1>1. tick[w] \in S!TickType /\ Proper(tick[w])  BY TypesOfTicks
<1>2. t \in S!TickType /\ Proper(t)  BY <1>1 DEF S!TickType, S!Stages, Proper, Claiming, ReadType
<1>3. tick' = [tick EXCEPT ![w] = t]  BY Becomes
<1>4. t.stage = stage /\ t.due = tick[w].due /\ t.at = tick[w].at /\ t.read = r  BY <1>1 DEF S!TickType
<1> HIDE DEF t
<1> QED  BY <1>2, <1>3, <1>4, TicksOn

LEMMA Leaves ==
    ASSUME Given, Typed, NEW w \in Workers, tick[w].stage # "idle", S!Leave(w)
    PROVE  Ticking /\ Others(w) /\ tick'[w].stage \in {"after", "idle"}
<1>1. CASE tick[w].due = "apply"
  BY <1>1, Staged DEF S!Leave, S!Left, S!Stages, Claiming, Turns
<1>2. CASE tick[w].due # "apply"
  BY <1>2, Ticks, TypesOfTicks DEF S!Leave, S!Left, S!Idle
<1> QED  BY <1>1, <1>2

LEMMA Throws ==
    ASSUME Given, Typed, NEW w \in Workers, tick[w].stage \in Claiming, tick' = S!Thrown(w)
    PROVE  /\ Ticking
           /\ Turns(w, "releasing") \/ (Turns(w, "noting") /\ tick'[w].read = <<blob>>)
<1>1. CASE tick[w].due = "revert"
  <2>1. <<blob>> \in ReadType /\ <<blob>> # <<>>
    BY DEF ReadType, Typed, S!TypeOK
  <2> QED  BY <1>1, <2>1, Read DEF S!Thrown
<1>2. CASE tick[w].due # "revert"
  BY <1>2, Staged DEF S!Thrown, S!Stages, Claiming
<1> QED  BY <1>1, <1>2

(* What each step of a tick makes of it. *)
LEMMA Lists == ASSUME Given, Typed, NEW w \in Workers, S!List(w)
               PROVE  Ticking /\ Others(w) /\ tick'[w].stage = "listed"
<1>1. PICK due : due = S!DueTransition(blob.win, state, now) /\ due # "none" /\ tick' = [tick EXCEPT ![w] = S!Listed(due)]
  BY DEF S!List
<1>2. due \in S!Transitions /\ Proper(S!Listed(due)) /\ S!Listed(due) \in S!TickType
  BY <1>1, DueIsOwed, TypesOfTicks DEF S!Transitions
<1>3. S!Listed(due).stage = "listed"
  BY DEF S!Listed, S!Idle
<1> QED  BY <1>1, <1>2, <1>3, Ticks

LEMMA Picks == ASSUME Given, Typed, NEW w \in Workers, S!Pick(w), ~S!Leave(w)
               PROVE  Ticking /\ Others(w) /\ tick'[w].stage = "picked"
<1> DEFINE n == S!NextAttempt(S!Occurrence(w))
           t == [tick[w] EXCEPT !.stage = "picked", !.n = n]
<1>1. n # 0 /\ tick' = [tick EXCEPT ![w] = t] /\ tick[w].stage = "listed"
  BY Becomes DEF S!Pick
<1>2. tick[w] \in S!TickType /\ Proper(tick[w])  BY TypesOfTicks
<1>3. S!Occurrence(w) \in S!Occurrences
  BY <1>1, <1>2 DEF S!Occurrence, S!Occurrences, Proper, Claiming
<1>4. n \in 0 .. MaxAttempts
  BY <1>3 DEF S!NextAttempt, Typed, S!TypeOK, Given, S!LimitsAssumption
<1> HIDE DEF n
<1>5. t \in S!TickType /\ Proper(t) /\ t.stage = "picked"
  BY <1>1, <1>2, <1>4 DEF S!TickType, S!Stages, Proper, Claiming
<1> HIDE DEF t
<1> QED  BY <1>1, <1>5, Ticks

LEMMA ClaimsIt == ASSUME Given, Typed, NEW w \in Workers, S!Claim(w), state \in S!Claimable(tick[w].due)
                  PROVE  Ticking /\ Turns(w, "claimed")
<1> DEFINE t == [tick[w] EXCEPT !.stage = "claimed", !.from = state]
<1>1. tick' = [tick EXCEPT ![w] = t] /\ tick[w].stage = "picked"
  <2>1. [tick EXCEPT ![w].stage = "claimed", ![w].from = state] = [tick EXCEPT ![w] = t]
    BY Becomes, Zenon
  <2>2. tick' = [tick EXCEPT ![w].stage = "claimed", ![w].from = state] /\ tick[w].stage = "picked"
    BY DEF S!Claim
  <2> QED  BY <2>1, <2>2
<1>2. tick[w] \in S!TickType /\ Proper(tick[w])  BY TypesOfTicks
<1>3. state \in S!States /\ "claimed" \in S!Stages
  BY DEF Typed, S!TypeOK, S!Stages
<1>4. t \in S!TickType
  BY <1>2, <1>3 DEF S!TickType
<1>5. t.stage = "claimed" /\ t.due = tick[w].due /\ t.at = tick[w].at /\ t.from = state
  BY <1>2 DEF S!TickType
<1> HIDE DEF t
<1>6. Proper(t)
  BY <1>1, <1>2, <1>5 DEF Proper, Claiming
<1> QED  BY <1>1, <1>4, <1>5, <1>6, TicksOn

LEMMA Refuses == ASSUME Given, Typed, NEW w \in Workers, S!Refuse(w)
                 PROVE  /\ Ticking
                        /\ \/ Turns(w, "releasing")
                           \/ Turns(w, "noting") /\ \E b \in S!Blobs : b.win = blob.win /\ tick'[w].read = <<b>>
<1>1. blob \in S!Blobs /\ tick[w].stage \in Claiming
  BY DEF Typed, S!TypeOK, S!Refuse, Claiming
<1> DEFINE b == [blob EXCEPT !.refused = blob.win.start]
<1>2. b \in S!Blobs /\ b.win = blob.win
  <2>1. blob.win \in Windows \cup {S!Manual}
    BY <1>1 DEF S!Blobs
  <2>2. blob.win.start \in 0 .. Horizon
    BY <2>1 DEF S!Manual, S!Instants, Given, S!WindowsAssumption, S!LimitsAssumption
  <2> QED  BY <1>1, <2>2 DEF S!Blobs
<1>3. CASE tick' = S!Thrown(w)
  BY <1>1, <1>3, Throws
<1>4. CASE tick' # S!Thrown(w)
  <2>1. tick' = [tick EXCEPT ![w].stage = "noting", ![w].read = <<b>>]
    BY <1>4 DEF S!Refuse
  <2> HIDE DEF b
  <2>2. <<b>> \in ReadType /\ <<b>> # <<>>
    BY <1>2 DEF ReadType
  <2> QED  BY <1>1, <1>2, <2>1, <2>2, Read
<1> QED  BY <1>3, <1>4

LEMMA Notes == ASSUME Given, Typed, NEW w \in Workers, S!Note(w)
               PROVE  Ticking /\ Turns(w, "releasing")
<1>1. <<>> \in ReadType
  BY DEF ReadType
<1> QED  BY <1>1, Read DEF S!Note, Claiming

LEMMA Afters == ASSUME Given, Typed, NEW w \in Workers, S!After(w)
                PROVE  Ticking /\ Others(w) /\ tick'[w].stage \in {"idle", "listed"}
<1>1. CASE S!DueTransition(blob.win, state, now) = "revert"
  <2>1. Proper(S!Listed("revert")) /\ S!Listed("revert").stage = "listed"
    BY <1>1, DueIsOwed DEF S!Listed, S!Idle
  <2> QED  BY <1>1, <2>1, Ticks, TypesOfTicks DEF S!After
<1>2. CASE S!DueTransition(blob.win, state, now) # "revert"
  BY <1>2, Ticks, TypesOfTicks DEF S!After, S!Idle
<1> QED  BY <1>1, <1>2

Work(w) == S!Works(w) \/ S!NoSession(w) \/ S!Refuse(w) \/ S!Fail(w)

LEMMA WorkTicks == ASSUME Given, Typed, NEW w \in Workers, Work(w) PROVE Ticking
<1>1. CASE S!List(w) \/ S!After(w) \/ S!Refuse(w) \/ S!Note(w)
  BY <1>1, Lists, Afters, Refuses, Notes
<1>2. CASE S!Leave(w) /\ tick[w].stage # "idle"
  BY <1>2, Leaves
<1>3. CASE S!Pick(w)
  BY <1>2, <1>3, Picks DEF S!Pick
<1>4. CASE S!Claim(w)
  BY <1>2, <1>4, ClaimsIt DEF S!Claim
<1>5. CASE S!NoSession(w) \/ S!Release(w) \/ S!Finish(w)
  BY <1>2, <1>5 DEF S!NoSession, S!Release, S!Finish, S!Mine
<1>6. CASE S!Begin(w)
  <2>1. CASE tick' = S!Thrown(w)
    BY <1>6, <2>1, Throws DEF S!Begin, Claiming
  <2>2. CASE S!Create(w)
    BY <1>6, <2>2, Staged DEF S!Begin, S!Create, S!Stage, S!Stages, Claiming
  <2> QED  BY <1>6, <2>1, <2>2 DEF S!Begin
<1>7. CASE S!Fail(w)
  <2>1. CASE tick' = S!Thrown(w)
    BY <1>7, <2>1, Throws DEF S!Fail, S!Mine, Claiming
  <2>2. CASE S!Leave(w)
    BY <1>2, <1>7, <2>2 DEF S!Fail, S!Mine
  <2>3. CASE tick' = [tick EXCEPT ![w] = S!Idle]
    BY <2>3, Ticks, TypesOfTicks
  <2> QED  BY <1>7, <2>1, <2>2, <2>3 DEF S!Fail
<1> QED  BY <1>1, <1>3, <1>4, <1>5, <1>6, <1>7 DEF Work, S!Works

LEMMA TypedWork == ASSUME Given, Typed, NEW w \in Workers, Work(w) PROVE Typed'
<1> USE DEF Typed, S!TypeOK, S!page
<1>1. Ticking
  BY WorkTicks
<1>2. tick[w] \in S!TickType /\ Proper(tick[w])
  BY TypesOfTicks
<1>3. tick[w].stage # "idle" => S!Occurrence(w) \in S!Occurrences
  BY <1>2 DEF Proper, S!Occurrence, S!Occurrences
<1>4. S!Trouble => troubles' \in 0 .. MaxTroubles
  BY DEF S!Trouble, Given, S!BoundsAssumption
<1>5. CASE S!List(w) \/ S!Pick(w) \/ S!NoSession(w) \/ S!Refuse(w) \/ S!After(w)
  BY <1>1, <1>4, <1>5 DEF S!List, S!Pick, S!NoSession, S!Refuse, S!After, Ticking
<1>6. CASE S!Claim(w)
  BY <1>1, <1>6 DEF S!Claim, Ticking, S!States, S!Claims
<1>7. CASE S!Note(w)
  <2>1. tick[w].read[1] \in S!Blobs
    BY <1>2, <1>7 DEF S!Note, Proper, S!TickType
  <2> QED  BY <1>1, <1>7, <2>1 DEF S!Note, Ticking
<1>8. CASE S!Release(w)
  <2>1. tick[w].from \in S!States
    BY <1>2, <1>8 DEF S!Release, Proper, Claiming, S!Claimable, S!States, S!Live
  <2> QED  BY <1>1, <1>8, <2>1 DEF S!Release, Ticking
<1>9. CASE S!Begin(w)
  <2>1. CASE S!Create(w)
    <3>1. rows' \in [S!Occurrences -> Nat]
      BY <1>3, <1>9, <2>1 DEF S!Begin, S!Create
    <3>2. attempt' \in [by : Workers \cup {"nobody", "hand"}, due : S!Transitions \cup {"none"},
                        at : 0 .. Horizon, alive : BOOLEAN]
      BY <1>2, <2>1 DEF S!Create, S!TickType
    <3> QED  BY <1>1, <1>9, <3>1, <3>2 DEF S!Begin, Ticking
  <2> QED  BY <1>1, <1>9, <2>1 DEF S!Begin, Ticking
<1>10. S!NoRun \in [by : Workers \cup {"nobody", "hand"}, due : S!Transitions \cup {"none"},
                    at : 0 .. Horizon, alive : BOOLEAN]
  BY DEF S!NoRun, S!Never, Given, S!LimitsAssumption
<1>11. CASE S!Finish(w)
  BY <1>1, <1>3, <1>10, <1>11 DEF S!Finish, S!Mine, Ticking, S!States, S!Live
<1>12. CASE S!Fail(w)
  BY <1>1, <1>4, <1>10, <1>12 DEF S!Fail, Ticking, S!States, S!Live
<1> QED  BY <1>5, <1>6, <1>7, <1>8, <1>9, <1>11, <1>12 DEF Work, S!Works

Elsewhere == \/ \E win \in Windows : S!Reschedule(win) \/ S!KeepTypedTimes(win)
             \/ S!Reap \/ S!Unschedule \/ S!HandApply \/ S!HandRevert \/ S!HandEnds \/ S!Hold
             \/ S!ConfirmStart \/ S!Passes

LEMMA NextIs == S!Next <=> Elsewhere \/ \E w \in Workers : Work(w)
BY DEF S!Next, Elsewhere, Work

LEMMA TypedElsewhere == ASSUME Given, Typed, Elsewhere PROVE Typed'
<1> USE DEF Typed, S!TypeOK, S!page, Owes
<1>1. S!NoRun \in [by : Workers \cup {"nobody", "hand"}, due : S!Transitions \cup {"none"},
                   at : 0 .. Horizon, alive : BOOLEAN]
  BY DEF S!NoRun, S!Never, Given, S!LimitsAssumption
<1>2. /\ moves < MaxMoves => moves + 1 \in 0 .. MaxMoves
      /\ presses < MaxPresses => presses + 1 \in 0 .. MaxPresses
      /\ now < Horizon => now + 1 \in 0 .. Horizon
  BY DEF Given, S!BoundsAssumption, S!LimitsAssumption
<1>3. 0 \in 0 .. Horizon /\ [win |-> S!Manual, refused |-> S!Never] \in S!Blobs
  BY DEF S!Blobs, S!Never, Given, S!LimitsAssumption
<1>4. ASSUME NEW win \in Windows, S!Reschedule(win) \/ S!KeepTypedTimes(win) PROVE Typed'
  <2>1. blob' \in S!Blobs
    BY <1>3, <1>4 DEF S!Reschedule, S!KeepTypedTimes, S!Blobs, S!Never
  <2> QED  BY <1>2, <1>4, <2>1 DEF S!Reschedule, S!KeepTypedTimes, S!Dated
<1>5. CASE S!Reap \/ S!HandEnds \/ S!Hold
  BY <1>1, <1>5 DEF S!Reap, S!HandEnds, S!Hold, S!States, S!Live
<1>6. CASE S!Unschedule
  BY <1>3, <1>6 DEF S!Unschedule, S!States
<1>7. CASE S!HandApply \/ S!HandRevert
  <2>1. attempt' \in [by : Workers \cup {"nobody", "hand"}, due : S!Transitions \cup {"none"},
                     at : 0 .. Horizon, alive : BOOLEAN]
    <3>1. \A due \in S!Transitions :
            [by |-> "hand", due |-> due, at |-> S!Never, alive |-> TRUE]
              \in [by : Workers \cup {"nobody", "hand"}, due : S!Transitions \cup {"none"}, at : 0 .. Horizon,
                  alive : BOOLEAN]
      BY <1>3 DEF S!Never
    <3> QED  BY <1>7, <3>1 DEF S!HandApply, S!HandRevert, S!Transitions
  <2>4. state' \in S!States
    BY <1>7 DEF S!HandApply, S!HandRevert, S!States, S!Claims
  <2>3. presses' \in 0 .. MaxPresses
    BY <1>2, <1>7 DEF S!HandApply, S!HandRevert
  <2>2. blob' \in S!Blobs /\ dates' \in Windows \cup {S!Manual}
    BY <1>3, <1>7 DEF S!HandApply, S!HandRevert
  <2> QED  BY <1>7, <2>1, <2>2, <2>3, <2>4 DEF S!HandApply, S!HandRevert
<1>8. CASE S!ConfirmStart
  BY <1>2, <1>8 DEF S!ConfirmStart
<1>9. CASE S!Passes
  BY <1>2, <1>9 DEF S!Passes
<1> QED  BY <1>4, <1>5, <1>6, <1>7, <1>8, <1>9 DEF Elsewhere

LEMMA TypedStep == ASSUME Given, Typed, [S!Next]_(S!vars) PROVE Typed'
<1>1. CASE UNCHANGED S!vars
  BY <1>1 DEF S!vars, Typed, S!TypeOK, Owes
<1> QED  BY <1>1, TypedWork, TypedElsewhere, NextIs

(* The scheduler's variables have their types. *)
THEOREM ScheduleTyped == Given => (S!Spec => []S!TypeOK)
<1> SUFFICES ASSUME Given PROVE S!Spec => []S!TypeOK
  OBVIOUS
<1>1. S!Init => Typed
  BY TypedInit
<1>2. Typed /\ [S!Next]_(S!vars) => Typed'
  BY TypedStep
<1>3. Typed => S!TypeOK
  BY DEF Typed
<1> QED  BY <1>1, <1>2, <1>3, PTL DEF S!Spec

----------------------------------------------------------------------------
(* One claim at a time.  A tick with a claim is the only one, the campaign says
   so, and the campaign's run is that tick's or none: a page's and a dead run
   are nobody's. *)
Claimed ==
    /\ \A w \in Workers : tick[w].stage \in Claiming =>
          /\ state \in S!Claims
          /\ \A v \in Workers : tick[v].stage \in Claiming => v = w
          /\ attempt = IF tick[w].stage = "running"
                       THEN [by |-> w, due |-> tick[w].due, at |-> tick[w].at, alive |-> TRUE]
                       ELSE S!NoRun
    /\ attempt # S!NoRun => state \in S!Claims

(* What is left of a campaign whose start has completed: nothing to start. *)
Started == \A o \in done : o[1] = "apply" =>
    /\ state # "SCHEDULED"
    /\ \A w \in Workers : tick[w].stage \in Claiming => tick[w].due # "apply"

Counted == \A o \in S!Occurrences : rows[o] <= MaxAttempts

Once == Typed /\ Claimed /\ Started /\ Counted

LEMMA OnceInit == Given /\ S!Init => Once
<1> SUFFICES ASSUME Given, S!Init PROVE Once
  OBVIOUS
<1>1. Claimed /\ Started /\ Counted
  BY DEF S!Init, Claimed, Started, Counted, Claiming, S!Idle, Given, S!LimitsAssumption
<1> QED  BY <1>1, TypedInit DEF Once

(* Nobody has a claim: a page's run, a dead one, or a status that is none. *)
LEMMA NobodyClaims ==
    ASSUME Given, Once, state \notin S!Claims \/ attempt.by = "hand" \/ (attempt # S!NoRun /\ ~attempt.alive)
    PROVE  \A w \in Workers : tick[w].stage \notin Claiming
<1> SUFFICES ASSUME NEW w \in Workers, tick[w].stage \in Claiming PROVE FALSE
  OBVIOUS
<1>1. w \notin {"nobody", "hand"}
  BY DEF Given, S!WorkersAssumption
<1> QED  BY <1>1 DEF Once, Claimed, S!NoRun

LEMMA OnceElsewhere == ASSUME Given, Once, Elsewhere PROVE Claimed' /\ Started' /\ Counted'
<1> USE DEF S!page
<1>1. UNCHANGED <<tick, rows, done>>
  BY DEF Elsewhere, S!Reschedule, S!KeepTypedTimes, S!Reap, S!Unschedule, S!HandApply, S!HandRevert, S!HandEnds,
         S!Hold, S!ConfirmStart, S!Passes
<1>2. Counted'
  BY <1>1 DEF Once, Counted
<1>3. CASE S!Reap \/ S!HandEnds \/ S!Unschedule \/ S!HandApply \/ S!HandRevert \/ S!Hold
  <2>1. \A w \in Workers : tick[w].stage \notin Claiming
    BY <1>3, NobodyClaims DEF S!Reap, S!HandEnds, S!Unschedule, S!HandApply, S!HandRevert, S!Hold, S!Live, S!Claims
  <2>2. attempt' # S!NoRun => state' \in S!Claims
    BY <1>3 DEF S!Reap, S!HandEnds, S!Unschedule, S!HandApply, S!HandRevert, S!Hold, S!Claims, Once, Claimed
  <2>3. state' # "SCHEDULED"
    BY <1>3 DEF S!Reap, S!HandEnds, S!Unschedule, S!HandApply, S!HandRevert, S!Hold
  <2> QED  BY <1>1, <1>2, <2>1, <2>2, <2>3 DEF Claimed, Started
<1>4. CASE UNCHANGED <<state, attempt>>
  BY <1>1, <1>2, <1>4 DEF Once, Claimed, Started
<1> QED  BY <1>3, <1>4 DEF Elsewhere, S!Reschedule, S!KeepTypedTimes, S!ConfirmStart, S!Passes

(* A step that gives no tick a claim, and leaves the campaign alone. *)
LEMMA ClaimsStay ==
    ASSUME Given, Once, NEW w \in Workers, UNCHANGED <<state, attempt, done>>, Others(w), tick[w].stage # "running",
           tick'[w].stage \in Claiming => tick[w].stage \in Claiming /\ Turns(w, tick'[w].stage),
           tick'[w].stage # "running"
    PROVE  Claimed' /\ Started'
<1> USE DEF Once, Others, Turns
<1>1. \A v \in Workers : tick'[v].stage \in Claiming =>
          tick[v].stage \in Claiming /\ tick'[v].due = tick[v].due /\ (v # w => tick'[v] = tick[v])
  OBVIOUS
<1>2. Claimed'
  BY <1>1 DEF Claimed
<1>3. Started'
  BY <1>1 DEF Started
<1> QED  BY <1>2, <1>3

LEMMA OnceWork == ASSUME Given, Once, NEW w \in Workers, Work(w) PROVE Claimed' /\ Started' /\ Counted'
<1> USE DEF Once, S!page
<1>1. tick[w] \in S!TickType /\ Proper(tick[w])
  BY TypesOfTicks
<1>2. CASE S!List(w) \/ S!Pick(w) \/ S!NoSession(w) \/ S!After(w)
  <2>1. Others(w) /\ tick[w].stage \notin Claiming /\ tick'[w].stage \notin Claiming
    <3>1. tick[w].stage \in {"idle", "listed", "picked", "after"}
      BY <1>2 DEF S!List, S!After, S!Pick, S!NoSession
    <3>2. Others(w) /\ tick'[w].stage \in {"listed", "picked", "after", "idle"}
      BY <1>2, Lists, Afters, Picks, Leaves DEF S!NoSession, S!Pick
    <3> QED  BY <3>1, <3>2 DEF Claiming
  <2>2. UNCHANGED <<state, attempt, done, rows>>
    BY <1>2 DEF S!List, S!Pick, S!NoSession, S!After
  <2> QED  BY <2>1, <2>2, ClaimsStay DEF Claiming, Counted
<1>3. CASE S!Claim(w)
  <2>1. UNCHANGED <<attempt, done, rows>> /\ tick[w].stage = "picked"
    BY <1>3 DEF S!Claim
  <2>2. CASE state \in S!Claimable(tick[w].due)
    <3>1. state \notin S!Claims /\ state' \in S!Claims
      BY <1>3, <2>2 DEF S!Claim, S!Claimable, S!Live, S!Claims
    <3>2. /\ \A v \in Workers \ {w} : tick'[v] = tick[v]
          /\ tick'[w].stage = "claimed" /\ tick'[w].due = tick[w].due
      BY <1>3, <2>2, ClaimsIt DEF Turns, Others
    <3>3. (\A v \in Workers : tick[v].stage \notin Claiming) /\ attempt = S!NoRun
      BY <3>1, NobodyClaims DEF Claimed
    <3>4. Claimed'
      BY <2>1, <3>1, <3>2, <3>3 DEF Claimed
    <3>5. Started'
      BY <1>1, <2>1, <2>2, <3>1, <3>2, <3>3 DEF Started, S!Claimable, S!Claims
    <3> QED  BY <2>1, <3>4, <3>5 DEF Counted
  <2>3. CASE state \notin S!Claimable(tick[w].due)
    <3>1. S!Leave(w) /\ UNCHANGED state
      BY <1>3, <2>3 DEF S!Claim
    <3> QED  BY <2>1, <3>1, Leaves, ClaimsStay DEF Claiming, Counted
  <2> QED  BY <2>2, <2>3
<1>4. CASE S!Refuse(w) \/ S!Note(w)
  <2>1. Turns(w, "noting") \/ Turns(w, "releasing")
    BY <1>4, Refuses, Notes
  <2>2. UNCHANGED <<state, attempt, done, rows>> /\ tick[w].stage \in {"claimed", "noting"}
    BY <1>4 DEF S!Refuse, S!Note
  <2> QED  BY <2>1, <2>2, ClaimsStay DEF Claiming, Counted, Turns
<1>5. CASE S!Release(w)
  <2>1. tick[w].stage = "releasing" /\ attempt = S!NoRun /\ state \in S!Claims /\ S!Leave(w)
    BY <1>5 DEF S!Release, Claimed, Claiming
  <2>2. /\ UNCHANGED <<attempt, done, rows>> /\ state' = tick[w].from
    BY <1>5, <2>1 DEF S!Release
  <2>3. \A v \in Workers : tick'[v].stage \notin Claiming
    BY <2>1, Leaves DEF Claimed, Claiming, Others
  <2>4. tick[w].from \in S!Claimable(tick[w].due)
    BY <1>1, <2>1 DEF Proper, Claiming
  <2>5. Started'
    BY <2>1, <2>2, <2>3, <2>4 DEF Started, S!Claimable, S!Live, Claiming
  <2> QED  BY <2>1, <2>2, <2>3, <2>5 DEF Claimed, Counted
<1>6. CASE S!Begin(w)
  <2>1. tick[w].stage = "claimed" /\ attempt = S!NoRun /\ state \in S!Claims /\ UNCHANGED <<state, done>>
    BY <1>6 DEF S!Begin, Claimed, Claiming
  <2>2. CASE tick' = S!Thrown(w) /\ UNCHANGED <<rows, attempt>>
    BY <2>1, <2>2, Throws, ClaimsStay DEF Claiming, Counted, Turns
  <2>3. CASE S!Create(w) /\ rows[S!Occurrence(w)] < tick[w].n
    <3>1. /\ \A v \in Workers \ {w} : tick'[v] = tick[v]
          /\ tick'[w].stage = "running" /\ tick'[w].due = tick[w].due /\ tick'[w].at = tick[w].at
      BY <2>1, <2>3, Staged DEF S!Create, S!Stage, S!Stages, Turns, Others, Claiming
    <3>2. \A v \in Workers \ {w} : tick[v].stage \notin Claiming
      BY <2>1 DEF Claimed, Claiming
    <3>3. Claimed'
      BY <2>1, <2>3, <3>1, <3>2 DEF Claimed, S!Create, Claiming
    <3>4. Started'
      BY <2>1, <3>1, <3>2 DEF Started, Claiming
    <3>5. Counted'
      <4>1. rows \in [S!Occurrences -> Nat] /\ tick[w].n \in 0 .. MaxAttempts /\ MaxAttempts \in Nat
        BY <1>1 DEF Typed, S!TypeOK, S!TickType, Given, S!LimitsAssumption
      <4> QED  BY <2>3, <4>1 DEF S!Create, Counted
    <3> QED  BY <3>3, <3>4, <3>5
  <2> QED  BY <1>6, <2>2, <2>3, <1>1 DEF S!Begin, Typed, S!TypeOK, S!TickType, S!Occurrence, S!Occurrences, Proper,
                                           Given, S!LimitsAssumption
<1>7. CASE S!Finish(w) \/ S!Fail(w)
  <2>1. /\ tick[w].stage = "running" /\ state \in S!Claims
        /\ attempt = [by |-> w, due |-> tick[w].due, at |-> tick[w].at, alive |-> TRUE]
        /\ \A v \in Workers \ {w} : tick[v].stage \notin Claiming
    BY <1>7 DEF S!Finish, S!Fail, S!Mine, Claimed, Claiming
  <2>2. UNCHANGED rows
    BY <1>7 DEF S!Finish, S!Fail
  <2>3. CASE S!Finish(w)
    <3>1. \A v \in Workers : tick'[v].stage \notin Claiming
      BY <2>1, <2>3, Leaves DEF S!Finish, Claiming, Others
    <3>2. attempt' = S!NoRun /\ state' # "SCHEDULED"
      BY <2>3 DEF S!Finish
    <3> QED  BY <2>2, <3>1, <3>2 DEF Claimed, Started, Counted
  <2>4. CASE S!Fail(w)
    <3>1. UNCHANGED done
      BY <2>4 DEF S!Fail
    <3>2. CASE attempt' = S!NoRun /\ tick' = S!Thrown(w) /\ UNCHANGED state
      <4>1. /\ \A v \in Workers \ {w} : tick'[v] = tick[v]
            /\ tick'[w].stage \in {"noting", "releasing"} /\ tick'[w].due = tick[w].due
        BY <2>1, <3>2, Throws DEF Claiming, Turns, Others
      <4> QED  BY <2>1, <2>2, <3>1, <3>2, <4>1 DEF Claimed, Started, Counted, Claiming
    <3>3. CASE attempt' = S!NoRun /\ S!Leave(w) /\ state' = "PARTIAL"
      <4>1. \A v \in Workers : tick'[v].stage \notin Claiming
        BY <2>1, <3>3, Leaves DEF Claiming, Others
      <4> QED  BY <2>2, <3>1, <3>3, <4>1 DEF Claimed, Started, Counted
    <3>4. CASE tick' = [tick EXCEPT ![w] = S!Idle] /\ UNCHANGED state
      <4>1. \A v \in Workers : tick'[v].stage \notin Claiming
        BY <2>1, <3>4, Ticks, TypesOfTicks DEF Others, S!Idle, Claiming
      <4> QED  BY <2>1, <2>2, <3>1, <3>4, <4>1 DEF Claimed, Started, Counted
    <3> QED  BY <2>4, <3>2, <3>3, <3>4 DEF S!Fail
  <2> QED  BY <1>7, <2>3, <2>4
<1> QED  BY <1>2, <1>3, <1>4, <1>5, <1>6, <1>7 DEF Work, S!Works

LEMMA OnceStep == ASSUME Given, Once, [S!Next]_(S!vars) PROVE Once'
<1>1. CASE UNCHANGED S!vars
  BY <1>1, TypedStep DEF S!vars, Once, Claimed, Started, Counted
<1> QED  BY <1>1, TypedStep, OnceElsewhere, OnceWork, NextIs DEF Once

(* A run is begun with a claim, and there is none on a start that completed. *)
Restarts ==
    \A o \in Occurrences : /\ rows'[o] <= MaxAttempts
                           /\ o[1] = "apply" /\ o \in done => rows'[o] = rows[o]

LEMMA NothingRestarts == ASSUME Given, Once, S!Next PROVE Restarts
<1>0. Occurrences = S!Occurrences
  BY DEF Occurrences, Transitions, Instants, S!Occurrences, S!Transitions, S!Instants
<1>1. \A o \in Occurrences : rows'[o] <= MaxAttempts
  BY <1>0, OnceStep DEF Once, Counted
<1>2. CASE UNCHANGED rows
  BY <1>1, <1>2 DEF Restarts
<1>3. ASSUME NEW w \in Workers, S!Begin(w), S!Create(w) PROVE Restarts
  <2>1. tick[w].stage \in Claiming
    BY <1>3 DEF S!Begin, Claiming
  <2>2. \A o \in done : o[1] = "apply" => S!Occurrence(w)[1] # "apply"
    BY <2>1 DEF Once, Started, S!Occurrence
  <2>3. \A o \in S!Occurrences : o # S!Occurrence(w) => rows'[o] = rows[o]
    BY <1>3 DEF S!Create, Once, Typed, S!TypeOK
  <2> QED  BY <1>0, <1>1, <2>2, <2>3 DEF Restarts
<1>4. ASSUME NEW w \in Workers, Work(w), ~S!Create(w) PROVE UNCHANGED rows
  BY <1>4 DEF Work, S!Works, S!List, S!Pick, S!Claim, S!Note, S!Release, S!Begin, S!Finish, S!After, S!NoSession,
              S!Refuse, S!Fail
<1>5. ASSUME NEW w \in Workers, Work(w), S!Create(w), ~S!Begin(w) PROVE UNCHANGED rows
  BY <1>5 DEF Work, S!Works, S!List, S!Pick, S!Claim, S!Note, S!Release, S!Finish, S!After, S!NoSession,
              S!Refuse, S!Fail
<1>6. CASE Elsewhere
  BY <1>2, <1>6 DEF Elsewhere, S!Reschedule, S!KeepTypedTimes, S!Reap, S!Unschedule, S!HandApply, S!HandRevert,
                    S!HandEnds, S!Hold, S!ConfirmStart, S!Passes
<1> QED  BY <1>2, <1>3, <1>4, <1>5, <1>6, NextIs

(* A start that has completed is never run again, and no occurrence has more
   runs than attempts, however many workers' ticks work from old lists. *)
THEOREM StartedOnceHolds == Given => (S!Spec => StartedOnce)
<1> SUFFICES ASSUME Given PROVE S!Spec => StartedOnce
  OBVIOUS
<1>1. S!Init => Once
  BY OnceInit
<1>2. Once /\ [S!Next]_(S!vars) => Once'
  BY OnceStep
<1>3. Once /\ [S!Next]_(S!vars) => [Restarts]_(S!vars)
  BY NothingRestarts
<1>4. Once /\ [S!Next]_(S!vars) => [Restarts]_<<rows, done>>
  BY <1>3 DEF S!vars
<1>5. S!Spec => [][Restarts]_<<rows, done>>
  BY <1>1, <1>2, <1>4, PTL DEF S!Spec
<1> QED  BY <1>5 DEF StartedOnce, Restarts

----------------------------------------------------------------------------
(* While a tick has the claim nobody moves the window, so the blob it writes
   back with its mark has the window it read. *)
Stand == /\ confirm = <<>>
         /\ DatesStand
         /\ \A w \in Workers : tick[w].stage = "noting" => tick[w].read[1].win = blob.win

LEMMA StandInit == Given /\ S!Init => Stand
BY DEF S!Init, Stand, DatesStand, S!Idle

LEMMA StandStep ==
    ASSUME Given, ~Overlaps, Once, Stand, [S!Next]_(S!vars)
    PROVE  Stand'
<1> USE DEF Stand, DatesStand, S!page
<1>1. CASE UNCHANGED S!vars
  BY <1>1 DEF S!vars
<1>2. ASSUME NEW win \in Windows, S!Reschedule(win) \/ S!KeepTypedTimes(win) PROVE Stand'
  <2>1. \A w \in Workers : tick[w].stage \notin Claiming
    BY <1>2, NobodyClaims DEF S!Reschedule, S!KeepTypedTimes, S!Live, S!Claims
  <2>2. blob'.win = win
    BY <1>2 DEF S!Reschedule, S!KeepTypedTimes, Once, Typed, S!TypeOK, S!Blobs
  <2> QED  BY <1>2, <2>1, <2>2 DEF S!Reschedule, S!KeepTypedTimes, S!Dated, Claiming
<1>3. CASE S!Unschedule \/ S!HandApply
  <2>1. \A w \in Workers : tick[w].stage \notin Claiming
    BY <1>3, NobodyClaims DEF S!Unschedule, S!HandApply, S!Live, S!Claims
  <2> QED  BY <1>3, <2>1 DEF S!Unschedule, S!HandApply, Claiming
<1>4. CASE S!Reap \/ S!HandRevert \/ S!HandEnds \/ S!Hold \/ S!ConfirmStart \/ S!Passes
  BY <1>4 DEF S!Reap, S!HandRevert, S!HandEnds, S!Hold, S!ConfirmStart, S!Passes
<1>5. ASSUME NEW w \in Workers, Work(w) PROVE Stand'
  <2>1. UNCHANGED <<dates, confirm>>
    BY <1>5 DEF Work, S!Works, S!List, S!Pick, S!Claim, S!Note, S!Release, S!Begin, S!Finish, S!After, S!NoSession,
                S!Refuse, S!Fail
  <2>2. CASE S!Note(w)
    <3>1. tick[w].stage = "noting" /\ blob' = tick[w].read[1] /\ Turns(w, "releasing")
      BY <2>2, Notes DEF S!Note, Once
    <3> QED  BY <2>1, <3>1 DEF Turns, Others
  <2>3. CASE ~S!Note(w)
    <3>1. UNCHANGED blob
      BY <1>5, <2>3 DEF Work, S!Works, S!List, S!Pick, S!Claim, S!Release, S!Begin, S!Finish, S!After, S!NoSession,
                        S!Refuse, S!Fail
    <3>2. Others(w) /\ (tick'[w].stage = "noting" => tick'[w].read[1].win = blob.win)
      <4>1. CASE S!List(w) \/ S!After(w) \/ S!Refuse(w)
        BY <4>1, Lists, Afters, Refuses DEF Turns, Once
      <4>2. CASE S!Leave(w) /\ tick[w].stage # "idle"
        BY <4>2, Leaves DEF Once
      <4>3. CASE tick' = S!Thrown(w) /\ tick[w].stage \in Claiming
        BY <4>3, Throws DEF Turns, Once
      <4>4. CASE S!Pick(w) \/ S!Claim(w)
        BY <4>2, <4>4, Picks, ClaimsIt DEF Turns, Once, S!Pick, S!Claim
      <4>5. CASE S!NoSession(w) \/ S!Release(w) \/ S!Finish(w)
        BY <4>2, <4>5 DEF S!NoSession, S!Release, S!Finish, S!Mine
      <4>6. CASE S!Begin(w)
        BY <4>3, <4>6, Staged DEF S!Begin, S!Create, S!Stage, S!Stages, Claiming, Turns, Once
      <4>7. CASE S!Fail(w)
        <5>1. CASE tick' = [tick EXCEPT ![w] = S!Idle]
          BY <5>1, Ticks, TypesOfTicks DEF S!Idle, Once
        <5> QED  BY <4>2, <4>3, <4>7, <5>1 DEF S!Fail, S!Mine, Claiming
      <4> QED  BY <1>5, <2>3, <4>1, <4>4, <4>5, <4>6, <4>7 DEF Work, S!Works
    <3> QED  BY <2>1, <3>1, <3>2 DEF Others
  <2> QED  BY <2>2, <2>3
<1> QED  BY <1>1, <1>2, <1>3, <1>4, <1>5, NextIs DEF Elsewhere

(* The dates the scheduler reads are the dates last set, as long as nothing
   comes between a confirmation's read and its write. *)
THEOREM DatesStandHolds ==
    ASSUME Given, ~Overlaps
    PROVE  S!Spec => []DatesStand
<1>1. S!Init => Once /\ Stand
  BY OnceInit, StandInit
<1>2. (Once /\ Stand) /\ [S!Next]_(S!vars) => (Once /\ Stand)'
  BY OnceStep, StandStep
<1>3. Stand => DatesStand
  BY DEF Stand
<1> QED  BY <1>1, <1>2, <1>3, PTL DEF S!Spec

(* One tick at most has a claim on the campaign, and the run it then writes is
   its own: the lock expiring under a long tick lets no second one in. *)
OneClaim == \A v, w \in Workers :
    tick[v].stage \in Claiming /\ tick[w].stage \in Claiming => v = w /\ attempt.by \in {"nobody", v}

THEOREM OneClaimHolds == Given => (S!Spec => []OneClaim)
<1> SUFFICES ASSUME Given PROVE S!Spec => []OneClaim
  OBVIOUS
<1>1. S!Init => Once
  BY OnceInit
<1>2. Once /\ [S!Next]_(S!vars) => Once'
  BY OnceStep
<1>3. Once => OneClaim
  BY DEF Once, Claimed, OneClaim, S!NoRun
<1> QED  BY <1>1, <1>2, <1>3, PTL DEF S!Spec
=============================================================================
