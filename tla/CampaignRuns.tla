---------------------------- MODULE CampaignRuns ----------------------------
(* How calls to `runCampaign` share one campaign.

   A campaign row has a status; APPLYING and REVERTING are claims: "a run has
   this campaign and may be writing".  A call over the whole campaign (Full)
   takes the claim, then creates a run row, writes prices and moves the
   campaign on.  A call over named variants (Scoped) never takes the claim: it
   creates its row first and then looks for one.  Calls come from a page or
   Flow ("press"), from the scheduler ("tick", which claims before calling),
   from the worker's queue ("job", claimed by the press that handed it over)
   or from the one-variant actions ("scoped").  The reaper ends the rows of
   processes that died.

   A statement of the code is a step of its own wherever another process's
   coming in between could change the outcome.  Prices, ledgers, markets and tags are not here: the
   step "writing" stands for everything between the first price sent and the
   last statement before the run row is finished. *)
EXTENDS Naturals

CONSTANTS
    Full,          \* calls of runCampaign over the whole campaign
    Scoped,        \* calls of runCampaign over named variants
    FalseReclaim,  \* whether the reaper may take a live, silent run for dead
    Faults,        \* whether a database or session failure can hit the recovery code itself
    Movers,        \* whether the merchant and the drift detector move the status meanwhile
    MaxCrashes     \* how many processes may die (a bound for TLC, not in the code)

ASSUME CallsAssumption == Full \cap Scoped = {}
ASSUME SwitchesAssumption == {FalseReclaim, Faults, Movers} \subseteq BOOLEAN
ASSUME CrashAssumption == MaxCrashes \in Nat

VARIABLES
    status,    \* Campaign.status
    run,       \* CampaignRun.status of the row each call created, "NONE" before
    pc,        \* where each call is
    kind,      \* what it was asked for: APPLY or REVERT
    via,       \* who called it
    before,    \* where a claim it gives back goes: stateBefore, claimedFrom or started.releaseTo
    seen,      \* the status its current transition or release read
    handed,    \* the status queueRun read, which the job carries as claimedFrom
    jobs,      \* execution jobs in the queue, named by the call that enqueued them
    reap,      \* the reaper at each row: "idle", "reclaimed", or the campaign status it read
    heldFrom,  \* the status a released hold goes back to (from the audit log)
    mover,     \* what somebody else is about to do, having looked at the status: one at a time
    crashes,   \* processes that have died
    holding    \* history: the full calls whose claim has stood since they took it

calls == <<kind, via, before, handed>>
world == <<jobs, reap, heldFrom, mover, crashes>>
vars  == <<status, run, pc, kind, via, before, seen, handed, jobs, reap, heldFrom, mover, crashes, holding>>

Calls == Full \cup Scoped

Claims == {"APPLYING", "REVERTING"}
States == Claims \cup {"DRAFT", "SCHEDULED", "ACTIVE", "HELD", "COMPLETED", "PARTIAL", "CANCELLED"}
RunStates == {"NONE", "EXECUTING", "COMPLETED", "PARTIAL", "FAILED", "CANCELLED"}
Stages == {"idle", "ticking", "checked", "look", "gates", "hand", "handclaim", "handclaiming",
           "enqueue", "claim", "claiming", "scopes", "plan", "created", "writing", "finished",
           "finishing", "threw", "threwWriting", "stopped", "stopping", "release", "releasing",
           "done", "dead"}

Legal ==
    ({"DRAFT"}     \X {"SCHEDULED", "APPLYING", "CANCELLED"}) \cup
    ({"SCHEDULED"} \X {"APPLYING", "DRAFT", "CANCELLED"}) \cup
    ({"APPLYING"}  \X {"ACTIVE", "PARTIAL", "HELD", "COMPLETED", "CANCELLED"}) \cup
    ({"ACTIVE"}    \X {"REVERTING", "HELD", "PARTIAL", "APPLYING", "COMPLETED", "CANCELLED"}) \cup
    ({"HELD"}      \X {"ACTIVE", "APPLYING", "REVERTING", "PARTIAL", "CANCELLED"}) \cup
    ({"REVERTING"} \X {"COMPLETED", "PARTIAL", "CANCELLED"}) \cup
    ({"PARTIAL"}   \X {"APPLYING", "REVERTING", "ACTIVE", "COMPLETED", "HELD", "CANCELLED"}) \cup
    ({"COMPLETED"} \X {"SCHEDULED", "APPLYING", "CANCELLED"})

Live(p) == run[p] = "EXECUTING"
LiveFull == {f \in Full : Live(f)}
LiveScoped == {s \in Scoped : Live(s)}

ClaimOf(p) == IF kind[p] = "APPLY" THEN "APPLYING" ELSE "REVERTING"
FinalOf(p) == IF run[p] = "PARTIAL" THEN "PARTIAL"
              ELSE IF kind[p] = "APPLY" THEN "ACTIVE" ELSE "COMPLETED"

(* Where a call goes when it gives its claim back: nowhere when the state to
   give it back to is itself a claim. *)
GiveBack(p) == IF before[p] \in Claims THEN "done" ELSE "release"

(* Mutant, as before #701: a refusal is a return, and only throws gave claims back. *)
RefusedKeepsTheClaim(p) == "done"

(* A refusal releases only a claim somebody took for this call. *)
Refused(p) == IF via[p] \in {"tick", "job"} THEN GiveBack(p) ELSE "done"

Goto(p, stage) == pc' = [pc EXCEPT ![p] = stage]

(* The status and, with it, which full calls still have the claim they took. *)
Move(to) == /\ status' = to
            /\ holding' = IF to \in Claims THEN holding ELSE {}

Init == /\ status \in States \ Claims
        /\ run = [p \in Calls |-> "NONE"]
        /\ pc = [p \in Calls |-> "idle"]
        /\ kind = [p \in Calls |-> "APPLY"]
        /\ via = [p \in Calls |-> "press"]
        /\ before = [p \in Calls |-> "DRAFT"]
        /\ seen = [p \in Calls |-> "DRAFT"]
        /\ handed = [p \in Calls |-> "DRAFT"]
        /\ jobs = {}
        /\ reap = [p \in Calls |-> "idle"]
        /\ heldFrom \in {"ACTIVE", "PARTIAL"}
        /\ mover = "none"
        /\ crashes = 0
        /\ holding = {}

-----------------------------------------------------------------------------
(* transitionCampaign: a read, then an update conditional on what was read. *)

(* Mutant: the machine is not consulted. *)
AnyTransitionRead(p, at, to, same, next, illegal) ==
    /\ pc[p] = at
    /\ seen' = [seen EXCEPT ![p] = status]
    /\ Goto(p, IF status = to THEN same ELSE next)
    /\ UNCHANGED <<status, run, calls, world>>

(* Already there: `same`.  Legal: `next`, which does the update.  Otherwise it
   throws, and the caller goes to `illegal`. *)
TransitionRead(p, at, to, same, next, illegal) ==
    /\ pc[p] = at
    /\ seen' = [seen EXCEPT ![p] = status]
    /\ Goto(p, IF status = to THEN same
               ELSE IF <<status, to>> \in Legal THEN next ELSE illegal)
    /\ UNCHANGED <<status, run, calls, world>>

(* The conditional update: somebody else moved the campaign first, or it moves. *)
TransitionWrite(p, at, to, moved, missed) ==
    /\ pc[p] = at
    /\ \/ /\ status = seen[p]
          /\ status' = to
          /\ Goto(p, moved)
       \/ /\ status # seen[p]
          /\ status' = status
          /\ Goto(p, missed)
    /\ UNCHANGED <<run, seen>>

-----------------------------------------------------------------------------
(* How a call begins. *)

Begin(p, k, who, stage) ==
    /\ kind' = [kind EXCEPT ![p] = k]
    /\ via' = [via EXCEPT ![p] = who]
    /\ Goto(p, stage)

(* The page's or Flow's action: runCampaign reads the status it would go back to. *)
Press(p) ==
    /\ pc[p] = "idle"
    /\ \E k \in {"APPLY", "REVERT"} : Begin(p, k, "press", "look")
    /\ before' = [before EXCEPT ![p] = status]
    /\ UNCHANGED <<status, run, seen, handed, world, holding>>

(* claimForSchedule reads a status the schedule owes a transition from... *)
TickRead(p) ==
    /\ pc[p] = "idle"
    /\ status \in {"SCHEDULED", "ACTIVE", "PARTIAL", "HELD"}
    /\ Begin(p, IF status = "SCHEDULED" THEN "APPLY" ELSE "REVERT", "tick", "ticking")
    /\ seen' = [seen EXCEPT ![p] = status]
    /\ UNCHANGED <<status, run, before, handed, world, holding>>

(* ...and takes it, unless it moved; the call then carries claimedFrom. *)
TickClaim(p) ==
    /\ TransitionWrite(p, "ticking", ClaimOf(p), "look", "done")
    /\ before' = [before EXCEPT ![p] = seen[p]]
    /\ UNCHANGED <<kind, via, handed, world, holding>>

(* runTransition reads a held campaign's edits between its claim and the call. *)
TickLosesEdits(p) ==
    /\ Faults
    /\ pc[p] = "look" /\ via[p] = "tick" /\ before[p] = "HELD"
    /\ Goto(p, "done")
    /\ UNCHANGED <<status, run, seen, calls, world, holding>>

(* The worker takes a job: in a call of its own, which may be the one the
   press that enqueued it has finished with. *)
JobBegin(q, p) ==
    /\ p \in jobs
    /\ pc[q] = "idle" \/ (q = p /\ pc[p] \in {"done", "dead"})
    /\ jobs' = jobs \ {p}
    /\ Begin(q, kind[p], "job", "look")
    /\ before' = [before EXCEPT ![q] = handed[p]]
    /\ UNCHANGED <<status, run, seen, handed, reap, heldFrom, mover, crashes, holding>>

(* A job whose shop is uninstalled returns; one with no session throws, and the
   queue never tries it again.  Neither gives the claim back. *)
JobDropped(p) ==
    /\ Faults
    /\ p \in jobs
    /\ jobs' = jobs \ {p}
    /\ UNCHANGED <<status, run, pc, calls, seen, reap, heldFrom, mover, crashes, holding>>

(* A one-variant press, a put-back or an enrolment: its caller checks the
   campaign has prices up, and then runCampaign reads the status. *)
ScopedCheck(s) ==
    /\ pc[s] = "idle"
    /\ status \in {"ACTIVE", "HELD", "PARTIAL"}
    /\ \E k \in {"APPLY", "REVERT"} : Begin(s, k, "scoped", "checked")
    /\ UNCHANGED <<status, run, before, handed, seen, world, holding>>

ScopedBegin(s) ==
    /\ pc[s] = "checked"
    /\ before' = [before EXCEPT ![s] = status]
    /\ Goto(s, "gates")
    /\ UNCHANGED <<status, run, kind, via, handed, seen, world, holding>>

-----------------------------------------------------------------------------
(* executeCampaignRun, up to the run row. *)

(* standDown: the same work is already under way (a deferral), or it is not
   (a refusal). *)
StandDown(p, live) == IF kind[live] = kind[p] THEN "done" ELSE Refused(p)

LookForRun(p) ==
    /\ pc[p] = "look"
    /\ IF LiveFull = {} THEN Goto(p, "gates")
       ELSE \E live \in LiveFull : Goto(p, StandDown(p, live))
    /\ UNCHANGED <<status, run, seen, calls, world, holding>>

(* A bulk operation still running, no approval, or the plan limit. *)
GatesRefuse(p) ==
    /\ pc[p] = "gates"
    /\ Goto(p, Refused(p))
    /\ UNCHANGED <<status, run, seen, calls, world, holding>>

(* Only a press has a deadline, so only a press can be handed to the worker. *)
GatesPass(p) ==
    /\ pc[p] = "gates"
    /\ \E stage \in IF p \in Scoped THEN {"plan"}
                    ELSE IF via[p] = "press" THEN {"hand", "claim"} ELSE {"claim"} :
          Goto(p, stage)
    /\ UNCHANGED <<status, run, seen, calls, world, holding>>

(* A hand apply of a campaign whose window has ended: its dates go, and a
   scheduled one becomes a draft, which is where its claim then goes back. *)
ClearEndedWindow(p) ==
    /\ pc[p] = "gates" /\ via[p] = "press" /\ kind[p] = "APPLY"
    /\ status \in {"DRAFT", "SCHEDULED", "COMPLETED"}
    /\ Move(IF status = "SCHEDULED" THEN "DRAFT" ELSE status)
    /\ before' = [before EXCEPT ![p] = status']
    /\ \E stage \in {"hand", "claim"} : Goto(p, stage)
    /\ UNCHANGED <<run, seen, kind, via, handed, world>>

(* queueRun: reads where the claim came from, claims, enqueues. *)
HandOver(p) ==
    /\ pc[p] = "hand"
    /\ handed' = [handed EXCEPT ![p] = status]
    /\ Goto(p, "handclaim")
    /\ UNCHANGED <<status, run, seen, kind, via, before, world, holding>>

HandClaim(p) == /\ TransitionRead(p, "handclaim", ClaimOf(p), "done", "handclaiming", "threw")
                /\ UNCHANGED holding

HandClaimWrite(p) == /\ TransitionWrite(p, "handclaiming", ClaimOf(p), "enqueue", "done")
                     /\ UNCHANGED <<calls, world, holding>>

Enqueue(p) ==
    /\ pc[p] = "enqueue"
    /\ jobs' = jobs \cup {p}
    /\ Goto(p, "done")
    /\ UNCHANGED <<status, run, seen, calls, reap, heldFrom, mover, crashes, holding>>

(* No answer from the queue in time.  The job may have landed all the same. *)
EnqueueFails(p) ==
    /\ pc[p] = "enqueue"
    /\ jobs' \in {jobs, jobs \cup {p}}
    /\ before' = [before EXCEPT ![p] = handed[p]]
    /\ Goto(p, "release")
    /\ UNCHANGED <<status, run, seen, kind, via, handed, reap, heldFrom, mover, crashes, holding>>

(* The inline claim.  A claim already taken is shared, and so is a lost race:
   executeCampaignRun does not look at whether it moved the campaign. *)
Claim(p) == /\ TransitionRead(p, "claim", ClaimOf(p), "scopes", "claiming", "threw")
            /\ holding' = IF status = ClaimOf(p) THEN holding \cup {p} ELSE holding

ClaimWrite(p) == /\ TransitionWrite(p, "claiming", ClaimOf(p), "scopes", "scopes")
                 /\ holding' = IF status' = ClaimOf(p) THEN holding \cup {p} ELSE holding
                 /\ UNCHANGED <<calls, world>>

(* A scoped run is writing: the full run refuses and gives its claim back. *)
LookForScoped(p) ==
    /\ pc[p] = "scopes"
    /\ Goto(p, IF LiveScoped = {} THEN "plan" ELSE GiveBack(p))
    /\ UNCHANGED <<status, run, seen, calls, world, holding>>

-----------------------------------------------------------------------------
(* The run row and the writing. *)

(* Mutant: no unique index on the live run. *)
CreateUnindexedRun(p) ==
    /\ pc[p] = "plan"
    /\ run' = [run EXCEPT ![p] = "EXECUTING"]
    /\ Goto(p, "created")
    /\ UNCHANGED <<status, seen, calls, world, holding>>

CreateRun(p) ==
    /\ pc[p] = "plan"
    /\ p \in Full => LiveFull = {}
    /\ run' = [run EXCEPT ![p] = "EXECUTING"]
    /\ Goto(p, "created")
    /\ UNCHANGED <<status, seen, calls, world, holding>>

(* The insert hits a unique index: another whole run is live (and may have
   ended by the time the loser looks), or a scoped press was made already. *)
CreateRefused(p) ==
    /\ pc[p] = "plan"
    /\ \/ p \in Scoped /\ Goto(p, "done")
       \/ \E live \in LiveFull : p \in Full /\ Goto(p, StandDown(p, live))
       \/ p \in Full /\ LiveFull # {} /\ Goto(p, "done")
    /\ UNCHANGED <<status, run, seen, calls, world, holding>>

(* Ledger rows, write intents and market baselines first; then prices. *)
FullStarts(p) ==
    /\ pc[p] = "created" /\ p \in Full
    /\ Goto(p, "writing")
    /\ UNCHANGED <<status, run, seen, calls, world, holding>>

(* Mutant: the scoped run trusts what its caller checked. *)
ScopedStartsUnlooked(s) ==
    /\ pc[s] = "created" /\ s \in Scoped
    /\ Goto(s, "writing")
    /\ UNCHANGED <<status, run, seen, calls, world, holding>>

(* The other half of LookForScoped: its row exists, now it looks for a claim. *)
ScopedStarts(s) ==
    /\ pc[s] = "created" /\ s \in Scoped
    /\ IF status \in Claims
       THEN run' = [run EXCEPT ![s] = "CANCELLED"] /\ Goto(s, "done")
       ELSE run' = run /\ Goto(s, "writing")
    /\ UNCHANGED <<status, seen, calls, world, holding>>

(* The last statement on the run row is not conditional on its status. *)
FinishRun(p) ==
    /\ pc[p] = "writing"
    /\ \E end \in {"COMPLETED", "PARTIAL"} : run' = [run EXCEPT ![p] = end]
    /\ Goto(p, IF p \in Scoped THEN "done" ELSE "finished")
    /\ UNCHANGED <<status, seen, calls, world, holding>>

Final(p) == /\ TransitionRead(p, "finished", FinalOf(p), "done", "finishing", "threwWriting")
            /\ UNCHANGED holding

FinalWrite(p) == /\ TransitionWrite(p, "finishing", FinalOf(p), "done", "done")
                 /\ holding' = IF status' \in Claims THEN holding ELSE {}
                 /\ UNCHANGED <<calls, world>>

-----------------------------------------------------------------------------
(* runCampaign's catch. *)

(* Any statement before the first price can throw, and so can a refused bulk
   submission, which sent nothing; or one after prices may have moved.  With
   Faults the release itself can, and its caller has no second catch. *)
Throw(p) ==
    /\ \/ /\ pc[p] \in {"look", "gates", "hand", "handclaim", "handclaiming", "claim", "claiming",
                      "scopes", "plan", "created", "writing"}
          /\ Goto(p, "threw")
       \/ /\ pc[p] \in {"writing", "finished", "finishing"}
          /\ Goto(p, "threwWriting")
       \/ /\ Faults
          /\ pc[p] \in {"release", "releasing"}
          /\ Goto(p, "done")
    /\ UNCHANGED <<status, run, seen, calls, world, holding>>

(* Mutant, as before #649: the claim is given back and the row left as it is. *)
CatchReleasesOnly(p) ==
    /\ pc[p] \in {"threw", "threwWriting"}
    /\ Goto(p, GiveBack(p))
    /\ UNCHANGED <<status, run, seen, calls, world, holding>>

(* Mutant: the row is failed whatever it says. *)
CatchOverwrites(p) ==
    /\ pc[p] \in {"threw", "threwWriting"}
    /\ run' = [run EXCEPT ![p] = IF run[p] = "NONE" THEN "NONE" ELSE "FAILED"]
    /\ Goto(p, GiveBack(p))
    /\ UNCHANGED <<status, seen, calls, world, holding>>

(* failRun ends the row if it is still live; a full run that was writing is
   then PARTIAL, and every other call gives its claim back. *)
Catch(p) ==
    /\ pc[p] \in {"threw", "threwWriting"}
    /\ LET wrote == pc[p] = "threwWriting"
       IN  \/ /\ Live(p)
              /\ run' = [run EXCEPT ![p] = IF wrote THEN "PARTIAL" ELSE "FAILED"]
              /\ Goto(p, IF wrote /\ p \in Full THEN "stopped" ELSE GiveBack(p))
           \/ /\ ~Live(p) \/ Faults
              /\ run' = run
              /\ Goto(p, GiveBack(p))
    /\ UNCHANGED <<status, seen, calls, world, holding>>

Stop(p) == /\ TransitionRead(p, "stopped", "PARTIAL", "done", "stopping", "done")
           /\ UNCHANGED holding

StopWrite(p) == /\ TransitionWrite(p, "stopping", "PARTIAL", "done", "done")
                /\ holding' = IF status' \in Claims THEN holding ELSE {}
                /\ UNCHANGED <<calls, world>>

(* releaseClaim: whatever claim is there, unless a full run row is live.  It
   reads the status and then counts rows; a count taken later finds what a
   release that began later would. *)
Release(p) ==
    /\ pc[p] = "release"
    /\ seen' = [seen EXCEPT ![p] = status]
    /\ Goto(p, IF status \in Claims /\ LiveFull = {} THEN "releasing" ELSE "done")
    /\ UNCHANGED <<status, run, calls, world, holding>>

ReleaseWrite(p) == /\ TransitionWrite(p, "releasing", before[p], "done", "done")
                   /\ holding' = IF status' \in Claims THEN holding ELSE {}
                   /\ UNCHANGED <<calls, world>>

-----------------------------------------------------------------------------
(* Everybody else. *)

Crash(p) ==
    /\ crashes < MaxCrashes
    /\ pc[p] \notin {"idle", "done", "dead"}
    /\ Goto(p, "dead")
    /\ crashes' = crashes + 1
    /\ UNCHANGED <<status, run, seen, calls, jobs, reap, heldFrom, mover, holding>>

(* reclaimStaleRuns: the row, and then its campaign, best effort.  A process
   that is alive stamps its row ten times in the reaper's patience, so only
   FalseReclaim takes one for dead. *)
ReapRun(p) ==
    /\ Live(p) /\ reap[p] = "idle"
    /\ FalseReclaim \/ pc[p] \in {"done", "dead"}
    /\ run' = [run EXCEPT ![p] = "PARTIAL"]
    /\ reap' = [reap EXCEPT ![p] = "reclaimed"]
    /\ UNCHANGED <<status, pc, seen, calls, jobs, heldFrom, mover, crashes, holding>>

ReapRead(p) ==
    /\ reap[p] = "reclaimed"
    /\ reap' = [reap EXCEPT ![p] = IF <<status, "PARTIAL">> \in Legal THEN status ELSE "idle"]
    /\ UNCHANGED <<status, run, pc, seen, calls, jobs, heldFrom, mover, crashes, holding>>

(* Mutant: the campaign is given the failed run's own status. *)
ReapWriteFailed(p) ==
    /\ reap[p] \in States
    /\ Move(IF status = reap[p] THEN "FAILED" ELSE status)
    /\ reap' = [reap EXCEPT ![p] = "idle"]
    /\ UNCHANGED <<run, pc, seen, calls, jobs, heldFrom, mover, crashes>>

ReapWrite(p) ==
    /\ reap[p] \in States
    /\ Move(IF status = reap[p] THEN "PARTIAL" ELSE status)
    /\ reap' = [reap EXCEPT ![p] = "idle"]
    /\ UNCHANGED <<run, pc, seen, calls, jobs, heldFrom, mover, crashes>>

(* The worker that was reclaiming dies before it reaches the campaign. *)
ReaperCrash(p) ==
    /\ crashes < MaxCrashes
    /\ reap[p] # "idle"
    /\ reap' = [reap EXCEPT ![p] = "idle"]
    /\ crashes' = crashes + 1
    /\ UNCHANGED <<status, run, pc, seen, calls, jobs, heldFrom, mover, holding>>

(* The drift detector, a drift decision and the Cancel button look at the status
   themselves; transitionCampaign then reads it again, and goes by what it finds. *)
MoverLooks ==
    /\ Movers /\ mover = "none"
    /\ \/ status \in {"ACTIVE", "PARTIAL"} /\ mover' = "hold"
       \/ status = "HELD" /\ mover' = "release"
       \/ status = "SCHEDULED" /\ mover' = "cancel"
    /\ UNCHANGED <<status, run, pc, seen, calls, jobs, reap, heldFrom, crashes, holding>>

(* To `to` if that is legal by now; otherwise it throws, or is there already. *)
MoveIfLegal(what, to) ==
    /\ mover = what
    /\ Move(IF <<status, to>> \in Legal THEN to ELSE status)
    /\ mover' = "none"
    /\ UNCHANGED <<run, pc, seen, calls, jobs, reap, crashes>>

Hold == /\ MoveIfLegal("hold", "HELD")
        /\ heldFrom' = IF <<status, "HELD">> \notin Legal THEN heldFrom
                       ELSE IF status = "PARTIAL" THEN "PARTIAL" ELSE "ACTIVE"

ReleaseHold == MoveIfLegal("release", heldFrom) /\ UNCHANGED heldFrom

CancelScheduled == MoveIfLegal("cancel", "CANCELLED") /\ UNCHANGED heldFrom

(* Only a scheduled campaign can become a draft, so looking once or twice is the same. *)
Unschedule ==
    /\ Movers
    /\ status = "SCHEDULED"
    /\ Move("DRAFT")
    /\ UNCHANGED <<run, pc, seen, calls, world>>

-----------------------------------------------------------------------------
(* What a process does of itself once called: these steps are fair. *)
FullStep(p) ==
    \/ TickClaim(p) \/ LookForRun(p) \/ GatesRefuse(p) \/ GatesPass(p) \/ ClearEndedWindow(p)
    \/ HandOver(p) \/ HandClaim(p) \/ HandClaimWrite(p) \/ Enqueue(p) \/ EnqueueFails(p)
    \/ Claim(p) \/ ClaimWrite(p) \/ LookForScoped(p)
    \/ CreateRun(p) \/ CreateRefused(p) \/ FullStarts(p) \/ FinishRun(p) \/ Final(p) \/ FinalWrite(p)
    \/ Throw(p) \/ Catch(p) \/ Stop(p) \/ StopWrite(p) \/ Release(p) \/ ReleaseWrite(p)
    \/ TickLosesEdits(p)

ScopedStep(s) ==
    \/ ScopedBegin(s) \/ GatesRefuse(s) \/ GatesPass(s) \/ CreateRun(s) \/ CreateRefused(s)
    \/ ScopedStarts(s) \/ FinishRun(s)
    \/ Throw(s) \/ Catch(s) \/ Release(s) \/ ReleaseWrite(s)

Step(p) == (p \in Full /\ FullStep(p)) \/ (p \in Scoped /\ ScopedStep(p))

Reaper(p) == ReapRun(p) \/ ReapRead(p) \/ ReapWrite(p)

Worker(p) == \E q \in Full : JobBegin(q, p)

Next ==
    \/ \E p \in Full : Press(p) \/ TickRead(p) \/ Worker(p) \/ JobDropped(p)
    \/ \E s \in Scoped : ScopedCheck(s)
    \/ \E p \in Calls : Step(p) \/ Reaper(p) \/ Crash(p) \/ ReaperCrash(p)
    \/ MoverLooks \/ Hold \/ ReleaseHold \/ CancelScheduled \/ Unschedule

Spec == Init /\ [][Next]_vars

(* A process that has not died goes on, the worker takes its jobs, and the
   scheduler's tick runs the reaper every thirty seconds. *)
Fairness == \A p \in Calls : WF_vars(Step(p)) /\ WF_vars(Reaper(p)) /\ WF_vars(Worker(p))

FairSpec == Spec /\ Fairness

-----------------------------------------------------------------------------
(* The types of every variable: the statuses of the schema, the stages above. *)
TypeOK ==
    /\ status \in States
    /\ run \in [Calls -> RunStates]
    /\ pc \in [Calls -> Stages]
    /\ kind \in [Calls -> {"APPLY", "REVERT"}]
    /\ via \in [Calls -> {"press", "tick", "job", "scoped"}]
    /\ before \in [Calls -> States]
    /\ seen \in [Calls -> States]
    /\ handed \in [Calls -> States]
    /\ jobs \subseteq Full
    /\ reap \in [Calls -> States \cup {"idle", "reclaimed"}]
    /\ heldFrom \in {"ACTIVE", "PARTIAL"}
    /\ mover \in {"none", "hold", "release", "cancel"}
    /\ crashes \in 0 .. MaxCrashes
    /\ holding \subseteq Full

(* Rule 2 for whole-campaign runs: however presses, ticks, jobs, crashes and
   the reaper interleave, no two of them write prices at the same time (unless
   the reaper takes a live run for dead). *)
OneFullWriter ==
    ~FalseReclaim => \A f, g \in Full : pc[f] = "writing" /\ pc[g] = "writing" => f = g

(* Rule 2 across the two kinds: each looks for the other after saying it is
   there, so while a full run's claim stands no scoped run writes beside it. *)
ClaimExcludesScoped ==
    ~FalseReclaim =>
        \A f \in holding, s \in Scoped : ~(pc[f] = "writing" /\ pc[s] = "writing")

(* A call that has returned has no row that says it is in progress: its own
   catch ends the row, without waiting for the reaper (unless the database
   fails the catch as well). *)
ReturnedRunsAreOver ==
    ~Faults => \A p \in Calls : pc[p] = "done" => ~Live(p)

(* What the code says of itself and does not keep to.  "Whichever looks second
   sees the other and stands down, and nothing is written twice"
   (run.server.ts:747): a whole run and a scoped run of one campaign never write
   prices at the same time. *)
NothingWrittenTwice ==
    \A f \in Full, s \in Scoped : ~(pc[f] = "writing" /\ pc[s] = "writing")

(* "A cancelled campaign never runs" (schedule-control.server.ts:53): a call
   writes prices for a campaign that reads CANCELLED. *)
CancelledNeverRuns == status = "CANCELLED" => \A f \in Full : pc[f] # "writing"

(* When no process has died, every call has returned and nothing is queued, no
   claim is left behind: each path out of a call that claimed moves the campaign
   on or gives the claim back. *)
NoClaimLeftBehind ==
    (/\ crashes = 0 /\ jobs = {}
     /\ \A p \in Calls : pc[p] \in {"idle", "done"} /\ ~Live(p) /\ reap[p] = "idle")
        => status \notin Claims

(* A step moves a campaign along an edge of the state machine, or gives a claim
   back to where some call took it from; nothing else moves it, and nothing
   moves a cancelled one. *)
StatusMoves ==
    [][\/ <<status, status'>> \in Legal
       \/ status \in Claims /\ \E p \in Calls : pc[p] = "releasing" /\ status' = before[p]]_status

(* What the rows promise their readers, whichever process writes them: see RunRows. *)
Rows == INSTANCE RunRows WITH rows <- run
RowsSpec == Rows!Spec
=============================================================================
