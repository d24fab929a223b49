------------------------------ MODULE Schedule ------------------------------
(* One campaign's window and the workers whose ticks start and end it.

   A tick reads the campaigns with its own, by then frozen, clock; it comes to
   this one later, however long the campaigns before it took.  It picks the
   attempt, claims by the status alone, plans, creates the attempt's row and
   writes.  The leader lock is renewed only between ticks, so a long tick can
   be overtaken by another worker's: nothing here rests on the lock.

   The window lives in one JSON column with the mark of a refused start, written
   whole by everybody; two plain columns repeat its dates.  Everything between
   a run's first price and its end is one step, as is the whole of what a page
   does to the status: CampaignRuns takes those apart. *)
EXTENDS Integers, FiniteSets, ScheduleRows

CONSTANTS
    Workers,
    Windows,      \* what a merchant may set: records of start, end and buffer
    Overlaps,     \* whether anything changes between a confirmation's read and its write
    MaxMoves,     \* bounds for TLC: changes of dates, presses of Apply, Revert and
    MaxPresses,   \* Confirm, and
    MaxTroubles   \* refusals, blips, runs stopped part-way and deaths, together

Manual == [start |-> 0, end |-> 0, buffer |-> 0]

ASSUME WorkersAssumption == Workers \cap {"nobody", "hand"} = {}
ASSUME WindowsAssumption == Windows \subseteq [start : Instants, end : Instants, buffer : Nat]
ASSUME OrderAssumption   == \A win \in Windows : win.start < win.end
ASSUME LimitsAssumption  == MaxAttempts \in Nat \ {0} /\ Horizon \in Nat /\ Overlaps \in BOOLEAN
ASSUME BoundsAssumption  == MaxMoves \in Nat /\ MaxPresses \in Nat /\ MaxTroubles \in Nat

VARIABLES
    now,
    status,    \* Campaign.status
    run,       \* the campaign's live run
    tick,      \* what each worker's tick has in hand
    confirm,   \* the blob a confirmation has read
    moves, presses, troubles

vars == <<now, status, blob, dates, rows, done, run, tick, confirm, moves, presses, troubles>>
page == <<confirm, moves, presses>>

Live   == {"ACTIVE", "PARTIAL", "HELD"}
Claims == {"APPLYING", "REVERTING"}
States == Live \cup Claims \cup {"DRAFT", "SCHEDULED", "COMPLETED", "CANCELLED"}
Stages == {"idle", "listed", "picked", "claimed", "running", "noting", "releasing", "after"}
Never  == 0

Blobs == [win : Windows \cup {Manual}, refused : 0 .. Horizon]
NoRun == [by |-> "nobody", due |-> "none", at |-> Never, alive |-> FALSE]
Idle  == [stage |-> "idle", due |-> "none", at |-> Never, n |-> 0, from |-> "none", read |-> <<>>]

Init ==
    /\ now = 0
    /\ status = "SCHEDULED"
    /\ \E win \in Windows : blob = [win |-> win, refused |-> Never] /\ dates = win
    /\ rows = [o \in Occurrences |-> 0] /\ done = {}
    /\ run = NoRun
    /\ tick = [w \in Workers |-> Idle]
    /\ confirm = <<>>
    /\ moves = 0 /\ presses = 0 /\ troubles = 0

Trouble == troubles < MaxTroubles /\ troubles' = troubles + 1

-----------------------------------------------------------------------------
(* The rules of the window. *)

Least(a, b) == IF a < b THEN a ELSE b

RevertMoment(win) == win.end - Least(win.buffer, (win.end - win.start) \div 2)

(* Mutant: a held campaign's end is passed over (#756). *)
DueUnheld(win, st, t) ==
    CASE win # Manual /\ t >= RevertMoment(win) /\ st \in Live \ {"HELD"} -> "revert"
      [] win # Manual /\ t \in win.start .. RevertMoment(win) - 1 /\ st = "SCHEDULED" -> "apply"
      [] OTHER -> "none"

(* The end is looked at before the start. *)
DueTransition(win, st, t) ==
    CASE win # Manual /\ t >= RevertMoment(win) /\ st \in Live -> "revert"
      [] win # Manual /\ t \in win.start .. RevertMoment(win) - 1 /\ st = "SCHEDULED" -> "apply"
      [] OTHER -> "none"

OccurrenceOf(win, due) == IF due = "apply" THEN win.start ELSE win.end

StartRefusal(b) == b.win # Manual /\ b.refused = b.win.start

(* The number of the next attempt, 0 for none: one is live, or all are used. *)
NextAttempt(o) ==
    IF <<run.due, run.at>> = o \/ rows[o] >= MaxAttempts THEN 0 ELSE rows[o] + 1

-----------------------------------------------------------------------------
(* The tick. *)

Occurrence(w) == <<tick[w].due, tick[w].at>>

Stage(w, stage) == tick' = [tick EXCEPT ![w].stage = stage]

(* After an apply, however it went, the tick asks whether its end has come. *)
Left(w) == IF tick[w].due = "apply" THEN [tick EXCEPT ![w].stage = "after"]
                                    ELSE [tick EXCEPT ![w] = Idle]

Leave(w) == tick' = Left(w)

Listed(due) == [Idle EXCEPT !.stage = "listed", !.due = due, !.at = OccurrenceOf(blob.win, due)]

(* The list, with the transition each campaign owes by the tick's clock. *)
List(w) ==
    /\ tick[w].stage = "idle"
    /\ LET due == DueTransition(blob.win, status, now) IN
       /\ due # "none"
       /\ ~(due = "apply" /\ StartRefusal(blob))
       /\ tick' = [tick EXCEPT ![w] = Listed(due)]
    /\ UNCHANGED <<now, status, blob, dates, rows, done, run, page, troubles>>

Pick(w) ==
    /\ tick[w].stage = "listed"
    /\ LET n == NextAttempt(Occurrence(w)) IN
       IF n = 0 THEN Leave(w)
                ELSE tick' = [tick EXCEPT ![w].stage = "picked", ![w].n = n]
    /\ UNCHANGED <<now, status, blob, dates, rows, done, run, page, troubles>>

(* Before any claim: the store has to reconnect, and the next tick asks again. *)
NoSession(w) ==
    /\ tick[w].stage = "picked"
    /\ Trouble
    /\ Leave(w)
    /\ UNCHANGED <<now, status, blob, dates, rows, done, run, page>>

(* Mutant: a start is claimed from a campaign already live. *)
ClaimableLive(due) == IF due = "apply" THEN {"SCHEDULED", "ACTIVE"} ELSE Live

Claimable(due) == IF due = "apply" THEN {"SCHEDULED"} ELSE Live

(* By the status and nothing else: not the window, not the clock. *)
Claim(w) ==
    /\ tick[w].stage = "picked"
    /\ IF status \in Claimable(tick[w].due)
       THEN /\ status' = IF tick[w].due = "apply" THEN "APPLYING" ELSE "REVERTING"
            /\ tick' = [tick EXCEPT ![w].stage = "claimed", ![w].from = status]
       ELSE Leave(w) /\ UNCHANGED status
    /\ UNCHANGED <<now, blob, dates, rows, done, run, page, troubles>>

(* Where a run that threw goes: an end that could not run is noted first. *)
Thrown(w) == IF tick[w].due = "revert"
             THEN [tick EXCEPT ![w].stage = "noting", ![w].read = <<blob>>]
             ELSE [tick EXCEPT ![w].stage = "releasing"]

(* Approval or the plan says no, or the planning throws: for a start, perhaps
   for a reason no retry changes, to be marked beside the start it refused. *)
Refuse(w) ==
    /\ tick[w].stage = "claimed"
    /\ Trouble
    /\ \/ tick' = Thrown(w)
       \/ /\ tick[w].due = "apply"
          /\ tick' = [tick EXCEPT ![w].stage = "noting",
                                  ![w].read = <<[blob EXCEPT !.refused = blob.win.start]>>]
    /\ UNCHANGED <<now, status, blob, dates, rows, done, run, page>>

(* The blob as it was read, with the mark. *)
Note(w) ==
    /\ tick[w].stage = "noting"
    /\ blob' = tick[w].read[1]
    /\ tick' = [tick EXCEPT ![w].stage = "releasing", ![w].read = <<>>]
    /\ UNCHANGED <<now, status, dates, rows, done, run, page, troubles>>

Release(w) ==
    /\ tick[w].stage = "releasing"
    /\ status' = IF status \in Claims /\ run = NoRun THEN tick[w].from ELSE status
    /\ Leave(w)
    /\ UNCHANGED <<now, blob, dates, rows, done, run, page, troubles>>

Create(w) ==
    /\ rows' = [rows EXCEPT ![Occurrence(w)] = @ + 1]
    /\ run' = [by |-> w, due |-> tick[w].due, at |-> tick[w].at, alive |-> TRUE]
    /\ Stage(w, "running")

(* The attempt's row; a key that has run to its end gives the claim back. *)
Begin(w) ==
    /\ tick[w].stage = "claimed" /\ run = NoRun
    /\ IF rows[Occurrence(w)] >= tick[w].n
       THEN tick' = Thrown(w) /\ UNCHANGED <<rows, run>>
       ELSE Create(w)
    /\ UNCHANGED <<now, status, blob, dates, done, page, troubles>>

Mine(w) == tick[w].stage = "running" /\ run.by = w /\ run.alive

Finish(w) ==
    /\ Mine(w)
    /\ status' = IF run.due = "apply" THEN "ACTIVE" ELSE "COMPLETED"
    /\ done' = done \cup {Occurrence(w)}
    /\ run' = NoRun
    /\ Leave(w)
    /\ UNCHANGED <<now, blob, dates, rows, page, troubles>>

(* Thrown before its first price, after it, or its process dies. *)
Fail(w) ==
    /\ Mine(w)
    /\ Trouble
    /\ \/ run' = NoRun /\ tick' = Thrown(w) /\ UNCHANGED status
       \/ run' = NoRun /\ Leave(w) /\ status' = "PARTIAL"
       \/ run' = [run EXCEPT !.alive = FALSE] /\ tick' = [tick EXCEPT ![w] = Idle] /\ UNCHANGED status
    /\ UNCHANGED <<now, blob, dates, rows, done, page>>

Reap ==
    /\ run # NoRun /\ ~run.alive
    /\ run' = NoRun
    /\ status' = "PARTIAL"
    /\ UNCHANGED <<now, blob, dates, rows, done, tick, page, troubles>>

(* An apply that outlasted its window ends in the same tick (#829). *)
After(w) ==
    /\ tick[w].stage = "after"
    /\ tick' = [tick EXCEPT ![w] = IF DueTransition(blob.win, status, now) = "revert"
                                   THEN Listed("revert") ELSE Idle]
    /\ UNCHANGED <<now, status, blob, dates, rows, done, run, page, troubles>>

-----------------------------------------------------------------------------
(* The merchant, and the drift detector's hold. *)

Dated(win) == dates' = win /\ moves < MaxMoves /\ moves' = moves + 1

(* Mutant: new dates whatever the campaign is doing. *)
RescheduleAnyTime(win) ==
    /\ win.start > now
    /\ Dated(win)
    /\ blob' = [win |-> win, refused |-> Never]
    /\ UNCHANGED <<now, status, rows, done, run, tick, confirm, presses, troubles>>

(* Conditional on SCHEDULED; the mark of a refused start goes with its dates. *)
Reschedule(win) ==
    /\ status = "SCHEDULED" /\ win.start > now
    /\ Dated(win)
    /\ blob' = [win |-> win, refused |-> Never]
    /\ UNCHANGED <<now, status, rows, done, run, tick, confirm, presses, troubles>>

(* After the store's zone changed: the moments still ahead are moved. *)
KeepTypedTimes(win) ==
    /\ status \in Live \cup {"SCHEDULED"} /\ blob.win # Manual
    /\ win.end > now /\ blob.win.end > now
    /\ win.start = blob.win.start \/ (status = "SCHEDULED" /\ win.start > now /\ blob.win.start > now)
    /\ Dated(win)
    /\ blob' = [blob EXCEPT !.win = win]
    /\ UNCHANGED <<now, status, rows, done, run, tick, confirm, presses, troubles>>

(* Back to a draft, or called off.  A cancelled one keeps its window. *)
Unschedule ==
    /\ status = "SCHEDULED"
    /\ \/ status' = "DRAFT" /\ dates' = Manual /\ blob' = [win |-> Manual, refused |-> Never]
       \/ status' = "CANCELLED" /\ UNCHANGED <<dates, blob>>
    /\ UNCHANGED <<now, rows, done, run, tick, page, troubles>>

Ended(win) == win # Manual /\ now >= win.end

(* A hand apply of a campaign whose window has ended takes the dates away. *)
HandApply ==
    /\ presses < MaxPresses /\ presses' = presses + 1
    /\ run = NoRun /\ status \in Live \cup {"DRAFT", "SCHEDULED", "COMPLETED"}
    /\ IF status \notin Live /\ Ended(blob.win)
       THEN blob' = [win |-> Manual, refused |-> Never] /\ dates' = Manual
       ELSE UNCHANGED <<blob, dates>>
    /\ status' = "APPLYING"
    /\ run' = [by |-> "hand", due |-> "apply", at |-> Never, alive |-> TRUE]
    /\ UNCHANGED <<now, rows, done, tick, confirm, moves, troubles>>

HandRevert ==
    /\ presses < MaxPresses /\ presses' = presses + 1
    /\ run = NoRun /\ status \in Live
    /\ status' = "REVERTING"
    /\ run' = [by |-> "hand", due |-> "revert", at |-> Never, alive |-> TRUE]
    /\ UNCHANGED <<now, blob, dates, rows, done, tick, confirm, moves, troubles>>

HandEnds ==
    /\ run.by = "hand"
    /\ \/ status' = IF run.due = "apply" THEN "ACTIVE" ELSE "COMPLETED"
       \/ status' = "PARTIAL"
    /\ run' = NoRun
    /\ UNCHANGED <<now, blob, dates, rows, done, tick, page, troubles>>

Hold ==
    /\ \/ status = "ACTIVE" /\ status' = "HELD"
       \/ status = "HELD" /\ status' = "ACTIVE"
    /\ UNCHANGED <<now, blob, dates, rows, done, run, tick, page, troubles>>

(* A start confirmed on the page: the blob is read, and written back whole. *)
ConfirmStart ==
    /\ IF confirm # <<>>
       THEN blob' = confirm[1] /\ confirm' = <<>> /\ UNCHANGED presses
       ELSE /\ status # "CANCELLED"
            /\ presses < MaxPresses /\ presses' = presses + 1
            /\ confirm' = IF Overlaps THEN <<blob>> ELSE <<>>
            /\ UNCHANGED blob
    /\ UNCHANGED <<now, status, dates, rows, done, run, tick, moves, troubles>>

Passes ==
    /\ now < Horizon /\ now' = now + 1
    /\ UNCHANGED <<status, blob, dates, rows, done, run, tick, page, troubles>>

-----------------------------------------------------------------------------
Works(w) == List(w) \/ Pick(w) \/ Claim(w) \/ Note(w) \/ Release(w) \/ Begin(w) \/ Finish(w) \/ After(w)

Next ==
    \/ \E w \in Workers : Works(w) \/ NoSession(w) \/ Refuse(w) \/ Fail(w)
    \/ \E win \in Windows : Reschedule(win) \/ KeepTypedTimes(win)
    \/ Reap \/ Unschedule \/ HandApply \/ HandRevert \/ HandEnds \/ Hold \/ ConfirmStart \/ Passes

Fairness == /\ \A w \in Workers : WF_vars(Works(w))
            /\ WF_vars(Reap) /\ WF_vars(HandEnds)

Spec == Init /\ [][Next]_vars /\ Fairness

-----------------------------------------------------------------------------
TickType == [stage : Stages, due : Transitions \cup {"none"}, at : 0 .. Horizon, n : 0 .. MaxAttempts,
             from : States \cup {"none"}, read : {<<>>} \cup {<<b>> : b \in Blobs}]

(* Every variable has its type; no tick has picked an attempt past the last. *)
TypeOK ==
    /\ now \in 0 .. Horizon /\ status \in States
    /\ blob \in Blobs /\ dates \in Windows \cup {Manual}
    /\ rows \in [Occurrences -> Nat] /\ done \subseteq Occurrences
    /\ run \in [by : Workers \cup {"nobody", "hand"}, due : Transitions \cup {"none"},
                at : 0 .. Horizon, alive : BOOLEAN]
    /\ tick \in [Workers -> TickType]
    /\ confirm \in {<<>>} \cup {<<b>> : b \in Blobs}
    /\ moves \in 0 .. MaxMoves /\ presses \in 0 .. MaxPresses /\ troubles \in 0 .. MaxTroubles

(* A sale still on past its revert moment. *)
Overdue ==
    /\ blob.win # Manual /\ now >= RevertMoment(blob.win)
    /\ status \in Live \cup Claims
    /\ rows[<<"revert", blob.win.end>>] < MaxAttempts

(* A start whose window is open. *)
Awaited ==
    /\ blob.win # Manual /\ now >= blob.win.start /\ now < RevertMoment(blob.win)
    /\ status \in {"SCHEDULED", "APPLYING"} /\ ~StartRefusal(blob)
    /\ rows[<<"apply", blob.win.start>>] < MaxAttempts

(* What is due is done, or refused for good, or its attempts are used up. *)
RunsByItself == (Overdue ~> ~Overdue) /\ (Awaited ~> ~Awaited)

(* A change of dates and a tick's claim meet: whichever comes first wins, so
   no tick claims for a date the campaign no longer has
   (schedule-control.server.ts:9-11). *)
NoOldDates ==
    [][\A w \in Workers :
        tick[w].stage = "picked" /\ tick'[w].stage = "claimed"
          => tick[w].at = OccurrenceOf(blob.win, tick[w].due)]_vars
=============================================================================
