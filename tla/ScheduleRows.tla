---------------------------- MODULE ScheduleRows ----------------------------
(* What a reader of a campaign's window and of its scheduled runs is promised.
   Schedule has whose ticks and pages write them. *)
EXTENDS Integers

CONSTANTS
    MaxAttempts,  \* MAX_ATTEMPTS
    Horizon       \* the last instant (a bound for TLC)

VARIABLES
    blob,      \* Campaign.schedule: its window, and the start refused for good
    dates,     \* the window as Campaign.startAt and endAt have it
    rows,      \* how many runs each occurrence of each transition has
    done       \* the occurrences with a run that completed (history)

Instants    == 1 .. Horizon
Transitions == {"apply", "revert"}
Occurrences == Transitions \X Instants

(* A start that has completed is never run again, however old the list a tick
   works from (claimForSchedule); and no occurrence has more runs than attempts,
   whichever ticks picked the same attempt, one long before the other
   (nextAttemptKey and the unique index on the occurrence's key). *)
StartedOnce ==
    [][\A o \in Occurrences : /\ rows'[o] <= MaxAttempts
                              /\ o[1] = "apply" /\ o \in done => rows'[o] = rows[o]]_<<rows, done>>

(* The dates the scheduler reads are the dates last set: no tick that writes
   its mark into the blob brings back a window moved meanwhile. *)
DatesStand == blob.win = dates
=============================================================================
