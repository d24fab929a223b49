---------------------------- MODULE WebhookQueue ----------------------------
(* One shop's products webhooks: persisted by the web process, drained by the
   worker.

   The route writes a delivery's row and asks for the shop's job; the job's drain
   reads the oldest waiting rows, takes each product's together, handles the
   newest and settles all it read.  BullMQ keeps one job to a shop: one waiting
   absorbs every later ring, one at work stores a successor.  The tick rings a
   shop whose rows have waited.

   A delivery is its product and its stamp; handling it is one step, whose own
   races are MirrorVersions' and DriftHold's.  A drain at one row may throw, the
   database may go away under it, its worker may die, a ring or Redis may be lost. *)
EXTENDS Integers, Sequences, FiniteSets

CONSTANTS
    Products,
    Workers,
    MaxStamp,       \* the newest updated_at
    Mail,           \* what Shopify may send: pairs of a product and a stamp
    Turn,           \* DRAIN_TURN
    MaxTries,       \* MAX_PROCESS_ATTEMPTS
    JobTries,       \* the webhooks queue's attempts
    Weak,           \* which of the gaps below can happen
    MaxDeliveries,  \* bounds for TLC, none of them in the code: deliveries, and
    MaxTroubles     \* repeats, throws, losses with Redis and deaths, all together

(* "between": a drain stops between setting aside the delivery that failed and
   those it was read with.  "reopened": a delivery that was set aside is sent
   again.  "stalled": a job is taken for lost, or lost with Redis, while its
   drain goes on.  "sibling": a delivery without a stamp, or one of several with
   the newest, fails for good. *)
Gaps == {"between", "reopened", "stalled", "sibling"}

ASSUME WeakAssumption == Weak \subseteq Gaps
ASSUME MailAssumption == Mail \subseteq Products \X (0 .. MaxStamp + 1)
ASSUME LimitsAssumption == /\ Turn \in Nat \ {0} /\ MaxTries \in Nat \ {0} /\ JobTries \in Nat \ {0}
                           /\ MaxStamp \in Nat \ {0}
ASSUME BoundsAssumption == MaxDeliveries \in Nat /\ MaxTroubles \in Nat
ASSUME WorkersAssumption == "nobody" \notin Workers

VARIABLES
    rows,     \* webhook_events in the order received
    unrung,   \* persisted deliveries whose job is not yet asked for
    job,      \* the shop's job on the webhooks queue
    drain,    \* what each worker's drain has read
    handled,  \* deliveries handled, in order (history)
    beside,   \* for each delivery, those newer it was ever read with (history)
    lost,     \* a ring, a job or its attempts were lost (history)
    troubles  \* repeats, throws, losses and deaths so far, for the bound

vars == <<rows, unrung, job, drain, handled, beside, lost, troubles>>

Undated  == 0
Deletion == MaxStamp + 1
Stamps   == Undated .. Deletion
Statuses == {"RECEIVED", "PROCESSED", "FAILED"}
Ids      == 1 .. MaxDeliveries

NoJob  == [state |-> "none", worker |-> "nobody", tries |-> 0, next |-> FALSE]
Fresh  == [NoJob EXCEPT !.state = "waiting"]
Idle   == [stage |-> "idle", todo |-> {}, full |-> FALSE, read |-> {}, left |-> {}]

Init ==
    /\ rows = <<>> /\ unrung = {}
    /\ job = NoJob
    /\ drain = [w \in Workers |-> Idle]
    /\ handled = {} /\ beside = [i \in Ids |-> {}]
    /\ lost = FALSE
    /\ troubles = 0

Trouble == troubles < MaxTroubles /\ troubles' = troubles + 1

Waiting == {i \in DOMAIN rows : rows[i].status = "RECEIVED"}

-----------------------------------------------------------------------------
(* BullMQ: one job to a shop. *)

(* Mutant: a job at work absorbs a ring as a waiting one does. *)
RungAbsorbed == IF job.state = "none" THEN Fresh ELSE job

Rung == IF job.state = "active" THEN [job EXCEPT !.next = TRUE]
        ELSE IF job.state = "waiting" THEN job ELSE Fresh

Over(j) == IF j.next THEN Fresh ELSE NoJob

(* A drain that throws is tried again after a while, so many times. *)
Retried(w) ==
    IF job.worker # w THEN UNCHANGED <<job, lost>>
    ELSE IF job.tries + 1 < JobTries
         THEN /\ job' = [job EXCEPT !.state = "waiting", !.worker = "nobody", !.tries = @ + 1]
              /\ UNCHANGED lost
         ELSE job' = Over(job) /\ lost' = TRUE

-----------------------------------------------------------------------------
(* The route. *)

Persist(product, stamp) ==
    /\ Len(rows) < MaxDeliveries
    /\ rows' = Append(rows, [product |-> product, stamp |-> stamp, status |-> "RECEIVED", tries |-> 0])
    /\ unrung' = unrung \cup {Len(rows) + 1}
    /\ UNCHANGED <<job, drain, handled, beside, lost, troubles>>

(* Sent again: a row set aside is taken up anew, any other stays as it is; one
   still to be handled is rung for once more. *)
Redeliver(i) ==
    /\ rows[i].status = "FAILED" => "reopened" \in Weak
    /\ Trouble
    /\ rows' = IF rows[i].status = "FAILED"
               THEN [rows EXCEPT ![i].status = "RECEIVED", ![i].tries = 0] ELSE rows
    /\ unrung' = IF rows'[i].status = "RECEIVED" THEN unrung \cup {i} ELSE unrung
    /\ UNCHANGED <<job, drain, handled, beside, lost>>

Ring(i) ==
    /\ job' = Rung
    /\ unrung' = unrung \ {i}
    /\ UNCHANGED <<rows, drain, handled, beside, lost, troubles>>

(* Redis does not take the job within the second the route waits, or the web
   process dies before it asks. *)
RingLost(i) ==
    /\ Trouble
    /\ unrung' = unrung \ {i}
    /\ lost' = TRUE
    /\ UNCHANGED <<rows, job, drain, handled, beside>>

(* Redis restarts without its data. *)
JobLost ==
    /\ job.state # "none"
    /\ job.state = "active" => "stalled" \in Weak
    /\ Trouble
    /\ job' = NoJob /\ lost' = TRUE
    /\ UNCHANGED <<rows, unrung, drain, handled, beside>>

(* Mutant: a delivery already tried is taken to have a job. *)
RingUntried ==
    /\ \E i \in Waiting \ unrung : rows[i].tries = 0
    /\ job' = Rung
    /\ UNCHANGED <<rows, unrung, drain, handled, beside, lost, troubles>>

(* The tick: any shop with a delivery waiting for two minutes, long after the
   route has rung for it or given up. *)
RingStranded ==
    /\ Waiting \ unrung # {}
    /\ job' = Rung
    /\ UNCHANGED <<rows, unrung, drain, handled, beside, lost, troubles>>

-----------------------------------------------------------------------------
(* The drain. *)

Firsts(ids, n) == {i \in ids : Cardinality({j \in ids : j < i}) < n}

(* The oldest waiting rows, for their products; a turn is full when there were as many. *)
Take(w) ==
    /\ job.state = "waiting" /\ drain[w] = Idle
    /\ job' = [job EXCEPT !.state = "active", !.worker = w]
    /\ drain' = [drain EXCEPT ![w] = [Idle EXCEPT !.stage = "turn", !.todo = Firsts(Waiting, Turn),
                                                  !.full = Cardinality(Waiting) >= Turn]]
    /\ UNCHANGED <<rows, unrung, handled, beside, lost, troubles>>

Newer(i, j) == rows[i].stamp > rows[j].stamp /\ rows[j].stamp # Undated

Same(i, j) == rows[i].product = rows[j].product

(* Which of a product's waiting deliveries are handled: the first delete alone, else
   those without a stamp and all with the newest. *)
Coalesced(ids) ==
    LET deletes == {i \in ids : rows[i].stamp = Deletion}
        undated == {i \in ids : rows[i].stamp = Undated}
        latest  == {i \in ids \ undated : \A j \in ids : ~Newer(j, i)}
    IN  IF deletes # {} THEN {i \in deletes : \A j \in deletes : i <= j} ELSE undated \cup latest

(* Those without a stamp come before the others, and each in the order they arrived. *)
Earlier(i, j) == IF rows[i].stamp = Undated THEN rows[j].stamp # Undated \/ i <= j
                                            ELSE rows[j].stamp # Undated /\ i <= j

NextOf(ids) == {i \in ids : \A j \in ids : Earlier(i, j)}

Read(w) ==
    /\ drain[w].stage = "turn"
    /\ \E i \in drain[w].todo :
          /\ \A j \in drain[w].todo : i <= j
          /\ LET waiting == {j \in Waiting : Same(i, j)}
             IN  /\ drain' = [drain EXCEPT ![w].todo = {j \in @ : ~Same(i, j)},
                                  ![w].stage = IF waiting = {} THEN "turn" ELSE "handle",
                                  ![w].read = waiting,
                                  ![w].left = Coalesced(waiting)]
                 /\ beside' = [j \in Ids |-> beside[j] \cup
                                  IF j \in waiting THEN {k \in waiting : Newer(k, j)} ELSE {}]
    /\ UNCHANGED <<rows, unrung, job, handled, lost, troubles>>

Settled(ids, status) ==
    [i \in DOMAIN rows |-> IF i \in ids /\ rows[i].status = "RECEIVED"
                           THEN [rows[i] EXCEPT !.status = status] ELSE rows[i]]

NextProduct(w) == [drain EXCEPT ![w].stage = "turn", ![w].read = {}, ![w].left = {}]

Handle(w) ==
    /\ drain[w].stage = "handle"
    /\ \E i \in NextOf(drain[w].left) :
          /\ handled' = handled \cup {i}
          /\ drain' = [drain EXCEPT ![w].left = @ \ {i}]
    /\ UNCHANGED <<rows, unrung, job, beside, lost, troubles>>

Settle(w) ==
    /\ drain[w].stage = "handle" /\ drain[w].left = {}
    /\ rows' = Settled(drain[w].read, "PROCESSED")
    /\ drain' = NextProduct(w)
    /\ UNCHANGED <<unrung, job, handled, beside, lost, troubles>>

(* A delivery that throws is counted; at the last count it is set aside, the others left
   as they are, and otherwise the job is tried again. *)
SetBack(w) ==
    /\ drain[w].stage = "handle"
    /\ \E i \in NextOf(drain[w].left) :
          /\ rows' = [rows EXCEPT ![i].tries = @ + 1]
          /\ IF rows[i].tries + 1 >= MaxTries
             THEN /\ "sibling" \in Weak \/ \A j \in drain[w].read \ {i} : Newer(i, j) \/ j \in handled
                  /\ drain' = [drain EXCEPT ![w].stage = "failed", ![w].left = {i}]
                  /\ UNCHANGED <<job, lost>>
             ELSE /\ drain' = [drain EXCEPT ![w] = Idle]
                  /\ Retried(w)
    /\ Trouble
    /\ UNCHANGED <<unrung, handled, beside>>

SetAside(w) ==
    /\ drain[w].stage = "failed"
    /\ rows' = Settled(drain[w].left, "FAILED")
    /\ drain' = [drain EXCEPT ![w].stage = "rest"]
    /\ UNCHANGED <<unrung, job, handled, beside, lost, troubles>>

(* Mutants: the older deliveries are left to wait; those that came since are set
   aside with them. *)
SetAsideAlone(w) ==
    /\ drain[w].stage = "rest"
    /\ drain' = NextProduct(w)
    /\ UNCHANGED <<rows, unrung, job, handled, beside, lost, troubles>>

SetAsideAll(w) ==
    /\ drain[w].stage = "rest"
    /\ rows' = Settled({i \in DOMAIN rows : \E j \in drain[w].read :
                            rows[i].product = rows[j].product}, "FAILED")
    /\ drain' = NextProduct(w)
    /\ UNCHANGED <<unrung, job, handled, beside, lost, troubles>>

SetAsideRest(w) ==
    /\ drain[w].stage = "rest"
    /\ rows' = Settled(drain[w].read \ drain[w].left, "FAILED")
    /\ drain' = NextProduct(w)
    /\ UNCHANGED <<unrung, job, handled, beside, lost, troubles>>

(* A full turn asks for another, stored as the successor of the job it is. *)
Finish(w) ==
    /\ drain[w].stage = "turn" /\ drain[w].todo = {}
    /\ LET asked == IF drain[w].full THEN Rung ELSE job
       IN  job' = IF job.worker = w THEN Over(asked) ELSE asked
    /\ drain' = [drain EXCEPT ![w] = Idle]
    /\ UNCHANGED <<rows, unrung, handled, beside, lost, troubles>>

CanStop(w) == /\ drain[w] # Idle
              /\ drain[w].stage = "rest" => "between" \in Weak

(* The database goes away under a query: no attempt is counted on any row. *)
DatabaseAway(w) ==
    /\ CanStop(w)
    /\ Trouble
    /\ drain' = [drain EXCEPT ![w] = Idle]
    /\ Retried(w)
    /\ UNCHANGED <<rows, unrung, handled, beside>>

(* The worker dies, or its job's lock lapses while the drain goes on: the job,
   stalled, waits again, or is given up the second time. *)
Dies(w) ==
    /\ CanStop(w)
    /\ Trouble
    /\ drain' \in {[drain EXCEPT ![w] = Idle]} \cup (IF "stalled" \in Weak THEN {drain} ELSE {})
    /\ IF job.worker # w THEN UNCHANGED <<job, lost>>
       ELSE \/ /\ job' = [job EXCEPT !.state = "waiting", !.worker = "nobody"]
               /\ UNCHANGED lost
            \/ job' = Over(job) /\ lost' = TRUE
    /\ UNCHANGED <<rows, unrung, handled, beside>>

-----------------------------------------------------------------------------
Shopify == \/ \E mail \in Mail : Persist(mail[1], mail[2])
           \/ \E i \in DOMAIN rows : Redeliver(i)

Route(i) == Ring(i) \/ RingLost(i)

Drain(w) == \/ Read(w) \/ Handle(w) \/ Settle(w) \/ SetBack(w)
            \/ SetAside(w) \/ SetAsideRest(w) \/ Finish(w)

Next == \/ Shopify \/ RingStranded \/ JobLost
        \/ \E i \in unrung : Route(i)
        \/ \E w \in Workers : Take(w) \/ Drain(w) \/ DatabaseAway(w) \/ Dies(w)

(* The worker takes waiting jobs and goes on with a drain it began, and its tick
   recurs: a process that died is started again. *)
Fairness == /\ WF_vars(\E i \in unrung : Route(i))
            /\ WF_vars(RingStranded)
            /\ WF_vars(\E w \in Workers : Take(w))
            /\ \A w \in Workers : WF_vars(Drain(w))

Spec == Init /\ [][Next]_vars /\ Fairness

-----------------------------------------------------------------------------
Row   == [product : Products, stamp : Stamps, status : Statuses, tries : Nat]
Turns == [stage : {"idle", "turn", "handle", "failed", "rest"}, todo : SUBSET Ids, full : BOOLEAN,
          read : SUBSET Ids, left : SUBSET Ids]

TypeOK ==
    /\ rows \in Seq(Row) /\ Len(rows) <= MaxDeliveries
    /\ unrung \subseteq DOMAIN rows /\ handled \subseteq DOMAIN rows
    /\ job \in [state : {"none", "waiting", "active"}, worker : Workers \cup {"nobody"},
                tries : 0 .. JobTries - 1, next : BOOLEAN]
    /\ drain \in [Workers -> Turns]
    /\ \A w \in Workers : drain[w].read \cup drain[w].todo \subseteq DOMAIN rows
                          /\ drain[w].left \subseteq drain[w].read
    /\ beside \in [Ids -> SUBSET Ids]
    /\ lost \in BOOLEAN
    /\ troubles \in 0 .. MaxTroubles

(* No delivery is forgotten: unless a ring, a job or its attempts were lost, one
   that waits has its job waiting, at work or about to be asked for, whatever
   arrived while the drain was reading. *)
NothingForgotten == ~lost /\ job.state = "none" /\ unrung = {} => Waiting = {}

(* Nothing is recorded as handled that was not, itself or by a newer delivery of its
   product (a delete is newer than all); and a delivery is given up only when it failed
   every try, or a newer one of its product did, or when it was handled. *)
EveryDeliveryCounts ==
    \A i \in DOMAIN rows :
        /\ rows[i].status = "PROCESSED" =>
              \E j \in handled : /\ rows[j].product = rows[i].product
                                 /\ j = i \/ Newer(j, i) \/ rows[j].stamp = Deletion
        /\ rows[i].status = "FAILED" =>
              \/ rows[i].tries >= MaxTries \/ i \in handled
              \/ \E j \in DOMAIN rows : rows[j].product = rows[i].product
                                        /\ rows[j].tries >= MaxTries /\ Newer(j, i)

(* A delivery that waited beside a newer one is never handled once the newer was
   settled: an older version of the product is not put over it by the queue. *)
OlderNeverFollows ==
    [][\A i \in DOMAIN rows : i \in handled' \ handled =>
           \A j \in beside[i] : rows[j].status = "RECEIVED"]_vars

(* What waits is handled or set aside in the end, whatever was lost, threw or
   died on the way: once deliveries stop arriving the shop has none waiting. *)
EventuallySettled == Waiting # {} ~> Waiting = {}
=============================================================================
