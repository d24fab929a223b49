------------------------ MODULE WebhookQueue_proofs ------------------------
(* Proofs about WebhookQueue, for any products, workers, mail, turns and tries,
   and, after them, about MirrorVersions, the mirror those deliveries are
   written to.  The second is an instance with variables of its own: nothing
   of the one is used of the other. *)
EXTENDS WebhookQueue, MirrorTables, TLAPS, FiniteSetTheorems, SequenceTheorems, WellFoundedInduction

----------------------------------------------------------------------------
(* The rows. *)

(* A row keeps what it was received with. *)
Keeps(i) == rows'[i].product = rows[i].product /\ rows'[i].stamp = rows[i].stamp

(* The rows are numbered in the order received, and each has its fields. *)
LEMMA RowsAreRows ==
    ASSUME TypeOK
    PROVE  /\ Len(rows) \in Nat /\ DOMAIN rows = 1 .. Len(rows) /\ DOMAIN rows \subseteq Ids
           /\ \A i \in DOMAIN rows : rows[i] \in Row
  <1>1. rows \in Seq(Row) /\ Len(rows) <= MaxDeliveries  BY DEF TypeOK
  <1>2. /\ Len(rows) \in Nat /\ DOMAIN rows = 1 .. Len(rows)
        /\ \A i \in 1 .. Len(rows) : rows[i] \in Row
    BY <1>1, LenProperties, ElementOfSeq
  <1> QED  BY <1>1, <1>2, BoundsAssumption DEF Ids

(* A delivery's row goes last; the rest stay as they are. *)
LEMMA PersistRows ==
    ASSUME TypeOK, NEW mail \in Mail, Persist(mail[1], mail[2])
    PROVE  /\ rows' \in Seq(Row) /\ Len(rows') = Len(rows) + 1 /\ Len(rows') <= MaxDeliveries
           /\ DOMAIN rows' = DOMAIN rows \cup {Len(rows) + 1} /\ Len(rows) + 1 \notin DOMAIN rows
           /\ \A i \in DOMAIN rows : rows'[i] = rows[i]
           /\ rows'[Len(rows) + 1].status = "RECEIVED"
  <1> DEFINE new == [product |-> mail[1], stamp |-> mail[2], status |-> "RECEIVED", tries |-> 0]
  <1>1. rows \in Seq(Row)  BY DEF TypeOK
  <1>2. new \in Row
    <2>1. mail[1] \in Products /\ mail[2] \in 0 .. MaxStamp + 1  BY MailAssumption
    <2> QED  BY <2>1 DEF Row, Stamps, Statuses, Undated, Deletion
  <1>3. rows' = Append(rows, new) /\ Len(rows) < MaxDeliveries  BY DEF Persist
  <1> HIDE DEF new
  <1>4. /\ rows' \in Seq(Row) /\ Len(rows') = Len(rows) + 1 /\ Len(rows) \in Nat
        /\ \A i \in 1 .. Len(rows) : rows'[i] = rows[i]
        /\ rows'[Len(rows) + 1] = new
    BY <1>1, <1>2, <1>3, LenProperties
  <1>5. DOMAIN rows = 1 .. Len(rows) /\ DOMAIN rows' = 1 .. Len(rows')
    BY <1>1, <1>4, LenProperties
  <1>6. new.status = "RECEIVED"  BY DEF new
  <1> QED  BY <1>3, <1>4, <1>5, <1>6, BoundsAssumption

(* A row taken up anew. *)
LEMMA RedeliverRows ==
    ASSUME TypeOK, NEW r \in DOMAIN rows, Redeliver(r)
    PROVE  /\ rows' \in Seq(Row) /\ Len(rows') = Len(rows) /\ DOMAIN rows' = DOMAIN rows
           /\ \A i \in DOMAIN rows :
                 /\ Keeps(i)
                 /\ rows[r].status # "FAILED" \/ i # r => rows'[i] = rows[i]
                 /\ rows[r].status = "FAILED" => rows'[r].status = "RECEIVED" /\ rows'[r].tries = 0
  <1>1. /\ rows \in Seq(Row) /\ DOMAIN rows = 1 .. Len(rows)
        /\ \A i \in DOMAIN rows : rows[i] \in Row
    BY RowsAreRows DEF TypeOK
  <1> DEFINE new == [rows[r] EXCEPT !.status = "RECEIVED", !.tries = 0]
  <1>2. new \in Row  BY <1>1 DEF Row, Statuses
  <1>3. rows' = IF rows[r].status = "FAILED" THEN [rows EXCEPT ![r] = new] ELSE rows
    <2>1. [rows EXCEPT ![r].status = "RECEIVED", ![r].tries = 0] = [rows EXCEPT ![r] = new]
      BY <1>1 DEF Row
    <2> QED  BY <2>1 DEF Redeliver
  <1> HIDE DEF new
  <1>4. /\ [rows EXCEPT ![r] = new] \in Seq(Row) /\ Len([rows EXCEPT ![r] = new]) = Len(rows)
        /\ \A i \in DOMAIN rows : [rows EXCEPT ![r] = new][i] = IF i = r THEN new ELSE rows[i]
    BY <1>1, <1>2, ExceptSeq
  <1>5. rows' \in Seq(Row) /\ Len(rows') = Len(rows)  BY <1>1, <1>3, <1>4
  <1>6. DOMAIN rows' = DOMAIN rows  BY <1>1, <1>5, LenProperties
  <1>7. \A i \in DOMAIN rows :
           rows'[i] = IF i = r /\ rows[r].status = "FAILED" THEN new ELSE rows[i]
    BY <1>3, <1>4
  <1>8. /\ new.product = rows[r].product /\ new.stamp = rows[r].stamp
        /\ new.status = "RECEIVED" /\ new.tries = 0
    BY <1>1 DEF new, Row
  <1> QED  BY <1>5, <1>6, <1>7, <1>8 DEF Keeps

(* A try counted. *)
LEMMA CountedRows ==
    ASSUME TypeOK, NEW f \in DOMAIN rows, rows' = [rows EXCEPT ![f].tries = @ + 1]
    PROVE  /\ rows' \in Seq(Row) /\ Len(rows') = Len(rows) /\ DOMAIN rows' = DOMAIN rows
           /\ \A i \in DOMAIN rows :
                 /\ Keeps(i) /\ rows'[i].status = rows[i].status
                 /\ rows'[i].tries = IF i = f THEN rows[i].tries + 1 ELSE rows[i].tries
  <1>1. /\ rows \in Seq(Row) /\ DOMAIN rows = 1 .. Len(rows)
        /\ \A i \in DOMAIN rows : rows[i] \in Row
    BY RowsAreRows DEF TypeOK
  <1> DEFINE new == [rows[f] EXCEPT !.tries = rows[f].tries + 1]
  <1>2. new \in Row  BY <1>1 DEF Row
  <1>3. rows' = [rows EXCEPT ![f] = new]  BY <1>1 DEF Row
  <1> HIDE DEF new
  <1>4. /\ rows' \in Seq(Row) /\ Len(rows') = Len(rows)
        /\ \A i \in DOMAIN rows : rows'[i] = IF i = f THEN new ELSE rows[i]
    BY <1>1, <1>2, <1>3, ExceptSeq
  <1>6. DOMAIN rows' = DOMAIN rows  BY <1>1, <1>4, LenProperties
  <1>8. /\ new.product = rows[f].product /\ new.stamp = rows[f].stamp
        /\ new.status = rows[f].status /\ new.tries = rows[f].tries + 1
    BY <1>1 DEF new, Row
  <1> QED  BY <1>4, <1>6, <1>8 DEF Keeps

(* Rows settled. *)
LEMMA SettledRows ==
    ASSUME TypeOK, NEW ids, NEW s \in Statuses, rows' = Settled(ids, s)
    PROVE  /\ rows' \in Seq(Row) /\ Len(rows') = Len(rows) /\ DOMAIN rows' = DOMAIN rows
           /\ \A i \in DOMAIN rows :
                 /\ Keeps(i) /\ rows'[i].tries = rows[i].tries
                 /\ rows'[i].status = IF i \in ids /\ rows[i].status = "RECEIVED" THEN s
                                      ELSE rows[i].status
  <1>1. /\ rows \in Seq(Row) /\ DOMAIN rows = 1 .. Len(rows) /\ Len(rows) \in Nat
        /\ \A i \in DOMAIN rows : rows[i] \in Row
    BY RowsAreRows DEF TypeOK
  <1>2. \A i \in DOMAIN rows : [rows[i] EXCEPT !.status = s] \in Row  BY <1>1 DEF Row
  <1>3. /\ DOMAIN rows' = 1 .. Len(rows)
        /\ \A i \in DOMAIN rows :
              rows'[i] = IF i \in ids /\ rows[i].status = "RECEIVED"
                         THEN [rows[i] EXCEPT !.status = s] ELSE rows[i]
    BY <1>1 DEF Settled
  <1>4. rows' \in [1 .. Len(rows) -> Row]
    <2>1. \A i \in 1 .. Len(rows) : rows'[i] \in Row  BY <1>1, <1>2, <1>3
    <2>2. rows' = [i \in 1 .. Len(rows) |-> rows'[i]]  BY <1>1 DEF Settled
    <2> QED  BY <2>1, <2>2
  <1>5. rows' \in Seq(Row) /\ Len(rows') = Len(rows)  BY <1>1, <1>4
  <1>6. \A i \in DOMAIN rows :
           LET new == [rows[i] EXCEPT !.status = s]
           IN  /\ new.product = rows[i].product /\ new.stamp = rows[i].stamp
               /\ new.tries = rows[i].tries /\ new.status = s
    BY <1>1 DEF Row
  <1> QED  BY <1>1, <1>3, <1>5, <1>6 DEF Keeps

----------------------------------------------------------------------------
(* Types. *)

Jobs == [state : {"none", "waiting", "active"}, worker : Workers \cup {"nobody"},
         tries : 0 .. JobTries - 1, next : BOOLEAN]

LEMMA JobsAreJobs ==
    ASSUME job \in Jobs
    PROVE  /\ NoJob \in Jobs /\ Rung \in Jobs
           /\ \A j \in Jobs : Over(j) \in Jobs
           /\ \A w \in Workers : [job EXCEPT !.state = "active", !.worker = w] \in Jobs
           /\ [job EXCEPT !.state = "waiting", !.worker = "nobody"] \in Jobs
           /\ \A w \in Workers : Retried(w) => job' \in Jobs /\ (lost \in BOOLEAN => lost' \in BOOLEAN)
  <1>0. 0 \in 0 .. JobTries - 1  BY LimitsAssumption
  <1>1. NoJob \in Jobs /\ Fresh \in Jobs  BY <1>0 DEF Jobs, NoJob, Fresh
  <1>2. Rung \in Jobs
    <2>1. job.state \in {"none", "waiting", "active"} /\ [job EXCEPT !.next = TRUE] \in Jobs
      BY DEF Jobs
    <2> QED  BY <1>1, <2>1 DEF Rung
  <1>3. \A j \in Jobs : Over(j) \in Jobs  BY <1>1 DEF Over
  <1>4. ASSUME NEW w \in Workers, Retried(w)
        PROVE  job' \in Jobs /\ (lost \in BOOLEAN => lost' \in BOOLEAN)
    <2>1. ASSUME job.tries + 1 < JobTries
          PROVE  [job EXCEPT !.state = "waiting", !.worker = "nobody", !.tries = @ + 1] \in Jobs
      <3>1. job.tries + 1 \in 0 .. JobTries - 1  BY <2>1, LimitsAssumption DEF Jobs
      <3> QED  BY <3>1 DEF Jobs
    <2> QED  BY <1>3, <1>4, <2>1 DEF Retried
  <1>5. /\ \A w \in Workers : [job EXCEPT !.state = "active", !.worker = w] \in Jobs
        /\ [job EXCEPT !.state = "waiting", !.worker = "nobody"] \in Jobs
    BY DEF Jobs
  <1> QED  BY <1>1, <1>2, <1>3, <1>4, <1>5

(* What a drain has at hand. *)
Held(d) == d \in Turns /\ d.read \cup d.todo \subseteq DOMAIN rows /\ d.left \subseteq d.read

LEMMA DrainChanged ==
    ASSUME drain \in [Workers -> Turns], \A w \in Workers : Held(drain[w]),
           NEW w \in Workers, NEW d, Held(d), drain' = [drain EXCEPT ![w] = d]
    PROVE  drain' \in [Workers -> Turns] /\ \A v \in Workers : Held(drain'[v])
  BY DEF Held

(* A drain reads every waiting row of the product of the oldest it has to do. *)
LEMMA ReadDoes ==
    ASSUME TypeOK, NEW w \in Workers, Read(w)
    PROVE  \E i \in drain[w].todo, d \in Turns :
             LET waiting == {j \in Waiting : Same(i, j)}
             IN  /\ drain' = [drain EXCEPT ![w] = d]
                 /\ d.stage = (IF waiting = {} THEN "turn" ELSE "handle")
                 /\ d.todo = {j \in drain[w].todo : ~Same(i, j)} /\ d.full = drain[w].full
                 /\ d.read = waiting /\ d.left = Coalesced(waiting)
                 /\ beside' = [j \in Ids |-> beside[j] \cup
                                  IF j \in waiting THEN {k \in waiting : Newer(k, j)} ELSE {}]
  <1>1. /\ drain \in [Workers -> Turns] /\ \A v \in Workers : Held(drain[v])
        /\ DOMAIN rows \subseteq Ids
    BY RowsAreRows DEF TypeOK, Held
  <1>2. PICK i \in drain[w].todo :
             LET waiting == {j \in Waiting : Same(i, j)}
             IN  /\ drain' = [drain EXCEPT ![w].todo = {j \in @ : ~Same(i, j)},
                                  ![w].stage = IF waiting = {} THEN "turn" ELSE "handle",
                                  ![w].read = waiting,
                                  ![w].left = Coalesced(waiting)]
                 /\ beside' = [j \in Ids |-> beside[j] \cup
                                  IF j \in waiting THEN {k \in waiting : Newer(k, j)} ELSE {}]
    BY DEF Read
  <1> DEFINE waiting == {j \in Waiting : Same(i, j)}
             d == [drain[w] EXCEPT !.todo = {j \in drain[w].todo : ~Same(i, j)},
                                   !.stage = IF waiting = {} THEN "turn" ELSE "handle",
                                   !.read = waiting, !.left = Coalesced(waiting)]
  <1>3. drain' = [drain EXCEPT ![w] = d]  BY <1>1, <1>2 DEF Turns
  <1>4. waiting \subseteq DOMAIN rows /\ waiting \subseteq Ids  BY <1>1 DEF Waiting
  <1>5. Coalesced(waiting) \subseteq waiting  BY DEF Coalesced
  <1>6. beside' = [j \in Ids |-> beside[j] \cup
                     IF j \in waiting THEN {k \in waiting : Newer(k, j)} ELSE {}]
    BY <1>2
  <1>7. /\ d \in Turns /\ d.todo = {j \in drain[w].todo : ~Same(i, j)} /\ d.full = drain[w].full
        /\ d.stage = (IF waiting = {} THEN "turn" ELSE "handle")
        /\ d.read = waiting /\ d.left = Coalesced(waiting)
    <2> HIDE DEF waiting
    <2>1. drain[w] \in Turns /\ drain[w].todo \subseteq DOMAIN rows  BY <1>1 DEF Held
    <2> QED  BY <1>1, <1>4, <1>5, <2>1 DEF Turns
  <1> HIDE DEF d
  <1> QED  BY <1>3, <1>6, <1>7

(* A delivery that throws is counted; its drain goes on to set it aside, or stops. *)
LEMMA SetBackDoes ==
    ASSUME TypeOK, NEW w \in Workers, SetBack(w)
    PROVE  \E f \in drain[w].left :
             /\ f \in drain[w].read /\ f \in DOMAIN rows
             /\ rows' = [rows EXCEPT ![f].tries = @ + 1]
             /\ \/ /\ rows[f].tries + 1 >= MaxTries
                   /\ "sibling" \in Weak \/ \A j \in drain[w].read \ {f} : Newer(f, j) \/ j \in handled
                   /\ \E d \in Turns : /\ drain' = [drain EXCEPT ![w] = d]
                                       /\ d.stage = "failed" /\ d.left = {f} /\ d.read = drain[w].read
                                       /\ d.todo = drain[w].todo /\ d.full = drain[w].full
                   /\ UNCHANGED <<job, lost>>
                \/ /\ drain' = [drain EXCEPT ![w] = Idle]
                   /\ Retried(w)
  <1>1. /\ drain \in [Workers -> Turns] /\ \A v \in Workers : Held(drain[v])
        /\ DOMAIN rows \subseteq Ids
    BY RowsAreRows DEF TypeOK, Held
  <1>2. PICK f \in NextOf(drain[w].left) :
          /\ rows' = [rows EXCEPT ![f].tries = @ + 1]
          /\ IF rows[f].tries + 1 >= MaxTries
             THEN /\ "sibling" \in Weak \/ \A j \in drain[w].read \ {f} : Newer(f, j) \/ j \in handled
                  /\ drain' = [drain EXCEPT ![w].stage = "failed", ![w].left = {f}]
                  /\ UNCHANGED <<job, lost>>
             ELSE /\ drain' = [drain EXCEPT ![w] = Idle]
                  /\ Retried(w)
    BY DEF SetBack
  <1>3. f \in drain[w].left /\ f \in drain[w].read /\ f \in DOMAIN rows
    BY <1>1, <1>2 DEF NextOf, Held
  <1> DEFINE d == [drain[w] EXCEPT !.stage = "failed", !.left = {f}]
  <1>4. /\ d \in Turns /\ d.stage = "failed" /\ d.left = {f} /\ d.read = drain[w].read
        /\ d.todo = drain[w].todo /\ d.full = drain[w].full
    BY <1>1, <1>3 DEF Turns
  <1>5. [drain EXCEPT ![w].stage = "failed", ![w].left = {f}] = [drain EXCEPT ![w] = d]
    BY <1>1 DEF Turns
  <1> HIDE DEF d
  <1> QED  BY <1>2, <1>3, <1>4, <1>5

LEMMA TypeStep ==
    ASSUME TypeOK, [Next]_vars
    PROVE  TypeOK'
  <1>1. /\ Len(rows) \in Nat /\ DOMAIN rows = 1 .. Len(rows) /\ DOMAIN rows \subseteq Ids
        /\ rows \in Seq(Row) /\ Len(rows) <= MaxDeliveries
    BY RowsAreRows DEF TypeOK
  <1>2. /\ job \in Jobs /\ unrung \subseteq DOMAIN rows /\ handled \subseteq DOMAIN rows
        /\ drain \in [Workers -> Turns] /\ \A w \in Workers : Held(drain[w])
        /\ beside \in [Ids -> SUBSET Ids] /\ lost \in BOOLEAN /\ troubles \in 0 .. MaxTroubles
    BY DEF TypeOK, Jobs, Held
  <1>3. Held(Idle)  BY DEF Idle, Turns, Held
  <1>4. Trouble => troubles' \in 0 .. MaxTroubles  BY <1>2, BoundsAssumption DEF Trouble
  <1>5. Waiting \subseteq DOMAIN rows  BY DEF Waiting
  <1>6. ASSUME /\ rows' \in Seq(Row) /\ Len(rows') <= MaxDeliveries /\ DOMAIN rows \subseteq DOMAIN rows'
               /\ unrung' \subseteq DOMAIN rows' /\ handled' \subseteq DOMAIN rows'
               /\ job' \in Jobs /\ beside' \in [Ids -> SUBSET Ids] /\ lost' \in BOOLEAN
               /\ troubles' \in 0 .. MaxTroubles,
               drain' \in [Workers -> Turns] /\ \A v \in Workers : Held(drain'[v])
        PROVE  TypeOK'
    BY <1>6 DEF TypeOK, Jobs, Held
  <1>7. ASSUME NEW w \in Workers, NEW d, Held(d), drain' = [drain EXCEPT ![w] = d]
        PROVE  drain' \in [Workers -> Turns] /\ \A v \in Workers : Held(drain'[v])
    BY <1>2, <1>7, DrainChanged
  <1>8. ASSUME NEW mail \in Mail, Persist(mail[1], mail[2])  PROVE TypeOK'
    <2>1. /\ rows' \in Seq(Row) /\ Len(rows') <= MaxDeliveries
          /\ DOMAIN rows' = DOMAIN rows \cup {Len(rows) + 1}
      BY <1>8, PersistRows
    <2> QED  BY <1>2, <1>6, <1>8, <2>1 DEF Persist
  <1>9. ASSUME NEW r \in DOMAIN rows, Redeliver(r)  PROVE TypeOK'
    <2>1. rows' \in Seq(Row) /\ Len(rows') = Len(rows) /\ DOMAIN rows' = DOMAIN rows
      BY <1>9, RedeliverRows
    <2> QED  BY <1>1, <1>2, <1>4, <1>6, <1>9, <2>1 DEF Redeliver
  <1>10. ASSUME NEW i \in unrung, Route(i)  PROVE TypeOK'
    <2>1. job' \in Jobs  BY <1>2, <1>10, JobsAreJobs DEF Route, Ring, RingLost
    <2> QED  BY <1>1, <1>2, <1>4, <1>6, <1>10, <2>1 DEF Route, Ring, RingLost
  <1>11. ASSUME RingStranded \/ JobLost  PROVE TypeOK'
    <2>1. job' \in Jobs  BY <1>2, <1>11, JobsAreJobs DEF RingStranded, JobLost
    <2> QED  BY <1>1, <1>2, <1>4, <1>6, <1>11, <2>1 DEF RingStranded, JobLost
  <1>12. ASSUME NEW w \in Workers, Take(w)  PROVE TypeOK'
    <2> DEFINE d == [Idle EXCEPT !.stage = "turn", !.todo = Firsts(Waiting, Turn),
                                 !.full = Cardinality(Waiting) >= Turn]
    <2>1. Firsts(Waiting, Turn) \subseteq DOMAIN rows  BY <1>5 DEF Firsts
    <2>2. Held(d)
      <3>1. ASSUME NEW full \in BOOLEAN
            PROVE  Held([Idle EXCEPT !.stage = "turn", !.todo = Firsts(Waiting, Turn), !.full = full])
        BY <1>1, <2>1 DEF Idle, Turns, Held
      <3>2. (Cardinality(Waiting) >= Turn) \in BOOLEAN  OBVIOUS
      <3> QED  BY <3>1, <3>2
    <2>3. job' \in Jobs /\ drain' = [drain EXCEPT ![w] = d]  BY <1>2, <1>12, JobsAreJobs DEF Take
    <2> HIDE DEF d
    <2> QED  BY <1>1, <1>2, <1>6, <1>7, <1>12, <2>2, <2>3 DEF Take
  <1>13. ASSUME NEW w \in Workers, Read(w)  PROVE TypeOK'
    <2>1. PICK i \in drain[w].todo, d \in Turns :
             LET waiting == {j \in Waiting : Same(i, j)}
             IN  /\ drain' = [drain EXCEPT ![w] = d]
                 /\ d.todo = {j \in drain[w].todo : ~Same(i, j)}
                 /\ d.read = waiting /\ d.left = Coalesced(waiting)
                 /\ beside' = [j \in Ids |-> beside[j] \cup
                                  IF j \in waiting THEN {k \in waiting : Newer(k, j)} ELSE {}]
      BY <1>13, ReadDoes
    <2>2. Coalesced(d.read) \subseteq d.read  BY DEF Coalesced
    <2>3. Held(d)  BY <1>2, <1>5, <2>1, <2>2 DEF Held
    <2>4. beside' \in [Ids -> SUBSET Ids]  BY <1>1, <1>2, <1>5, <2>1
    <2> QED  BY <1>1, <1>2, <1>6, <1>7, <1>13, <2>1, <2>3, <2>4 DEF Read
  <1>14. ASSUME NEW w \in Workers, Handle(w)  PROVE TypeOK'
    <2>1. PICK i \in NextOf(drain[w].left) :
             handled' = handled \cup {i} /\ drain' = [drain EXCEPT ![w].left = @ \ {i}]
      BY <1>14 DEF Handle
    <2> DEFINE d == [drain[w] EXCEPT !.left = drain[w].left \ {i}]
    <2>2. drain' = [drain EXCEPT ![w] = d]  BY <1>2, <2>1 DEF Turns
    <2>3. Held(d)  BY <1>2 DEF Held, Turns
    <2>4. handled' \subseteq DOMAIN rows  BY <1>2, <2>1 DEF NextOf, Held
    <2> HIDE DEF d
    <2> QED  BY <1>1, <1>2, <1>6, <1>7, <1>14, <2>2, <2>3, <2>4 DEF Handle
  <1>15. ASSUME NEW w \in Workers, Settle(w) \/ SetAside(w) \/ SetAsideRest(w)  PROVE TypeOK'
    <2>1. \E ids, s : s \in Statuses /\ rows' = Settled(ids, s)
      BY <1>15 DEF Settle, SetAside, SetAsideRest, Statuses
    <2>2. rows' \in Seq(Row) /\ Len(rows') = Len(rows) /\ DOMAIN rows' = DOMAIN rows
      BY <2>1, SettledRows
    <2> DEFINE d == [drain[w] EXCEPT !.stage = "turn", !.read = {}, !.left = {}]
               e == [drain[w] EXCEPT !.stage = "rest"]
    <2>3. drain' = [drain EXCEPT ![w] = d] \/ drain' = [drain EXCEPT ![w] = e]
      BY <1>2, <1>15 DEF Settle, SetAside, SetAsideRest, NextProduct, Turns
    <2>4. Held(d) /\ Held(e)  BY <1>2 DEF Held, Turns
    <2> HIDE DEF d, e
    <2> QED  BY <1>1, <1>2, <1>6, <1>7, <1>15, <2>2, <2>3, <2>4 DEF Settle, SetAside, SetAsideRest
  <1>16. ASSUME NEW w \in Workers, SetBack(w)  PROVE TypeOK'
    <2>1. PICK f \in DOMAIN rows :
             /\ f \in drain[w].read
             /\ rows' = [rows EXCEPT ![f].tries = @ + 1]
             /\ \/ /\ UNCHANGED <<job, lost>>
                   /\ \E d \in Turns : /\ drain' = [drain EXCEPT ![w] = d] /\ d.left = {f}
                                       /\ d.read = drain[w].read /\ d.todo = drain[w].todo
                \/ drain' = [drain EXCEPT ![w] = Idle] /\ Retried(w)
      BY <1>16, SetBackDoes
    <2>2. rows' \in Seq(Row) /\ Len(rows') = Len(rows) /\ DOMAIN rows' = DOMAIN rows
      BY <2>1, CountedRows
    <2>3. job' \in Jobs /\ lost' \in BOOLEAN  BY <1>2, <2>1, JobsAreJobs
    <2>4. \E d : drain' = [drain EXCEPT ![w] = d] /\ Held(d)  BY <1>2, <1>3, <2>1 DEF Held
    <2> QED  BY <1>1, <1>2, <1>4, <1>6, <1>7, <1>16, <2>2, <2>3, <2>4 DEF SetBack
  <1>17. ASSUME NEW w \in Workers, Finish(w)  PROVE TypeOK'
    <2>1. job' \in Jobs /\ drain' = [drain EXCEPT ![w] = Idle]
      BY <1>2, <1>17, JobsAreJobs DEF Finish
    <2> QED  BY <1>1, <1>2, <1>3, <1>6, <1>7, <1>17, <2>1 DEF Finish
  <1>18. ASSUME NEW w \in Workers, DatabaseAway(w) \/ Dies(w)  PROVE TypeOK'
    <2>1. drain' = [drain EXCEPT ![w] = Idle] \/ drain' = drain
      BY <1>18 DEF DatabaseAway, Dies
    <2>2. job' \in Jobs /\ lost' \in BOOLEAN
      BY <1>2, <1>18, JobsAreJobs DEF DatabaseAway, Dies
    <2> QED  BY <1>1, <1>2, <1>3, <1>4, <1>6, <1>7, <1>18, <2>1, <2>2 DEF DatabaseAway, Dies, Held
  <1>19. CASE UNCHANGED vars  BY <1>19 DEF vars, TypeOK
  <1> QED
    BY <1>8, <1>9, <1>10, <1>11, <1>12, <1>13, <1>14, <1>15, <1>16, <1>17, <1>18, <1>19
    DEF Next, Shopify, Drain

LEMMA TypeInit == Init => TypeOK
  <1> SUFFICES ASSUME Init  PROVE TypeOK
    OBVIOUS
  <1>1. rows \in Seq(Row) /\ Len(rows) = 0  BY EmptySeq DEF Init
  <1>2. job \in [state : {"none", "waiting", "active"}, worker : Workers \cup {"nobody"},
                 tries : 0 .. JobTries - 1, next : BOOLEAN]
    BY LimitsAssumption DEF Init, NoJob
  <1>3. Idle \in Turns /\ drain \in [Workers -> Turns]  BY DEF Init, Idle, Turns
  <1>4. /\ \A w \in Workers : drain[w].read \cup drain[w].todo \subseteq DOMAIN rows
                              /\ drain[w].left \subseteq drain[w].read
    BY DEF Init, Idle
  <1>5. beside \in [Ids -> SUBSET Ids] /\ lost \in BOOLEAN  BY DEF Init
  <1>6. troubles \in 0 .. MaxTroubles  BY BoundsAssumption DEF Init
  <1> QED  BY <1>1, <1>2, <1>3, <1>4, <1>5, <1>6, BoundsAssumption DEF Init, TypeOK

(* Type correctness: every delivery waiting for its ring, read or handled is one of the
   shop's rows, and a job's attempts stay below their number. *)
THEOREM TypeCorrect == Spec => []TypeOK
  <1>1. Init => TypeOK  BY TypeInit
  <1>2. TypeOK /\ [Next]_vars => TypeOK'  BY TypeStep
  <1> QED  BY <1>1, <1>2, PTL DEF Spec

----------------------------------------------------------------------------
(* Nothing is forgotten. *)

(* An idle drain has nothing at hand, and one between two products nothing read. *)
Blank ==
    \A w \in Workers : /\ drain[w].stage = "idle" => drain[w] = Idle
                       /\ drain[w].stage = "turn" => drain[w].read = {} /\ drain[w].left = {}

(* A job at work has a worker whose drain goes on. *)
Busy == /\ job.state = "active" => job.worker \in Workers /\ drain[job.worker].stage # "idle"
        /\ job.state # "active" => job.worker = "nobody"

(* A drain comes to a row: it asks for another turn, or the row is of a product it has
   still to read, or it has read it and not yet set it aside. *)
Covered(w, i) ==
    \/ drain[w].full \/ i \in drain[w].todo
    \/ i \in drain[w].read /\ ~(drain[w].stage = "rest" /\ i \in drain[w].left)

(* Every waiting row has its ring to come, a job that waits or will, or one at work
   whose drain comes to it. *)
Kept == ~lost => \A i \in Waiting : \/ i \in unrung \/ job.state = "waiting"
                                    \/ job.state = "active" /\ (job.next \/ Covered(job.worker, i))

(* A row left out of a turn is one too many for it. *)
LEMMA FullTurn ==
    ASSUME TypeOK, NEW i \in Waiting, i \notin Firsts(Waiting, Turn)
    PROVE  Cardinality(Waiting) >= Turn
  <1>1. Waiting \subseteq 1 .. Len(rows) /\ Len(rows) \in Nat  BY RowsAreRows DEF Waiting
  <1>2. IsFiniteSet(Waiting)
    <2>1. IsFiniteSet(1 .. Len(rows))  BY <1>1, FS_Interval
    <2> QED  BY <1>1, <2>1, FS_Subset
  <1> DEFINE before == {j \in Waiting : j < i}
  <1>3. before \subseteq Waiting  OBVIOUS
  <1>4. /\ Cardinality(before) <= Cardinality(Waiting) /\ Cardinality(Waiting) \in Nat
        /\ Cardinality(before) \in Nat
    BY <1>2, <1>3, FS_Subset, FS_CardinalityType
  <1>5. ~(Cardinality(before) < Turn)  BY DEF Firsts
  <1> QED  BY <1>4, <1>5, LimitsAssumption

(* A ring leaves a job that waits, or one at work that stores its successor. *)
LEMMA RungIsKept ==
    ASSUME job \in Jobs
    PROVE  /\ Rung.state = "waiting" \/ (Rung.state = "active" /\ Rung.next)
           /\ Rung.state = "active" => job.state = "active" /\ Rung.worker = job.worker
           /\ Rung.state = "waiting" => (job.state = "waiting" /\ Rung = job) \/ Rung = Fresh
           /\ job.state = "active" => Rung = [job EXCEPT !.next = TRUE]
  <1>1. job.state \in {"none", "waiting", "active"}  BY DEF Jobs
  <1>2. CASE job.state = "none"  BY <1>2 DEF Rung, Fresh, NoJob
  <1>3. CASE job.state = "waiting"
    <2>1. Rung = job  BY <1>3 DEF Rung
    <2> QED  BY <1>3, <2>1
  <1>4. CASE job.state = "active"
    <2>1. Rung = [job EXCEPT !.next = TRUE]  BY <1>4 DEF Rung
    <2> QED  BY <1>4, <2>1 DEF Jobs
  <1> QED  BY <1>1, <1>2, <1>3, <1>4

LEMMA KeptInit == Init => TypeOK /\ Blank /\ Busy /\ Kept
  <1>1. Init => Blank /\ Busy  BY DEF Init, Blank, Busy, NoJob, Idle
  <1>2. Init => Kept
    <2>1. DOMAIN << >> = {}  OBVIOUS
    <2> QED  BY <2>1 DEF Init, Kept, Waiting
  <1> QED  BY <1>1, <1>2, TypeInit

LEMMA BlankStep ==
    ASSUME TypeOK, Blank, [Next]_vars
    PROVE  Blank'
  <1>1. drain \in [Workers -> Turns] /\ \A w \in Workers : Held(drain[w])  BY DEF TypeOK, Held
  <1>2. ASSUME UNCHANGED drain  PROVE Blank'  BY <1>2 DEF Blank
  <1>3. ASSUME NEW w \in Workers, NEW d, drain' = [drain EXCEPT ![w] = d],
               d.stage = "idle" => d = Idle, d.stage = "turn" => d.read = {} /\ d.left = {}
        PROVE  Blank'
    BY <1>1, <1>3 DEF Blank
  <1>4. Idle.stage = "idle"  BY DEF Idle
  <1>5. ASSUME NEW w \in Workers, drain' = [drain EXCEPT ![w] = Idle]  PROVE Blank'
    BY <1>3, <1>4, <1>5
  <1>6. ASSUME NEW w \in Workers, Take(w)  PROVE Blank'
    BY <1>3, <1>6 DEF Take, Idle
  <1>7. ASSUME NEW w \in Workers, Read(w)  PROVE Blank'
    <2>1. PICK i \in drain[w].todo, d \in Turns :
             LET waiting == {j \in Waiting : Same(i, j)}
             IN  /\ drain' = [drain EXCEPT ![w] = d]
                 /\ d.stage = (IF waiting = {} THEN "turn" ELSE "handle")
                 /\ d.read = waiting /\ d.left = Coalesced(waiting)
      BY <1>7, ReadDoes
    <2>2. Coalesced({}) = {}  BY DEF Coalesced
    <2> QED  BY <1>3, <2>1, <2>2
  <1>8. ASSUME NEW w \in Workers, Handle(w) \/ SetAside(w)  PROVE Blank'
    BY <1>1, <1>8 DEF Handle, SetAside, Blank, Turns
  <1>9. ASSUME NEW w \in Workers, Settle(w) \/ SetAsideRest(w)  PROVE Blank'
    BY <1>1, <1>9 DEF Settle, SetAsideRest, NextProduct, Blank, Turns
  <1>10. ASSUME NEW w \in Workers, SetBack(w)  PROVE Blank'
    <2>1. \/ \E d : drain' = [drain EXCEPT ![w] = d] /\ d.stage = "failed"
          \/ drain' = [drain EXCEPT ![w] = Idle]
      BY <1>10, SetBackDoes
    <2> QED  BY <1>3, <1>5, <2>1
  <1>11. ASSUME NEW w \in Workers, Finish(w) \/ DatabaseAway(w) \/ Dies(w)  PROVE Blank'
    <2>1. drain' = [drain EXCEPT ![w] = Idle] \/ drain' = drain
      BY <1>11 DEF Finish, DatabaseAway, Dies
    <2> QED  BY <1>2, <1>5, <2>1
  <1> QED
    BY <1>2, <1>6, <1>7, <1>8, <1>9, <1>10, <1>11
    DEF Next, Shopify, Persist, Redeliver, RingStranded, JobLost, Route, Ring, RingLost, Drain, vars

LEMMA BusyStep ==
    ASSUME TypeOK, Blank, Busy, [Next]_vars
    PROVE  Busy'
  <1>1. drain \in [Workers -> Turns] /\ \A w \in Workers : Held(drain[w])  BY DEF TypeOK, Held
  <1>2. job \in Jobs  BY DEF TypeOK, Jobs
  <1>3. ASSUME UNCHANGED drain, job' \in {job, NoJob, Rung}  PROVE Busy'
    BY <1>2, <1>3, RungIsKept DEF Busy, NoJob, Fresh
  <1>4. ASSUME NEW w \in Workers, NEW d, drain' = [drain EXCEPT ![w] = d], d.stage # "idle",
               UNCHANGED job
        PROVE  Busy'
    BY <1>1, <1>4 DEF Busy
  <1>5. \A j \in Jobs : Over(j).state # "active" /\ Over(j).worker = "nobody"
    BY DEF Over, Fresh, NoJob
  <1>6. ASSUME NEW w \in Workers, drain' \in {drain, [drain EXCEPT ![w] = Idle]},
               \/ job.worker # w /\ (UNCHANGED job \/ job' = Rung)
               \/ job'.state # "active" /\ job'.worker = "nobody"
        PROVE  Busy'
    BY <1>1, <1>2, <1>6, RungIsKept DEF Busy, Fresh, NoJob
  <1>7. ASSUME NEW w \in Workers, Retried(w)
        PROVE  \/ job.worker # w /\ UNCHANGED job
               \/ job'.state # "active" /\ job'.worker = "nobody"
    <2>1. \/ job.worker # w /\ UNCHANGED <<job, lost>>
          \/ job' = [job EXCEPT !.state = "waiting", !.worker = "nobody", !.tries = @ + 1]
          \/ job' = Over(job)
      BY <1>7 DEF Retried
    <2>2. ASSUME job' = [job EXCEPT !.state = "waiting", !.worker = "nobody", !.tries = @ + 1]
          PROVE  job'.state # "active" /\ job'.worker = "nobody"
      BY <1>2, <2>2 DEF Jobs
    <2> QED  BY <1>2, <1>5, <2>1, <2>2
  <1>8. ASSUME NEW w \in Workers, Take(w)  PROVE Busy'
    BY <1>1, <1>2, <1>8 DEF Take, Busy, Jobs, Idle
  <1>9. ASSUME NEW w \in Workers, Read(w)  PROVE Busy'
    <2>1. \E d : drain' = [drain EXCEPT ![w] = d] /\ d.stage # "idle"  BY <1>9, ReadDoes
    <2> QED  BY <1>4, <1>9, <2>1 DEF Read
  <1>10. ASSUME NEW w \in Workers, Handle(w) \/ SetAside(w) \/ Settle(w) \/ SetAsideRest(w)
         PROVE  Busy'
    BY <1>1, <1>10 DEF Handle, SetAside, Settle, SetAsideRest, NextProduct, Busy, Turns
  <1>11. ASSUME NEW w \in Workers, SetBack(w)  PROVE Busy'
    <2>1. \/ \E d : drain' = [drain EXCEPT ![w] = d] /\ d.stage # "idle" /\ UNCHANGED job
          \/ drain' = [drain EXCEPT ![w] = Idle] /\ Retried(w)
      BY <1>11, SetBackDoes
    <2> QED  BY <1>4, <1>6, <1>7, <2>1
  <1>12. ASSUME NEW w \in Workers, Finish(w)  PROVE Busy'
    <2>1. drain' = [drain EXCEPT ![w] = Idle]  BY <1>12 DEF Finish
    <2>2. job' \in {job, Rung} \/ \E j \in Jobs : job' = Over(j)
      BY <1>2, <1>12, JobsAreJobs DEF Finish
    <2>3. \/ job.worker # w /\ (UNCHANGED job \/ job' = Rung)
          \/ job'.state # "active" /\ job'.worker = "nobody"
      <3>1. CASE job.worker = w
        <4>1. \E j \in Jobs : job' = Over(j)  BY <1>2, <1>12, <3>1, <2>2, RungIsKept, JobsAreJobs DEF Finish
        <4> QED  BY <1>5, <4>1
      <3>2. CASE job.worker # w
        <4>1. job' \in {job, Rung}  BY <1>2, <1>12, <3>2, RungIsKept DEF Finish
        <4> QED  BY <3>2, <4>1
      <3> QED  BY <3>1, <3>2
    <2> QED  BY <1>6, <2>1, <2>3
  <1>13. ASSUME NEW w \in Workers, DatabaseAway(w)  PROVE Busy'
    BY <1>6, <1>7, <1>13 DEF DatabaseAway
  <1>14. ASSUME NEW w \in Workers, Dies(w)  PROVE Busy'
    <2>1. drain' \in {drain, [drain EXCEPT ![w] = Idle]}  BY <1>14 DEF Dies
    <2>2. \/ job.worker # w /\ UNCHANGED job
          \/ job'.state # "active" /\ job'.worker = "nobody"
      BY <1>2, <1>5, <1>14 DEF Dies, Jobs
    <2> QED  BY <1>6, <2>1, <2>2
  <1> QED
    BY <1>3, <1>8, <1>9, <1>10, <1>11, <1>12, <1>13, <1>14
    DEF Next, Shopify, Persist, Redeliver, RingStranded, JobLost, Route, Ring, RingLost, Drain, vars

(* What becomes of the waiting rows, apart from a new one or one sent again. *)
LEMMA WaitingShrinks ==
    ASSUME TypeOK, [Next]_vars,
           \A mail \in Mail : ~Persist(mail[1], mail[2]), \A i \in DOMAIN rows : ~Redeliver(i)
    PROVE  /\ Waiting' \subseteq Waiting
           /\ DOMAIN rows' = DOMAIN rows /\ \A i \in DOMAIN rows : Keeps(i) /\ rows'[i].tries >= rows[i].tries
  <1> DEFINE Fewer == /\ Waiting' \subseteq Waiting /\ DOMAIN rows' = DOMAIN rows
                      /\ \A i \in DOMAIN rows : Keeps(i) /\ rows'[i].tries >= rows[i].tries
  <1>1. \A i \in DOMAIN rows : rows[i].tries \in Nat  BY RowsAreRows DEF Row
  <1>2. ASSUME UNCHANGED rows  PROVE Fewer  BY <1>1, <1>2 DEF Waiting, Keeps
  <1>3. ASSUME NEW ids, NEW t \in {"PROCESSED", "FAILED"}, rows' = Settled(ids, t)  PROVE Fewer
    <2>1. t \in Statuses  BY DEF Statuses
    <2> QED  BY <1>1, <1>3, <2>1, SettledRows DEF Waiting
  <1>4. ASSUME NEW w \in Workers, Settle(w) \/ SetAside(w) \/ SetAsideRest(w)  PROVE Fewer
    BY <1>3, <1>4 DEF Settle, SetAside, SetAsideRest
  <1>5. ASSUME NEW w \in Workers, SetBack(w)  PROVE Fewer
    <2>1. PICK f \in DOMAIN rows : rows' = [rows EXCEPT ![f].tries = @ + 1]  BY <1>5, SetBackDoes
    <2>2. /\ DOMAIN rows' = DOMAIN rows
          /\ \A i \in DOMAIN rows : Keeps(i) /\ rows'[i].status = rows[i].status
                                   /\ rows'[i].tries = IF i = f THEN rows[i].tries + 1 ELSE rows[i].tries
      BY <2>1, CountedRows
    <2>3. \A i \in DOMAIN rows : rows'[i].tries >= rows[i].tries  BY <1>1, <2>2
    <2> QED  BY <2>2, <2>3 DEF Waiting
  <1>6. UNCHANGED rows \/ \E w \in Workers : Settle(w) \/ SetAside(w) \/ SetAsideRest(w) \/ SetBack(w)
    BY DEF Next, Shopify, RingStranded, JobLost, Route, Ring, RingLost, Drain, Take, Read, Handle,
           Finish, DatabaseAway, Dies, vars
  <1> QED  BY <1>2, <1>4, <1>5, <1>6

LEMMA KeptStep ==
    ASSUME TypeOK, Blank, Busy, Kept, [Next]_vars
    PROVE  Kept'
  <1>1. drain \in [Workers -> Turns] /\ job \in Jobs  BY DEF TypeOK, Jobs
  <1>2. Waiting \subseteq DOMAIN rows  BY DEF Waiting
  <1>3. ASSUME NEW mail \in Mail, Persist(mail[1], mail[2])  PROVE Kept'
    <2>1. /\ DOMAIN rows' = DOMAIN rows \cup {Len(rows) + 1} /\ Len(rows) + 1 \notin DOMAIN rows
          /\ \A i \in DOMAIN rows : rows'[i] = rows[i]
      BY <1>3, PersistRows
    <2>2. Waiting' \subseteq Waiting \cup {Len(rows) + 1}  BY <2>1 DEF Waiting
    <2> QED  BY <1>3, <2>2 DEF Persist, Kept, Covered
  <1>4. ASSUME NEW r \in DOMAIN rows, Redeliver(r)  PROVE Kept'
    <2>1. /\ DOMAIN rows' = DOMAIN rows
          /\ \A i \in DOMAIN rows : i # r => rows'[i] = rows[i]
      BY <1>4, RedeliverRows
    <2>2. Waiting' \subseteq Waiting \cup {r}  BY <2>1 DEF Waiting
    <2>3. r \in Waiting' => r \in unrung'  BY <1>4, <2>1 DEF Redeliver, Waiting
    <2>4. unrung \subseteq unrung' /\ UNCHANGED <<job, drain, lost>>  BY <1>4 DEF Redeliver
    <2> QED  BY <2>2, <2>3, <2>4 DEF Kept, Covered
  <1> SUFFICES ASSUME \A mail \in Mail : ~Persist(mail[1], mail[2]),
                      \A i \in DOMAIN rows : ~Redeliver(i)
               PROVE  Kept'
    BY <1>3, <1>4
  <1>5. Waiting' \subseteq Waiting  BY WaitingShrinks
  <1>6. ASSUME lost'  PROVE Kept'  BY <1>6 DEF Kept
  <1>7. ASSUME job'.state = "waiting"  PROVE Kept'  BY <1>7 DEF Kept
  <1>8. ASSUME job' = Rung  PROVE Kept'  BY <1>1, <1>8, RungIsKept DEF Kept
  <1>9. ASSUME UNCHANGED <<unrung, job, lost>>,
               \A i \in Waiting' : job.worker \in Workers /\ Covered(job.worker, i) => Covered(job.worker, i)'
        PROVE  Kept'
    BY <1>5, <1>9 DEF Kept, Busy
  <1>10. ASSUME NEW w \in Workers, NEW d \in Turns, drain' = [drain EXCEPT ![w] = d],
                UNCHANGED <<unrung, job, lost>>,
                \A i \in Waiting' : Covered(w, i) =>
                      d.full \/ i \in d.todo \/ (i \in d.read /\ ~(d.stage = "rest" /\ i \in d.left))
         PROVE  Kept'
    BY <1>1, <1>9, <1>10 DEF Covered
  <1>11. ASSUME NEW i \in unrung, Route(i)  PROVE Kept'
    <2>1. CASE Ring(i)  BY <1>8, <2>1 DEF Ring
    <2>2. CASE RingLost(i)  BY <1>6, <2>2 DEF RingLost
    <2> QED  BY <1>11, <2>1, <2>2 DEF Route
  <1>12. ASSUME RingStranded \/ JobLost  PROVE Kept'
    BY <1>6, <1>8, <1>12 DEF RingStranded, JobLost
  <1>13. ASSUME NEW w \in Workers, Take(w)  PROVE Kept'
    <2>1. /\ job'.state = "active" /\ job'.worker = w /\ drain'[w].todo = Firsts(Waiting, Turn)
          /\ drain'[w].full = (Cardinality(Waiting) >= Turn)
      BY <1>1, <1>13 DEF Take, Jobs, Idle
    <2>2. \A i \in Waiting : Covered(w, i)'  BY <2>1, FullTurn DEF Covered
    <2> QED  BY <1>5, <2>1, <2>2 DEF Kept
  <1>14. ASSUME NEW w \in Workers, Read(w)  PROVE Kept'
    <2>1. PICK i \in drain[w].todo, d \in Turns :
             LET waiting == {j \in Waiting : Same(i, j)}
             IN  /\ drain' = [drain EXCEPT ![w] = d]
                 /\ d.stage = (IF waiting = {} THEN "turn" ELSE "handle")
                 /\ d.todo = {j \in drain[w].todo : ~Same(i, j)} /\ d.full = drain[w].full
                 /\ d.read = waiting /\ d.left = Coalesced(waiting)
                 /\ beside' = [j \in Ids |-> beside[j] \cup
                                  IF j \in waiting THEN {k \in waiting : Newer(k, j)} ELSE {}]
      BY <1>14, ReadDoes
    <2>2. drain[w].read = {} /\ UNCHANGED <<unrung, job, lost>>  BY <1>14 DEF Read, Blank
    <2>3. d.stage # "rest"  BY <2>1
    <2>4. \A j \in Waiting : Covered(w, j) => d.full \/ j \in d.todo \/ j \in d.read
      BY <2>1, <2>2 DEF Covered
    <2> QED  BY <1>5, <1>10, <2>1, <2>2, <2>3, <2>4
  <1>15. ASSUME NEW w \in Workers, Handle(w)  PROVE Kept'
    <2>1. PICK i : drain' = [drain EXCEPT ![w].left = @ \ {i}]  BY <1>15 DEF Handle
    <2> DEFINE d == [drain[w] EXCEPT !.left = drain[w].left \ {i}]
    <2>2. /\ drain' = [drain EXCEPT ![w] = d] /\ d \in Turns /\ d.full = drain[w].full
          /\ d.todo = drain[w].todo /\ d.read = drain[w].read /\ d.stage = drain[w].stage
          /\ d.left \subseteq drain[w].left
      BY <1>1, <2>1 DEF Turns
    <2> HIDE DEF d
    <2> QED  BY <1>10, <1>15, <2>2 DEF Handle, Covered
  <1>16. ASSUME NEW w \in Workers, Settle(w) \/ SetAsideRest(w)  PROVE Kept'
    <2> DEFINE d == [drain[w] EXCEPT !.stage = "turn", !.read = {}, !.left = {}]
    <2>1. /\ drain' = [drain EXCEPT ![w] = d] /\ UNCHANGED <<unrung, job, lost>>
      BY <1>1, <1>16 DEF Settle, SetAsideRest, NextProduct, Turns
    <2>2. /\ d \in Turns /\ d.full = drain[w].full /\ d.todo = drain[w].todo
      BY <1>1 DEF Turns
    <2>3. \A i \in Waiting' : /\ i \in Waiting
                              /\ i \in drain[w].read => drain[w].stage = "rest" /\ i \in drain[w].left
      <3>1. ASSUME NEW ids, NEW t \in {"PROCESSED", "FAILED"}, rows' = Settled(ids, t)
            PROVE  \A i \in Waiting' : i \in Waiting /\ i \notin ids
        <4>1. t \in Statuses  BY DEF Statuses
        <4> QED  BY <1>2, <1>5, <3>1, <4>1, SettledRows DEF Waiting
      <3>2. CASE Settle(w)
        <4>1. rows' = Settled(drain[w].read, "PROCESSED")  BY <3>2 DEF Settle
        <4> QED  BY <3>1, <4>1
      <3>3. CASE SetAsideRest(w)
        <4>1. rows' = Settled(drain[w].read \ drain[w].left, "FAILED") /\ drain[w].stage = "rest"
          BY <3>3 DEF SetAsideRest
        <4> QED  BY <3>1, <4>1
      <3> QED  BY <1>16, <3>2, <3>3
    <2> HIDE DEF d
    <2>4. ASSUME NEW i \in Waiting', Covered(w, i)  PROVE d.full \/ i \in d.todo
      <3>1. i \in drain[w].read => drain[w].stage = "rest" /\ i \in drain[w].left  BY <2>3
      <3>2. drain[w].full \/ i \in drain[w].todo  BY <2>4, <3>1 DEF Covered
      <3> QED  BY <2>2, <3>2
    <2> QED  BY <1>10, <2>1, <2>2, <2>4
  <1>17. ASSUME NEW w \in Workers, SetAside(w)  PROVE Kept'
    <2> DEFINE d == [drain[w] EXCEPT !.stage = "rest"]
    <2>1. drain' = [drain EXCEPT ![w] = d] /\ UNCHANGED <<unrung, job, lost>>
      <3>1. drain' = [drain EXCEPT ![w].stage = "rest"]  BY <1>17 DEF SetAside
      <3> QED  BY <1>1, <1>17, <3>1 DEF SetAside, Turns
    <2>2. /\ d \in Turns /\ d.full = drain[w].full /\ d.todo = drain[w].todo
          /\ d.read = drain[w].read /\ d.left = drain[w].left
      BY <1>1 DEF Turns
    <2>3. "FAILED" \in Statuses /\ rows' = Settled(drain[w].left, "FAILED")
      BY <1>17 DEF SetAside, Statuses
    <2>4. \A i \in Waiting' : i \notin drain[w].left
      BY <1>2, <1>5, <2>3, SettledRows DEF Waiting
    <2> HIDE DEF d
    <2>5. \A i \in Waiting' : Covered(w, i) => d.full \/ i \in d.todo \/ (i \in d.read /\ i \notin d.left)
      BY <2>2, <2>4 DEF Covered
    <2> QED  BY <1>10, <2>1, <2>2, <2>5
  <1>18. ASSUME NEW w \in Workers, drain' = [drain EXCEPT ![w] = Idle], job.worker # w,
                UNCHANGED <<unrung, job, lost>>
         PROVE  Kept'
    <2>1. job.worker \in Workers => drain'[job.worker] = drain[job.worker]  BY <1>1, <1>18
    <2> QED  BY <1>9, <1>18, <2>1 DEF Covered
  <1>19. ASSUME NEW w \in Workers, Retried(w), drain' = [drain EXCEPT ![w] = Idle], UNCHANGED unrung
         PROVE  Kept'
    <2>1. CASE job.worker # w  BY <1>18, <1>19, <2>1 DEF Retried
    <2>2. CASE job.worker = w /\ job.tries + 1 < JobTries
      <3>1. job'.state = "waiting"  BY <1>1, <1>19, <2>2 DEF Retried, Jobs
      <3> QED  BY <1>7, <3>1
    <2>3. CASE job.worker = w /\ ~(job.tries + 1 < JobTries)  BY <1>6, <1>19, <2>3 DEF Retried
    <2> QED  BY <2>1, <2>2, <2>3
  <1>20. ASSUME NEW w \in Workers, SetBack(w)  PROVE Kept'
    <2>1. UNCHANGED unrung  BY <1>20 DEF SetBack
    <2>2. ASSUME drain' = [drain EXCEPT ![w] = Idle], Retried(w)  PROVE Kept'
      BY <1>19, <2>1, <2>2
    <2>3. ASSUME NEW d \in Turns, drain' = [drain EXCEPT ![w] = d], d.stage = "failed",
                 d.read = drain[w].read, d.todo = drain[w].todo, d.full = drain[w].full,
                 UNCHANGED <<job, lost>>
          PROVE  Kept'
      BY <1>10, <2>1, <2>3 DEF Covered
    <2> QED  BY <1>20, <2>2, <2>3, SetBackDoes
  <1>21. ASSUME NEW w \in Workers, Finish(w)  PROVE Kept'
    <2>1. /\ drain' = [drain EXCEPT ![w] = Idle] /\ UNCHANGED <<unrung, lost>>
          /\ drain[w].todo = {} /\ drain[w].read = {}
      BY <1>21 DEF Finish, Blank
    <2>2. CASE job.worker # w
      <3>1. CASE drain[w].full  BY <1>8, <1>21, <2>2, <3>1 DEF Finish
      <3>2. CASE ~drain[w].full  BY <1>18, <1>21, <2>1, <2>2, <3>2 DEF Finish
      <3> QED  BY <3>1, <3>2
    <2>3. CASE job.worker = w
      <3>1. job.state = "active"  BY <2>3, WorkersAssumption DEF Busy
      <3>2. CASE drain[w].full
        <4>1. Rung.next
          <5>1. Rung = [job EXCEPT !.next = TRUE]  BY <1>1, <3>1, RungIsKept
          <5> QED  BY <1>1, <5>1 DEF Jobs
        <4>2. job' = Fresh  BY <1>21, <2>3, <3>2, <4>1 DEF Finish, Over
        <4> QED  BY <1>7, <4>2 DEF Fresh, NoJob
      <3>3. CASE ~drain[w].full /\ job.next
        <4>1. job' = Fresh  BY <1>21, <2>3, <3>3 DEF Finish, Over
        <4> QED  BY <1>7, <4>1 DEF Fresh, NoJob
      <3>4. CASE ~drain[w].full /\ ~job.next
        <4>1. \A i \in Waiting : ~Covered(w, i)  BY <2>1, <3>4 DEF Covered
        <4> QED  BY <1>5, <2>1, <2>3, <3>1, <3>4, <4>1 DEF Kept
      <3> QED  BY <3>2, <3>3, <3>4
    <2> QED  BY <2>2, <2>3
  <1>22. ASSUME NEW w \in Workers, DatabaseAway(w)  PROVE Kept'
    BY <1>19, <1>22 DEF DatabaseAway
  <1>23. ASSUME NEW w \in Workers, Dies(w)  PROVE Kept'
    <2>1. drain' = drain \/ drain' = [drain EXCEPT ![w] = Idle]  BY <1>23 DEF Dies
    <2>2. CASE job.worker # w
      <3>1. UNCHANGED <<unrung, job, lost>>  BY <1>23, <2>2 DEF Dies
      <3>2. CASE drain' = drain  BY <1>9, <3>1, <3>2 DEF Covered
      <3> QED  BY <1>18, <2>1, <2>2, <3>1, <3>2
    <2>3. CASE job.worker = w
      <3>1. \/ job' = [job EXCEPT !.state = "waiting", !.worker = "nobody"]
            \/ lost'
        BY <1>23, <2>3 DEF Dies
      <3>2. [job EXCEPT !.state = "waiting", !.worker = "nobody"].state = "waiting"  BY <1>1 DEF Jobs
      <3> QED  BY <1>6, <1>7, <3>1, <3>2
    <2> QED  BY <2>2, <2>3
  <1>24. CASE UNCHANGED vars  BY <1>5, <1>24 DEF vars, Kept, Covered
  <1> QED
    BY <1>11, <1>12, <1>13, <1>14, <1>15, <1>16, <1>17, <1>20, <1>21, <1>22, <1>23, <1>24
    DEF Next, Shopify, Drain

(* No delivery is forgotten, whatever arrives while a drain reads and whichever of the
   gaps are open: unless a ring, a job or its attempts were lost, one that waits has its
   job waiting, at work or about to be asked for. *)
THEOREM NothingForgottenHolds == Spec => []NothingForgotten
  <1>1. TypeOK /\ Blank /\ Busy /\ Kept /\ [Next]_vars => (TypeOK /\ Blank /\ Busy /\ Kept)'
    BY TypeStep, BlankStep, BusyStep, KeptStep
  <1>2. Kept => NothingForgotten  BY DEF Kept, NothingForgotten
  <1> QED  BY KeptInit, <1>1, <1>2, PTL DEF Spec

----------------------------------------------------------------------------
(* What a step does to the rows, and to what a drain has at hand. *)

(* Rows stay, with their product and stamp, and what was handled stays handled. *)
LEMMA RowsLast ==
    ASSUME TypeOK, [Next]_vars
    PROVE  /\ DOMAIN rows \subseteq DOMAIN rows'
           /\ \A i \in DOMAIN rows : Keeps(i)
           /\ handled \subseteq handled' /\ handled \subseteq DOMAIN rows
  <1>1. ASSUME NEW mail \in Mail, Persist(mail[1], mail[2])
        PROVE  DOMAIN rows \subseteq DOMAIN rows' /\ \A i \in DOMAIN rows : Keeps(i)
    BY <1>1, PersistRows DEF Keeps
  <1>2. ASSUME NEW r \in DOMAIN rows, Redeliver(r)
        PROVE  DOMAIN rows \subseteq DOMAIN rows' /\ \A i \in DOMAIN rows : Keeps(i)
    BY <1>2, RedeliverRows
  <1>3. DOMAIN rows \subseteq DOMAIN rows' /\ \A i \in DOMAIN rows : Keeps(i)
    BY <1>1, <1>2, WaitingShrinks
  <1>4. handled' = handled \/ \E w \in Workers : Handle(w)
    BY DEF Next, Shopify, Persist, Redeliver, RingStranded, JobLost, Route, Ring, RingLost, Drain, Take,
           Read, Settle, SetBack, SetAside, SetAsideRest, Finish, DatabaseAway, Dies, vars
  <1>5. handled \subseteq handled'  BY <1>4 DEF Handle
  <1> QED  BY <1>3, <1>5 DEF TypeOK

(* Tries are only counted, unless a row set aside is taken up anew. *)
LEMMA TriesGrow ==
    ASSUME TypeOK, [Next]_vars, "reopened" \notin Weak
    PROVE  \A i \in DOMAIN rows : rows'[i].tries >= rows[i].tries /\ rows'[i].tries \in Nat
  <1>1. \A i \in DOMAIN rows : rows[i].tries \in Nat  BY RowsAreRows DEF Row
  <1>2. \A i \in DOMAIN rows : rows'[i].tries \in Nat
    <2>1. TypeOK'  BY TypeStep
    <2>2. \A i \in DOMAIN rows' : rows'[i] \in Row
      <3>1. rows' \in Seq(Row)  BY <2>1 DEF TypeOK
      <3> QED  BY <3>1, LenProperties, ElementOfSeq
    <2> QED  BY <2>2, RowsLast DEF Row
  <1>3. ASSUME NEW mail \in Mail, Persist(mail[1], mail[2])
        PROVE  \A i \in DOMAIN rows : rows'[i].tries >= rows[i].tries
    BY <1>1, <1>3, PersistRows
  <1>4. ASSUME NEW r \in DOMAIN rows, Redeliver(r)
        PROVE  \A i \in DOMAIN rows : rows'[i].tries >= rows[i].tries
    <2>1. rows[r].status # "FAILED"  BY <1>4 DEF Redeliver
    <2> QED  BY <1>1, <1>4, <2>1, RedeliverRows
  <1> QED  BY <1>2, <1>3, <1>4, WaitingShrinks

(* A status changes when a product's rows are settled or set aside; a row that comes, or
   comes again, waits. *)
LEMMA StatusSteps ==
    ASSUME TypeOK, [Next]_vars, NEW i \in DOMAIN rows'
    PROVE  \/ i \in DOMAIN rows /\ rows'[i].status = rows[i].status
           \/ rows'[i].status = "RECEIVED" /\ (i \in DOMAIN rows => rows[i].status = "FAILED" /\ "reopened" \in Weak)
           \/ /\ i \in DOMAIN rows /\ rows[i].status = "RECEIVED"
              /\ \E w \in Workers :
                    \/ Settle(w) /\ i \in drain[w].read /\ rows'[i].status = "PROCESSED"
                    \/ SetAside(w) /\ i \in drain[w].left /\ rows'[i].status = "FAILED"
                    \/ SetAsideRest(w) /\ i \in drain[w].read \ drain[w].left /\ rows'[i].status = "FAILED"
  <1>1. ASSUME NEW mail \in Mail, Persist(mail[1], mail[2])
        PROVE  \/ i \in DOMAIN rows /\ rows'[i].status = rows[i].status
               \/ rows'[i].status = "RECEIVED" /\ i \notin DOMAIN rows
    BY <1>1, PersistRows
  <1>2. ASSUME NEW r \in DOMAIN rows, Redeliver(r)
        PROVE  \/ i \in DOMAIN rows /\ rows'[i].status = rows[i].status
               \/ rows'[i].status = "RECEIVED" /\ rows[i].status = "FAILED" /\ "reopened" \in Weak
    BY <1>2, RedeliverRows DEF Redeliver
  <1>3. ASSUME NEW ids, NEW t \in {"PROCESSED", "FAILED"}, rows' = Settled(ids, t)
        PROVE  /\ i \in DOMAIN rows
               /\ \/ rows'[i].status = rows[i].status
                  \/ rows[i].status = "RECEIVED" /\ i \in ids /\ rows'[i].status = t
    <2>1. t \in Statuses  BY DEF Statuses
    <2> QED  BY <1>3, <2>1, SettledRows
  <1>4. ASSUME NEW w \in Workers, SetBack(w)
        PROVE  i \in DOMAIN rows /\ rows'[i].status = rows[i].status
    <2>1. PICK f \in DOMAIN rows : rows' = [rows EXCEPT ![f].tries = @ + 1]  BY <1>4, SetBackDoes
    <2> QED  BY <2>1, CountedRows
  <1>5. ASSUME NEW w \in Workers, Settle(w)
        PROVE  /\ i \in DOMAIN rows
               /\ \/ rows'[i].status = rows[i].status
                  \/ rows[i].status = "RECEIVED" /\ i \in drain[w].read /\ rows'[i].status = "PROCESSED"
    BY <1>3, <1>5 DEF Settle
  <1>6. ASSUME NEW w \in Workers, SetAside(w)
        PROVE  /\ i \in DOMAIN rows
               /\ \/ rows'[i].status = rows[i].status
                  \/ rows[i].status = "RECEIVED" /\ i \in drain[w].left /\ rows'[i].status = "FAILED"
    BY <1>3, <1>6 DEF SetAside
  <1>7. ASSUME NEW w \in Workers, SetAsideRest(w)
        PROVE  /\ i \in DOMAIN rows
               /\ \/ rows'[i].status = rows[i].status
                  \/ /\ rows[i].status = "RECEIVED" /\ i \in drain[w].read \ drain[w].left
                     /\ rows'[i].status = "FAILED"
    BY <1>3, <1>7 DEF SetAsideRest
  <1>8. \/ UNCHANGED rows
        \/ \E mail \in Mail : Persist(mail[1], mail[2])
        \/ \E r \in DOMAIN rows : Redeliver(r)
        \/ \E w \in Workers : Settle(w) \/ SetAside(w) \/ SetAsideRest(w) \/ SetBack(w)
    BY DEF Next, Shopify, RingStranded, JobLost, Route, Ring, RingLost, Drain, Take, Read, Handle,
           Finish, DatabaseAway, Dies, vars
  <1> QED  BY <1>1, <1>2, <1>4, <1>5, <1>6, <1>7, <1>8

(* What a drain has read stays with it until it turns to the next product or stops; it
   handles what is left of it, one after another, or fails at one. *)
LEMMA HandSteps ==
    ASSUME TypeOK, [Next]_vars, NEW v \in Workers
    PROVE  \/ /\ drain'[v].stage = drain[v].stage
              /\ drain'[v].read = drain[v].read /\ drain'[v].left = drain[v].left
           \/ drain'[v].stage \in {"idle", "turn"} /\ drain'[v].read = {}
           \/ Read(v) /\ \E i \in DOMAIN rows :
                            /\ drain'[v].read = {j \in Waiting : Same(i, j)}
                            /\ drain'[v].left = Coalesced(drain'[v].read)
                            /\ drain'[v].stage \in {"turn", "handle"}
           \/ Handle(v) /\ \E i \in NextOf(drain[v].left) :
                            /\ handled' = handled \cup {i} /\ drain'[v].left = drain[v].left \ {i}
                            /\ drain'[v].stage = "handle" /\ drain'[v].read = drain[v].read
           \/ SetBack(v) /\ \E f \in drain[v].read :
                            /\ rows'[f].tries >= MaxTries
                            /\ "sibling" \in Weak
                                   \/ \A j \in drain[v].read \ {f} : Newer(f, j) \/ j \in handled
                            /\ drain'[v].stage = "failed" /\ drain'[v].left = {f}
                            /\ drain'[v].read = drain[v].read
           \/ SetAside(v) /\ /\ drain[v].stage = "failed" /\ drain'[v].stage = "rest"
                             /\ drain'[v].read = drain[v].read /\ drain'[v].left = drain[v].left
  <1>1. /\ drain \in [Workers -> Turns] /\ \A w \in Workers : Held(drain[w])
        /\ \A i \in DOMAIN rows : rows[i] \in Row
    BY RowsAreRows DEF TypeOK, Held
  <1> DEFINE Stays == /\ drain'[v].stage = drain[v].stage
                      /\ drain'[v].read = drain[v].read /\ drain'[v].left = drain[v].left
             Drops == drain'[v].stage \in {"idle", "turn"} /\ drain'[v].read = {}
  <1>2. ASSUME NEW w \in Workers, w # v, NEW d, drain' = [drain EXCEPT ![w] = d]  PROVE Stays
    BY <1>1, <1>2
  <1>3. ASSUME NEW w \in Workers, drain' = [drain EXCEPT ![w] = Idle]  PROVE Stays \/ Drops
    BY <1>1, <1>3 DEF Idle
  <1>4. ASSUME NEW w \in Workers, Read(w)  PROVE w = v \/ Stays
    BY <1>2, <1>4, ReadDoes
  <1>5. ASSUME Read(v)
        PROVE  \E i \in DOMAIN rows : /\ drain'[v].read = {j \in Waiting : Same(i, j)}
                                      /\ drain'[v].left = Coalesced(drain'[v].read)
                                      /\ drain'[v].stage \in {"turn", "handle"}
    <2>1. PICK i \in drain[v].todo, d \in Turns :
             LET waiting == {j \in Waiting : Same(i, j)}
             IN  /\ drain' = [drain EXCEPT ![v] = d]
                 /\ d.stage = (IF waiting = {} THEN "turn" ELSE "handle")
                 /\ d.todo = {j \in drain[v].todo : ~Same(i, j)} /\ d.full = drain[v].full
                 /\ d.read = waiting /\ d.left = Coalesced(waiting)
                 /\ beside' = [j \in Ids |-> beside[j] \cup
                                  IF j \in waiting THEN {k \in waiting : Newer(k, j)} ELSE {}]
      BY <1>5, ReadDoes
    <2>2. drain'[v] = d /\ i \in DOMAIN rows  BY <1>1, <2>1 DEF Held
    <2>3. d.stage \in {"turn", "handle"}  BY <2>1
    <2> QED  BY <2>1, <2>2, <2>3
  <1>6. ASSUME NEW w \in Workers, Handle(w)  PROVE w = v \/ Stays
    BY <1>1, <1>6 DEF Handle
  <1>7. ASSUME Handle(v)
        PROVE  \E i \in NextOf(drain[v].left) :
                  /\ handled' = handled \cup {i} /\ drain'[v].left = drain[v].left \ {i}
                  /\ drain'[v].stage = "handle" /\ drain'[v].read = drain[v].read
    BY <1>1, <1>7 DEF Handle, Turns
  <1>8. ASSUME NEW w \in Workers, SetBack(w)  PROVE w = v \/ Stays
    BY <1>2, <1>8, SetBackDoes
  <1>9. ASSUME SetBack(v)
        PROVE  \/ Drops
               \/ \E f \in drain[v].read :
                    /\ rows'[f].tries >= MaxTries
                    /\ "sibling" \in Weak \/ \A j \in drain[v].read \ {f} : Newer(f, j) \/ j \in handled
                    /\ drain'[v].stage = "failed" /\ drain'[v].left = {f}
                    /\ drain'[v].read = drain[v].read
    <2>1. PICK f \in DOMAIN rows :
             /\ f \in drain[v].read
             /\ rows' = [rows EXCEPT ![f].tries = @ + 1]
             /\ \/ /\ rows[f].tries + 1 >= MaxTries
                   /\ "sibling" \in Weak \/ \A j \in drain[v].read \ {f} : Newer(f, j) \/ j \in handled
                   /\ \E d \in Turns : /\ drain' = [drain EXCEPT ![v] = d]
                                       /\ d.stage = "failed" /\ d.left = {f} /\ d.read = drain[v].read
                \/ drain' = [drain EXCEPT ![v] = Idle]
      BY <1>9, SetBackDoes
    <2>2. rows'[f].tries = rows[f].tries + 1  BY <2>1, CountedRows
    <2>3. ASSUME drain' = [drain EXCEPT ![v] = Idle]  PROVE Drops
      BY <1>1, <2>3 DEF Idle
    <2>4. ASSUME NEW d, drain' = [drain EXCEPT ![v] = d]  PROVE drain'[v] = d
      BY <1>1, <2>4
    <2> QED  BY <2>1, <2>2, <2>3, <2>4
  <1>10. ASSUME NEW w \in Workers, SetAside(w)  PROVE w = v \/ Stays
    BY <1>1, <1>10 DEF SetAside
  <1>11. ASSUME SetAside(v)
         PROVE  /\ drain[v].stage = "failed" /\ drain'[v].stage = "rest"
                /\ drain'[v].read = drain[v].read /\ drain'[v].left = drain[v].left
    BY <1>1, <1>11 DEF SetAside, Turns
  <1>12. ASSUME NEW w \in Workers, drain' = NextProduct(w)  PROVE Stays \/ Drops
    BY <1>1, <1>12 DEF NextProduct, Turns
  <1>13. ASSUME NEW w \in Workers, Take(w)  PROVE Stays \/ Drops
    BY <1>1, <1>13 DEF Take, Idle
  <1>14. ASSUME UNCHANGED drain  PROVE Stays  BY <1>14
  <1>15. \/ UNCHANGED drain
         \/ \E w \in Workers : \/ drain' = [drain EXCEPT ![w] = Idle] \/ drain' = NextProduct(w)
                               \/ Take(w) \/ Read(w) \/ Handle(w) \/ SetBack(w) \/ SetAside(w)
    BY DEF Next, Shopify, Persist, Redeliver, RingStranded, JobLost, Route, Ring, RingLost, Drain,
           Settle, SetAsideRest, Finish, DatabaseAway, Dies, vars
  <1> QED
    BY <1>3, <1>4, <1>5, <1>6, <1>7, <1>8, <1>9, <1>10, <1>11, <1>12, <1>13, <1>14, <1>15

----------------------------------------------------------------------------
(* Every delivery counts. *)

(* Handling j serves i as well: it is i, or newer, or tells of the product's deletion. *)
Tells(j, i) == j = i \/ Newer(j, i) \/ rows[j].stamp = Deletion

(* A drain reads one product at a time. *)
OneProduct == \A w \in Workers : \A i, j \in drain[w].read : Same(i, j)

(* Each delivery read has one, itself or a newer, that is handled or left to handle. *)
Vouched == \A w \in Workers : drain[w].stage = "handle" =>
               \A i \in drain[w].read :
                   \E j \in drain[w].read : j \in drain[w].left \cup handled /\ Tells(j, i)

Processed == \A i \in DOMAIN rows : rows[i].status = "PROCESSED" =>
                \E j \in handled : Same(i, j) /\ Tells(j, i)

(* A drain sets aside one delivery that failed every try, and those it was read with:
   older, or handled already. *)
FailedOne == \A w \in Workers : drain[w].stage \in {"failed", "rest"} =>
               \E f \in drain[w].read : /\ drain[w].left = {f} /\ rows[f].tries >= MaxTries
                                        /\ \A i \in drain[w].read \ {f} : Newer(f, i) \/ i \in handled

GivenUp == \A i \in DOMAIN rows : rows[i].status = "FAILED" =>
              \/ rows[i].tries >= MaxTries \/ i \in handled
              \/ \E f \in DOMAIN rows : Same(f, i) /\ rows[f].tries >= MaxTries /\ Newer(f, i)

(* A set of whole numbers that is not empty has a least member. *)
LEMMA LeastExists ==
    ASSUME NEW S \in SUBSET Nat, S # {}
    PROVE  \E x \in S : \A y \in S : x <= y
  <1> DEFINE Upto(x) == {z \in S : z <= x}
             T == {Upto(x) : x \in S}
  <1>1. T \subseteq FiniteSubsetsOf(Nat)
    <2> SUFFICES ASSUME NEW x \in S  PROVE Upto(x) \in SUBSET Nat /\ IsFiniteSet(Upto(x))
      BY DEF FiniteSubsetsOf
    <2>1. x \in Nat  OBVIOUS
    <2>2. IsFiniteSet(0 .. x)  BY <2>1, FS_Interval
    <2>3. \A z \in Upto(x) : z \in 0 .. x  BY <2>1
    <2> QED  BY <2>2, <2>3, FS_Subset
  <1>2. \E U \in T : \A V \in T : ~(<<V, U>> \in StrictSubsetOrdering(Nat))
    <2> HIDE DEF T
    <2>1. T # {}  BY DEF T
    <2> QED  BY <1>1, <2>1, FS_StrictSubsetOrderingWellFounded, WFMin
  <1>3. PICK x \in S : \A y \in S : ~(<<Upto(y), Upto(x)>> \in StrictSubsetOrdering(Nat))
    BY <1>2
  <1>4. ASSUME NEW y \in S, y < x  PROVE FALSE
    <2>1. x \in Nat /\ y \in Nat  OBVIOUS
    <2>2. x \in Upto(x) /\ x \notin Upto(y)  BY <2>1, <1>4
    <2>3. \A z \in Upto(y) : z \in Upto(x)  BY <2>1, <1>4
    <2>4. Upto(x) \in SUBSET Nat /\ Upto(y) \in SUBSET Nat  OBVIOUS
    <2>5. <<Upto(y), Upto(x)>> \in StrictSubsetOrdering(Nat)
      <3> HIDE DEF Upto
      <3> QED  BY <2>2, <2>3, <2>4 DEF StrictSubsetOrdering
    <2> QED  BY <2>5, <1>3
  <1> QED  BY <1>4

(* Of the deliveries waiting for a product each has one among those picked, itself or
   one that tells more. *)
LEMMA CoalescedVouches ==
    ASSUME TypeOK, NEW ids \in SUBSET DOMAIN rows, NEW i \in ids
    PROVE  \E j \in Coalesced(ids) : j \in ids /\ Tells(j, i)
  <1>1. /\ DOMAIN rows \subseteq Nat /\ \A j \in DOMAIN rows : rows[j].stamp \in 0 .. MaxStamp + 1
        /\ MaxStamp \in Nat
    BY RowsAreRows, LimitsAssumption DEF Row, Stamps, Undated, Deletion
  <1> DEFINE deletes == {j \in ids : rows[j].stamp = Deletion}
  <1>2. CASE deletes # {}
    <2>1. deletes \in SUBSET Nat  BY <1>1
    <2>2. PICK j \in deletes : \A k \in deletes : j <= k
      <3> HIDE DEF deletes
      <3> QED  BY <1>2, <2>1, LeastExists
    <2>3. j \in Coalesced(ids)  BY <1>2, <2>2 DEF Coalesced
    <2> QED  BY <2>2, <2>3 DEF Tells
  <1>3. CASE deletes = {} /\ rows[i].stamp = Undated
    BY <1>3 DEF Coalesced, Tells
  <1>4. CASE deletes = {} /\ rows[i].stamp # Undated
    <2> DEFINE dated == {j \in ids : rows[j].stamp # Undated}
               gaps  == {Deletion - rows[j].stamp : j \in dated}
    <2>1. gaps \in SUBSET Nat /\ gaps # {}  BY <1>1, <1>4 DEF Deletion
    <2>2. PICK g \in gaps : \A h \in gaps : g <= h
      <3> HIDE DEF gaps
      <3> QED  BY <2>1, LeastExists
    <2>3. PICK j \in dated : g = Deletion - rows[j].stamp  BY <2>2
    <2>4. \A k \in dated : rows[k].stamp <= rows[j].stamp
      <3> SUFFICES ASSUME NEW k \in dated  PROVE rows[k].stamp <= rows[j].stamp
        OBVIOUS
      <3>1. Deletion - rows[j].stamp <= Deletion - rows[k].stamp  BY <2>2, <2>3
      <3> QED  BY <1>1, <3>1 DEF Deletion
    <2>5. ASSUME NEW l \in dated, rows[l].stamp = rows[j].stamp  PROVE l \in Coalesced(ids)
      <3>1. \A k \in ids : ~Newer(k, l)
        <4> SUFFICES ASSUME NEW k \in ids, Newer(k, l)  PROVE FALSE
          OBVIOUS
        <4>1. rows[k].stamp > rows[l].stamp /\ rows[l].stamp # 0  BY DEF Newer, Undated
        <4>2. k \in dated  BY <1>1, <4>1 DEF Undated
        <4> QED  BY <1>1, <2>4, <2>5, <4>1, <4>2
      <3> QED  BY <1>4, <2>5, <3>1 DEF Coalesced
    <2>6. CASE rows[i].stamp = rows[j].stamp
      BY <1>4, <2>5, <2>6 DEF Tells
    <2>7. CASE rows[i].stamp # rows[j].stamp
      <3>1. rows[j].stamp > rows[i].stamp  BY <1>1, <1>4, <2>4, <2>7
      <3> QED  BY <1>4, <2>5, <3>1 DEF Tells, Newer
    <2> QED  BY <2>6, <2>7
  <1> QED  BY <1>2, <1>3, <1>4

(* What relates two rows relates them for good. *)
LEMMA RelationsLast ==
    ASSUME TypeOK, [Next]_vars, NEW i \in DOMAIN rows, NEW j \in DOMAIN rows
    PROVE  /\ Same(i, j)' <=> Same(i, j)
           /\ Newer(i, j)' <=> Newer(i, j)
           /\ Tells(i, j)' <=> Tells(i, j)
  <1>1. Keeps(i) /\ Keeps(j)  BY RowsLast
  <1> QED  BY <1>1 DEF Keeps, Same, Newer, Tells

LEMMA OneProductStep ==
    ASSUME TypeOK, OneProduct, [Next]_vars
    PROVE  OneProduct'
  <1> SUFFICES ASSUME NEW v \in Workers, NEW i \in drain'[v].read, NEW j \in drain'[v].read
               PROVE  Same(i, j)'
    BY DEF OneProduct
  <1>1. drain[v].read \subseteq DOMAIN rows  BY DEF TypeOK
  <1>2. drain'[v].read = drain[v].read \/ \E k \in DOMAIN rows : drain'[v].read = {l \in Waiting : Same(k, l)}
    BY HandSteps
  <1>3. i \in DOMAIN rows /\ j \in DOMAIN rows /\ Same(i, j)
    BY <1>1, <1>2 DEF OneProduct, Waiting, Same
  <1> QED  BY <1>3, RelationsLast

LEMMA VouchedStep ==
    ASSUME TypeOK, Vouched, [Next]_vars
    PROVE  Vouched'
  <1> SUFFICES ASSUME NEW v \in Workers, drain'[v].stage = "handle", NEW i \in drain'[v].read
               PROVE  \E j \in drain'[v].read : j \in drain'[v].left \cup handled' /\ Tells(j, i)'
    BY DEF Vouched
  <1>1. drain[v].read \subseteq DOMAIN rows /\ handled \subseteq handled'  BY RowsLast DEF TypeOK
  <1>2. CASE /\ drain[v].stage = "handle" /\ drain'[v].read = drain[v].read
             /\ drain[v].left \subseteq drain'[v].left \cup handled'
    <2>1. PICK j \in drain[v].read : j \in drain[v].left \cup handled /\ Tells(j, i)
      BY <1>2 DEF Vouched
    <2>2. Tells(j, i)'  BY <1>1, <1>2, <2>1, RelationsLast
    <2> QED  BY <1>1, <1>2, <2>1, <2>2
  <1>3. CASE /\ drain'[v].read \subseteq Waiting /\ drain'[v].left = Coalesced(drain'[v].read)
    <2>1. drain'[v].read \in SUBSET DOMAIN rows  BY <1>3 DEF Waiting
    <2>2. PICK j \in Coalesced(drain'[v].read) : j \in drain'[v].read /\ Tells(j, i)
      BY <2>1, CoalescedVouches
    <2>3. Tells(j, i)'  BY <2>1, <2>2, RelationsLast
    <2> QED  BY <1>3, <2>2, <2>3
  <1>4. Handle(v) => drain[v].stage = "handle"  BY DEF Handle
  <1> QED  BY <1>2, <1>3, <1>4, HandSteps

LEMMA ProcessedStep ==
    ASSUME TypeOK, OneProduct, Vouched, Processed, [Next]_vars
    PROVE  Processed'
  <1> SUFFICES ASSUME NEW i \in DOMAIN rows', rows'[i].status = "PROCESSED"
               PROVE  \E j \in handled' : Same(i, j)' /\ Tells(j, i)'
    BY DEF Processed
  <1>1. i \in DOMAIN rows /\ \E j \in handled : Same(i, j) /\ Tells(j, i)
    <2>1. CASE i \in DOMAIN rows /\ rows'[i].status = rows[i].status
      BY <2>1 DEF Processed
    <2>2. ASSUME i \in DOMAIN rows, NEW w \in Workers, Settle(w), i \in drain[w].read
          PROVE  i \in DOMAIN rows /\ \E j \in handled : Same(i, j) /\ Tells(j, i)
      <3>1. drain[w].stage = "handle" /\ drain[w].left = {}  BY <2>2 DEF Settle
      <3>2. PICK j \in drain[w].read : j \in handled /\ Tells(j, i)  BY <2>2, <3>1 DEF Vouched
      <3> QED  BY <2>2, <3>2 DEF OneProduct
    <2> QED  BY <2>1, <2>2, StatusSteps
  <1>2. PICK j \in handled : Same(i, j) /\ Tells(j, i)  BY <1>1
  <1>3. j \in DOMAIN rows /\ j \in handled'  BY RowsLast
  <1> QED  BY <1>1, <1>2, <1>3, RelationsLast

LEMMA FailedOneStep ==
    ASSUME TypeOK, FailedOne, [Next]_vars, "reopened" \notin Weak, "sibling" \notin Weak
    PROVE  FailedOne'
  <1> SUFFICES ASSUME NEW v \in Workers, drain'[v].stage \in {"failed", "rest"}
               PROVE  \E f \in drain'[v].read :
                         /\ drain'[v].left = {f} /\ rows'[f].tries >= MaxTries
                         /\ \A i \in drain'[v].read \ {f} : Newer(f, i)' \/ i \in handled'
    BY DEF FailedOne
  <1>1. drain[v].read \subseteq DOMAIN rows /\ handled \subseteq handled'  BY RowsLast DEF TypeOK
  <1>2. CASE /\ drain[v].stage \in {"failed", "rest"}
             /\ drain'[v].read = drain[v].read /\ drain'[v].left = drain[v].left
    <2>1. PICK f \in drain[v].read : /\ drain[v].left = {f} /\ rows[f].tries >= MaxTries
                                     /\ \A i \in drain[v].read \ {f} : Newer(f, i) \/ i \in handled
      BY <1>2 DEF FailedOne
    <2>2. rows'[f].tries >= MaxTries
      <3>1. rows'[f].tries >= rows[f].tries /\ rows'[f].tries \in Nat /\ rows[f].tries \in Nat
        BY <1>1, TriesGrow, RowsAreRows DEF Row
      <3> QED  BY <2>1, <3>1, LimitsAssumption
    <2>3. \A i \in drain[v].read \ {f} : Newer(f, i)' \/ i \in handled'
      BY <1>1, <2>1, RelationsLast
    <2> QED  BY <1>2, <2>1, <2>2, <2>3
  <1>3. ASSUME NEW f \in drain[v].read, rows'[f].tries >= MaxTries,
               \A j \in drain[v].read \ {f} : Newer(f, j) \/ j \in handled,
               drain'[v].left = {f}, drain'[v].read = drain[v].read
        PROVE  \E g \in drain'[v].read :
                         /\ drain'[v].left = {g} /\ rows'[g].tries >= MaxTries
                         /\ \A i \in drain'[v].read \ {g} : Newer(g, i)' \/ i \in handled'
    <2>1. \A i \in drain[v].read \ {f} : Newer(f, i)' \/ i \in handled'
      BY <1>1, <1>3, RelationsLast
    <2> QED  BY <1>3, <2>1
  <1> QED  BY <1>2, <1>3, HandSteps

LEMMA GivenUpStep ==
    ASSUME TypeOK, OneProduct, FailedOne, GivenUp, [Next]_vars, "reopened" \notin Weak
    PROVE  GivenUp'
  <1> SUFFICES ASSUME NEW i \in DOMAIN rows', rows'[i].status = "FAILED"
               PROVE  \/ rows'[i].tries >= MaxTries \/ i \in handled'
                      \/ \E f \in DOMAIN rows' : Same(f, i)' /\ rows'[f].tries >= MaxTries /\ Newer(f, i)'
    BY DEF GivenUp
  <1>1. /\ i \in DOMAIN rows
        /\ \/ rows[i].tries >= MaxTries \/ i \in handled
           \/ \E f \in DOMAIN rows : Same(f, i) /\ rows[f].tries >= MaxTries /\ Newer(f, i)
    <2>1. CASE i \in DOMAIN rows /\ rows'[i].status = rows[i].status
      BY <2>1 DEF GivenUp
    <2>2. ASSUME i \in DOMAIN rows, NEW w \in Workers, drain[w].stage \in {"failed", "rest"},
                 i \in drain[w].read
          PROVE  \/ rows[i].tries >= MaxTries \/ i \in handled
                 \/ \E f \in DOMAIN rows : Same(f, i) /\ rows[f].tries >= MaxTries /\ Newer(f, i)
      <3>1. PICK f \in drain[w].read : /\ rows[f].tries >= MaxTries
                                       /\ \A j \in drain[w].read \ {f} : Newer(f, j) \/ j \in handled
        BY <2>2 DEF FailedOne
      <3>2. f \in DOMAIN rows /\ Same(f, i)  BY <2>2, <3>1 DEF OneProduct, TypeOK
      <3> QED  BY <2>2, <3>1, <3>2
    <2>3. \A w \in Workers : drain[w].left \subseteq drain[w].read  BY DEF TypeOK
    <2>4. \A w \in Workers : /\ SetAside(w) => drain[w].stage \in {"failed", "rest"}
                             /\ SetAsideRest(w) => drain[w].stage \in {"failed", "rest"}
      BY DEF SetAside, SetAsideRest
    <2> QED  BY <2>1, <2>2, <2>3, <2>4, StatusSteps
  <1>2. \A f \in DOMAIN rows : rows[f].tries >= MaxTries => f \in DOMAIN rows' /\ rows'[f].tries >= MaxTries
    <2> SUFFICES ASSUME NEW f \in DOMAIN rows, rows[f].tries >= MaxTries
                 PROVE  f \in DOMAIN rows' /\ rows'[f].tries >= MaxTries
      OBVIOUS
    <2>1. rows'[f].tries >= rows[f].tries /\ rows'[f].tries \in Nat /\ rows[f].tries \in Nat
      BY TriesGrow, RowsAreRows DEF Row
    <2> QED  BY <2>1, RowsLast, LimitsAssumption
  <1>3. handled \subseteq handled'  BY RowsLast
  <1>4. CASE rows[i].tries >= MaxTries \/ i \in handled  BY <1>1, <1>2, <1>3, <1>4
  <1>5. ASSUME NEW f \in DOMAIN rows, Same(f, i), rows[f].tries >= MaxTries, Newer(f, i)
        PROVE  f \in DOMAIN rows' /\ Same(f, i)' /\ rows'[f].tries >= MaxTries /\ Newer(f, i)'
    BY <1>1, <1>2, <1>5, RelationsLast
  <1> QED  BY <1>1, <1>4, <1>5

(* Nothing is recorded as handled that was not, itself or by one of its product that tells
   more, and none is given up before its last try but with a newer one; given that a
   delivery set aside is not sent again, and that one without a stamp, or of several with
   the newest, does not fail for good.  Drains may overlap, and stop anywhere. *)
THEOREM EveryDeliveryCountsHolds ==
    ASSUME "reopened" \notin Weak, "sibling" \notin Weak
    PROVE  Spec => []EveryDeliveryCounts
  <1> DEFINE IInv == TypeOK /\ OneProduct /\ Vouched /\ Processed /\ FailedOne /\ GivenUp
  <1>1. Init => IInv
    <2>1. Init => OneProduct /\ Vouched /\ FailedOne  BY DEF Init, OneProduct, Vouched, FailedOne, Idle
    <2>2. Init => Processed /\ GivenUp
      <3>1. DOMAIN << >> = {}  OBVIOUS
      <3> QED  BY <3>1 DEF Init, Processed, GivenUp
    <2> QED  BY <2>1, <2>2, TypeInit
  <1>2. IInv /\ [Next]_vars => IInv'
    BY TypeStep, OneProductStep, VouchedStep, ProcessedStep, FailedOneStep, GivenUpStep
  <1>3. IInv => EveryDeliveryCounts
    BY DEF Processed, GivenUp, EveryDeliveryCounts, Tells, Same
  <1> QED  BY <1>1, <1>2, <1>3, PTL DEF Spec

----------------------------------------------------------------------------
(* An older delivery never follows a newer one. *)

(* Only the worker that has the shop's job drains it. *)
OneDrain == \A w \in Workers : drain[w].stage # "idle" => job.state = "active" /\ job.worker = w

(* What a drain has read waits until the drain settles it. *)
InHand == \A w \in Workers :
            /\ drain[w].stage \in {"handle", "failed"} => drain[w].read \subseteq Waiting
            /\ drain[w].stage = "rest" => /\ drain[w].read \ drain[w].left \subseteq Waiting
                                          /\ drain[w].left \cap Waiting = {}

(* Deliveries read side by side are of one product. *)
ReadTogether == \A i \in Ids : \A j \in beside[i] : i \in DOMAIN rows /\ j \in DOMAIN rows /\ Same(i, j)

(* A drain that has a delivery in hand has the waiting older ones it was read with. *)
Joined == \A w \in Workers : \A j \in drain[w].read : \A i \in Waiting :
             j \in beside[i] => i \in drain[w].read

(* One that still waits when a newer it was read with is settled is about to be set aside. *)
Followed == \A i \in Waiting : \A j \in beside[i] \ Waiting :
              \E w \in Workers : drain[w].stage = "rest" /\ i \in drain[w].read /\ j \in drain[w].left

LEMMA OneDrainStep ==
    ASSUME TypeOK, OneDrain, [Next]_vars, "stalled" \notin Weak
    PROVE  OneDrain'
  <1>1. drain \in [Workers -> Turns] /\ job \in Jobs  BY DEF TypeOK, Jobs
  <1>2. ASSUME UNCHANGED job, \A v \in Workers : drain[v].stage = "idle" => drain'[v].stage = "idle"
        PROVE  OneDrain'
    BY <1>2 DEF OneDrain
  <1>3. ASSUME \A v \in Workers : drain'[v].stage = "idle"  PROVE OneDrain'
    BY <1>3 DEF OneDrain
  <1>4. ASSUME NEW w \in Workers, drain[w].stage # "idle", drain' = [drain EXCEPT ![w] = Idle]
        PROVE  OneDrain'
    <2>1. \A v \in Workers : v # w => drain[v].stage = "idle"  BY <1>4 DEF OneDrain
    <2> QED  BY <1>1, <1>3, <1>4, <2>1 DEF Idle
  <1>5. ASSUME NEW w \in Workers, NEW d, drain[w].stage # "idle", drain' = [drain EXCEPT ![w] = d],
               UNCHANGED job
        PROVE  OneDrain'
    BY <1>1, <1>2, <1>5
  <1>6. ASSUME job' = Rung, UNCHANGED drain  PROVE OneDrain'
    <2>1. CASE job.state = "active"
      <3>1. job' = [job EXCEPT !.next = TRUE]  BY <1>1, <1>6, <2>1, RungIsKept
      <3>2. job'.state = job.state /\ job'.worker = job.worker  BY <1>1, <3>1 DEF Jobs
      <3> QED  BY <1>6, <3>2 DEF OneDrain
    <2>2. CASE job.state # "active"  BY <1>3, <1>6, <2>2 DEF OneDrain
    <2> QED  BY <2>1, <2>2
  <1>7. ASSUME JobLost  PROVE OneDrain'
    <2>1. job.state # "active" /\ UNCHANGED drain  BY <1>7 DEF JobLost
    <2> QED  BY <1>3, <2>1 DEF OneDrain
  <1>8. ASSUME NEW w \in Workers, Take(w)  PROVE OneDrain'
    <2>1. job.state = "waiting" /\ \A v \in Workers : v # w => drain'[v] = drain[v]
      BY <1>1, <1>8 DEF Take
    <2>2. job'.state = "active" /\ job'.worker = w  BY <1>1, <1>8 DEF Take, Jobs
    <2>3. \A v \in Workers : v # w => drain'[v].stage = "idle"
      BY <2>1 DEF OneDrain
    <2> QED  BY <2>2, <2>3 DEF OneDrain
  <1>9. ASSUME NEW w \in Workers, Read(w) \/ SetBack(w)  PROVE OneDrain'
    <2>1. drain[w].stage # "idle"  BY <1>9 DEF Read, SetBack
    <2>2. \/ drain' = [drain EXCEPT ![w] = Idle]
          \/ UNCHANGED job /\ \E d : drain' = [drain EXCEPT ![w] = d]
      BY <1>9, ReadDoes, SetBackDoes DEF Read
    <2> QED  BY <1>4, <1>5, <2>1, <2>2
  <1>10. ASSUME NEW w \in Workers, Handle(w) \/ Settle(w) \/ SetAside(w) \/ SetAsideRest(w)
         PROVE  OneDrain'
    BY <1>1, <1>2, <1>10 DEF Handle, Settle, SetAside, SetAsideRest, NextProduct
  <1>11. ASSUME NEW w \in Workers, Finish(w)  PROVE OneDrain'
    BY <1>4, <1>11 DEF Finish
  <1>12. ASSUME NEW w \in Workers, DatabaseAway(w) \/ Dies(w)  PROVE OneDrain'
    <2>1. drain' = [drain EXCEPT ![w] = Idle] /\ drain[w] # Idle  BY <1>12 DEF DatabaseAway, Dies, CanStop
    <2>2. CASE drain[w].stage # "idle"  BY <1>4, <2>1, <2>2
    <2>3. CASE drain[w].stage = "idle" /\ job.worker # w
      <3>1. UNCHANGED job  BY <1>12, <2>3 DEF DatabaseAway, Dies, Retried
      <3> QED  BY <1>1, <1>2, <2>1, <3>1 DEF Idle
    <2>4. CASE drain[w].stage = "idle" /\ job.worker = w
      <3>1. \A v \in Workers : drain'[v].stage = "idle"  BY <1>1, <2>1, <2>4 DEF OneDrain, Idle
      <3> QED  BY <1>3, <3>1
    <2> QED  BY <2>2, <2>3, <2>4
  <1>13. ASSUME UNCHANGED <<job, drain>>  PROVE OneDrain'  BY <1>2, <1>13
  <1> QED
    BY <1>6, <1>7, <1>8, <1>9, <1>10, <1>11, <1>12, <1>13
    DEF Next, Shopify, Persist, Redeliver, RingStranded, Route, Ring, RingLost, Drain, vars

(* With no row sent again, one that waits waited before or is new. *)
LEMMA WaitingSteps ==
    ASSUME TypeOK, [Next]_vars, "reopened" \notin Weak
    PROVE  /\ \A i \in Waiting' : i \in Waiting \/ i \notin DOMAIN rows
           /\ \A i \in Waiting \ Waiting' :
                 \E w \in Workers : \/ Settle(w) /\ i \in drain[w].read
                                    \/ SetAside(w) /\ i \in drain[w].left
                                    \/ SetAsideRest(w) /\ i \in drain[w].read \ drain[w].left
  <1>1. DOMAIN rows \subseteq DOMAIN rows'  BY RowsLast
  <1>2. \A i \in Waiting' : i \in Waiting \/ i \notin DOMAIN rows  BY StatusSteps DEF Waiting
  <1>3. ASSUME NEW i \in Waiting \ Waiting'
        PROVE  \E w \in Workers : \/ Settle(w) /\ i \in drain[w].read
                                  \/ SetAside(w) /\ i \in drain[w].left
                                  \/ SetAsideRest(w) /\ i \in drain[w].read \ drain[w].left
    <2>1. i \in DOMAIN rows' /\ rows'[i].status # rows[i].status /\ rows[i].status = "RECEIVED"
      BY <1>1 DEF Waiting
    <2> QED  BY <2>1, StatusSteps
  <1> QED  BY <1>2, <1>3

(* What is settled is in the drain's hands, and gone from them after. *)
LEMMA Settlement ==
    ASSUME TypeOK, [Next]_vars, NEW w \in Workers
    PROVE  /\ Settle(w) => /\ drain[w].stage = "handle" /\ drain'[w].stage = "turn"
                           /\ Waiting' = Waiting \ drain[w].read
           /\ SetAside(w) => /\ drain[w].stage = "failed" /\ drain'[w].stage = "rest"
                             /\ Waiting' = Waiting \ drain[w].left
                             /\ drain'[w].read = drain[w].read /\ drain'[w].left = drain[w].left
           /\ SetAsideRest(w) => /\ drain[w].stage = "rest" /\ drain'[w].stage = "turn"
                                 /\ Waiting' = Waiting \ (drain[w].read \ drain[w].left)
  <1>1. drain \in [Workers -> Turns] /\ Waiting \subseteq DOMAIN rows  BY DEF TypeOK, Waiting
  <1>2. ASSUME NEW ids, NEW t \in {"PROCESSED", "FAILED"}, rows' = Settled(ids, t)
        PROVE  Waiting' = Waiting \ ids
    <2>1. t \in Statuses /\ t # "RECEIVED"  BY DEF Statuses
    <2> QED  BY <1>2, <2>1, SettledRows DEF Waiting
  <1>3. drain' = NextProduct(w) => drain'[w].stage = "turn"  BY <1>1 DEF NextProduct, Turns
  <1>4. ASSUME SetAside(w)
        PROVE  drain'[w].stage = "rest" /\ drain'[w].read = drain[w].read /\ drain'[w].left = drain[w].left
    BY <1>1, <1>4 DEF SetAside, Turns
  <1> QED  BY <1>2, <1>3, <1>4 DEF Settle, SetAside, SetAsideRest

LEMMA InHandStep ==
    ASSUME TypeOK, OneDrain, InHand, [Next]_vars, "reopened" \notin Weak
    PROVE  InHand'
  <1> SUFFICES ASSUME NEW v \in Workers
               PROVE  /\ drain'[v].stage \in {"handle", "failed"} => drain'[v].read \subseteq Waiting'
                      /\ drain'[v].stage = "rest" => /\ drain'[v].read \ drain'[v].left \subseteq Waiting'
                                                     /\ drain'[v].left \cap Waiting' = {}
    BY DEF InHand
  <1>1. drain[v].read \subseteq DOMAIN rows /\ drain[v].left \subseteq drain[v].read
    BY DEF TypeOK
  <1>2. ASSUME NEW w \in Workers, Settle(w) \/ SetAside(w) \/ SetAsideRest(w), drain[v].stage # "idle"
        PROVE  w = v
    BY <1>2 DEF OneDrain, Settle, SetAside, SetAsideRest
  <1>3. CASE Settle(v) \/ SetAsideRest(v)  BY <1>3, Settlement
  <1>4. CASE SetAside(v)
    <2>1. drain[v].read \subseteq Waiting  BY <1>4, Settlement DEF InHand
    <2> QED  BY <1>1, <1>4, <2>1, Settlement
  <1>5. CASE ~(Settle(v) \/ SetAside(v) \/ SetAsideRest(v)) /\ drain[v].stage # "idle"
    <2>1. Waiting \subseteq Waiting' /\ Waiting' \cap DOMAIN rows \subseteq Waiting
      BY <1>2, <1>5, WaitingSteps
    <2>2. CASE /\ drain'[v].stage = drain[v].stage
               /\ drain'[v].read = drain[v].read /\ drain'[v].left = drain[v].left
      <3>1. drain[v].left \cap Waiting' \subseteq Waiting  BY <1>1, <2>1
      <3>2. drain[v].stage \in {"handle", "failed"} => drain[v].read \subseteq Waiting'
        BY <2>1 DEF InHand
      <3>3. drain[v].stage = "rest" => /\ drain[v].read \ drain[v].left \subseteq Waiting'
                                       /\ drain[v].left \cap Waiting' = {}
        BY <2>1, <3>1 DEF InHand
      <3> QED  BY <2>2, <3>2, <3>3
    <2>3. CASE drain'[v].stage \in {"handle", "failed"} /\ drain'[v].read \subseteq Waiting
      BY <2>1, <2>3
    <2>4. Handle(v) \/ SetBack(v) => drain[v].read \subseteq Waiting
      BY DEF Handle, SetBack, InHand
    <2>5. CASE drain'[v].stage \in {"idle", "turn"}  BY <2>5
    <2>6. CASE Read(v)
      <3>1. drain'[v].stage \in {"idle", "turn"} \/ drain'[v].read \subseteq Waiting
        BY <2>6, HandSteps DEF Read, Handle, SetBack, SetAside
      <3>2. drain[v].stage = "turn"  BY <2>6 DEF Read
      <3>3. drain'[v].stage \in {"idle", "turn", "handle"}
        BY <2>6, <3>2, HandSteps DEF Handle, SetBack
      <3> QED  BY <2>3, <2>5, <3>1, <3>3
    <2> QED  BY <1>5, <2>2, <2>3, <2>4, <2>5, <2>6, HandSteps
  <1>6. CASE drain[v].stage = "idle"
    <2>1. drain'[v].stage \in {"idle", "turn"}
      BY <1>6, HandSteps DEF Read, Handle, SetBack
    <2> QED  BY <2>1
  <1> QED  BY <1>3, <1>4, <1>5, <1>6

(* Deliveries come to be beside one another when a drain reads them. *)
LEMMA BesideSteps ==
    ASSUME TypeOK, [Next]_vars, NEW i \in Ids, NEW j \in beside'[i]
    PROVE  \/ j \in beside[i]
           \/ \E w \in Workers : /\ Read(w) /\ i \in drain'[w].read /\ j \in drain'[w].read
                                 /\ i \in Waiting /\ j \in Waiting /\ Same(i, j) /\ Newer(j, i)
  <1>1. drain \in [Workers -> Turns] /\ beside \in [Ids -> SUBSET Ids]  BY DEF TypeOK
  <1>2. UNCHANGED beside \/ \E w \in Workers : Read(w)
    BY DEF Next, Shopify, Persist, Redeliver, RingStranded, JobLost, Route, Ring, RingLost, Drain, Take,
           Handle, Settle, SetBack, SetAside, SetAsideRest, Finish, DatabaseAway, Dies, vars
  <1>3. ASSUME NEW w \in Workers, Read(w)
        PROVE  \/ j \in beside[i]
               \/ /\ i \in drain'[w].read /\ j \in drain'[w].read
                  /\ i \in Waiting /\ j \in Waiting /\ Same(i, j) /\ Newer(j, i)
    <2>1. PICK k \in drain[w].todo, d \in Turns :
             LET waiting == {l \in Waiting : Same(k, l)}
             IN  /\ drain' = [drain EXCEPT ![w] = d]
                 /\ d.stage = (IF waiting = {} THEN "turn" ELSE "handle")
                 /\ d.todo = {l \in drain[w].todo : ~Same(k, l)} /\ d.full = drain[w].full
                 /\ d.read = waiting /\ d.left = Coalesced(waiting)
                 /\ beside' = [l \in Ids |-> beside[l] \cup
                                  IF l \in waiting THEN {m \in waiting : Newer(m, l)} ELSE {}]
      BY <1>3, ReadDoes
    <2>2. drain'[w].read = {l \in Waiting : Same(k, l)}  BY <1>1, <2>1
    <2>3. \/ j \in beside[i]
          \/ /\ i \in {l \in Waiting : Same(k, l)} /\ j \in {l \in Waiting : Same(k, l)}
             /\ Newer(j, i)
      BY <2>1
    <2> QED  BY <2>2, <2>3 DEF Same
  <1> QED  BY <1>2, <1>3

LEMMA ReadTogetherStep ==
    ASSUME TypeOK, ReadTogether, [Next]_vars
    PROVE  ReadTogether'
  <1> SUFFICES ASSUME NEW i \in Ids, NEW j \in beside'[i]
               PROVE  i \in DOMAIN rows' /\ j \in DOMAIN rows' /\ Same(i, j)'
    BY DEF ReadTogether
  <1>1. i \in DOMAIN rows /\ j \in DOMAIN rows /\ Same(i, j)
    BY BesideSteps DEF ReadTogether, Waiting
  <1> QED  BY <1>1, RowsLast, RelationsLast

LEMMA JoinedStep ==
    ASSUME TypeOK, Blank, OneDrain, ReadTogether, Joined, [Next]_vars, "reopened" \notin Weak
    PROVE  Joined'
  <1> SUFFICES ASSUME NEW v \in Workers, NEW j \in drain'[v].read, NEW i \in Waiting', j \in beside'[i]
               PROVE  i \in drain'[v].read
    BY DEF Joined
  <1>1. TypeOK'  BY TypeStep
  <1>2. i \in Ids
    <2>1. i \in DOMAIN rows'  BY DEF Waiting
    <2>2. Len(rows') \in Nat /\ DOMAIN rows' = 1 .. Len(rows') /\ Len(rows') <= MaxDeliveries
      BY <1>1, LenProperties DEF TypeOK
    <2> QED  BY <2>1, <2>2, BoundsAssumption DEF Ids
  <1>3. i \in DOMAIN rows /\ j \in DOMAIN rows /\ Same(i, j)
    BY <1>2, BesideSteps DEF ReadTogether, Waiting
  <1>4. i \in Waiting  BY <1>3, WaitingSteps
  <1>5. CASE \E k \in DOMAIN rows : drain'[v].read = {l \in Waiting : Same(k, l)}
    BY <1>3, <1>4, <1>5 DEF Same
  <1>6. CASE drain'[v].read = drain[v].read
    <2>1. CASE j \in beside[i]  BY <1>4, <1>6, <2>1 DEF Joined
    <2>2. ASSUME NEW w \in Workers, Read(w), i \in drain'[w].read  PROVE i \in drain'[v].read
      <3>1. drain[w].stage = "turn"  BY <2>2 DEF Read
      <3>2. drain[v].stage = "idle" \/ v = w  BY <3>1 DEF OneDrain
      <3>3. drain[v].stage = "idle" => drain[v].read = {}  BY DEF Blank, Idle
      <3> QED  BY <1>6, <2>2, <3>2, <3>3
    <2> QED  BY <1>2, <2>1, <2>2, BesideSteps
  <1> QED  BY <1>5, <1>6, HandSteps

LEMMA FollowedStep ==
    ASSUME TypeOK, OneDrain, InHand, ReadTogether, Joined, Followed, [Next]_vars,
           "reopened" \notin Weak, "between" \notin Weak
    PROVE  Followed'
  <1> SUFFICES ASSUME NEW i \in Waiting', NEW j \in beside'[i], j \notin Waiting'
               PROVE  \E w \in Workers : /\ drain'[w].stage = "rest"
                                         /\ i \in drain'[w].read /\ j \in drain'[w].left
    BY DEF Followed
  <1>1. TypeOK'  BY TypeStep
  <1>2. i \in Ids
    <2>1. i \in DOMAIN rows'  BY DEF Waiting
    <2>2. Len(rows') \in Nat /\ DOMAIN rows' = 1 .. Len(rows') /\ Len(rows') <= MaxDeliveries
      BY <1>1, LenProperties DEF TypeOK
    <2> QED  BY <2>1, <2>2, BoundsAssumption DEF Ids
  <1>3. i \in DOMAIN rows /\ j \in DOMAIN rows
    BY <1>2, BesideSteps DEF ReadTogether, Waiting
  <1>4. i \in Waiting  BY <1>3, WaitingSteps
  <1>5. CASE \E w \in Workers : Read(w) /\ j \in Waiting
    <2>1. PICK w \in Workers : Read(w) /\ j \in Waiting  BY <1>5
    <2>2. drain[w].stage = "turn"  BY <2>1 DEF Read
    <2>3. PICK v \in Workers : Settle(v) \/ SetAside(v) \/ SetAsideRest(v)  BY <2>1, WaitingSteps
    <2>4. drain[v].stage \in {"handle", "failed", "rest"}  BY <2>3, Settlement
    <2> QED  BY <2>2, <2>4 DEF OneDrain
  <1>6. CASE j \in beside[i] /\ j \in Waiting
    <2>1. PICK v \in Workers : \/ Settle(v) /\ j \in drain[v].read
                               \/ SetAside(v) /\ j \in drain[v].left
                               \/ SetAsideRest(v) /\ j \in drain[v].read \ drain[v].left
      BY <1>6, WaitingSteps
    <2>2. j \in drain[v].read  BY <2>1 DEF TypeOK
    <2>3. i \in drain[v].read  BY <1>4, <1>6, <2>2 DEF Joined
    <2>4. CASE Settle(v)  BY <2>3, <2>4, Settlement
    <2>5. CASE SetAside(v) /\ j \in drain[v].left  BY <2>3, <2>5, Settlement
    <2>6. CASE SetAsideRest(v)
      <3>1. drain[v].left \cap Waiting = {}  BY <2>6, Settlement DEF InHand
      <3> QED  BY <1>4, <2>3, <2>6, <3>1, Settlement
    <2> QED  BY <2>1, <2>4, <2>5, <2>6
  <1>7. CASE j \in beside[i] /\ j \notin Waiting
    <2>1. PICK w \in Workers : drain[w].stage = "rest" /\ i \in drain[w].read /\ j \in drain[w].left
      BY <1>4, <1>7 DEF Followed
    <2>2. CASE SetAsideRest(w)
      <3>1. drain[w].left \cap Waiting = {}  BY <2>1 DEF InHand
      <3> QED  BY <1>4, <2>1, <2>2, <3>1, Settlement
    <2>3. CASE ~SetAsideRest(w)
      <3>1. drain'[w] = drain[w]
        <4>1. drain \in [Workers -> Turns] /\ Idle.stage = "idle"  BY DEF TypeOK, Idle
        <4>2. \A v \in Workers : v # w => drain[v].stage = "idle"  BY <2>1 DEF OneDrain
        <4>3. \A v \in Workers : ~(Read(v) \/ Handle(v) \/ Settle(v) \/ SetBack(v) \/ SetAside(v) \/ Finish(v))
          BY <2>1, <4>2 DEF Read, Handle, Settle, SetBack, SetAside, Finish
        <4>4. \A v \in Workers : SetAsideRest(v) => v = w  BY <4>2 DEF SetAsideRest
        <4>5. \A v \in Workers : CanStop(v) => v # w  BY <2>1 DEF CanStop
        <4>6. ASSUME NEW v \in Workers, v # w, NEW d, drain' = [drain EXCEPT ![v] = d]
              PROVE  drain'[w] = drain[w]
          BY <4>1, <4>6
        <4>7. ASSUME NEW v \in Workers, Take(v)  PROVE drain'[w] = drain[w]
          <5>1. v # w  BY <2>1, <4>1, <4>7 DEF Take
          <5>2. \E d : drain' = [drain EXCEPT ![v] = d]  BY <4>7 DEF Take
          <5> QED  BY <4>6, <5>1, <5>2
        <4>8. ASSUME NEW v \in Workers, DatabaseAway(v) \/ Dies(v)  PROVE drain'[w] = drain[w]
          <5>1. v # w  BY <4>5, <4>8 DEF DatabaseAway, Dies
          <5>2. drain' = drain \/ drain' = [drain EXCEPT ![v] = Idle]  BY <4>8 DEF DatabaseAway, Dies
          <5> QED  BY <4>6, <5>1, <5>2
        <4> QED
          BY <2>3, <4>3, <4>4, <4>7, <4>8
          DEF Next, Shopify, Persist, Redeliver, RingStranded, JobLost, Route, Ring, RingLost, Drain, vars
      <3> QED  BY <2>1, <3>1
    <2> QED  BY <2>2, <2>3
  <1> QED  BY <1>2, <1>5, <1>6, <1>7, BesideSteps

(* A delivery read beside a newer one is not handled once the newer was settled, given that
   no drain stops between the two statements that set deliveries aside, no delivery set
   aside is sent again, and no job is taken for lost while its drain goes on: whatever
   arrives, however often drains fail and die otherwise, and whichever turn reads what. *)
THEOREM OlderNeverFollowsHolds ==
    ASSUME "between" \notin Weak, "reopened" \notin Weak, "stalled" \notin Weak
    PROVE  Spec => OlderNeverFollows
  <1> DEFINE IInv == TypeOK /\ Blank /\ OneDrain /\ InHand /\ ReadTogether /\ Joined /\ Followed
             Follows == \A i \in DOMAIN rows : i \in handled' \ handled =>
                           \A j \in beside[i] : rows[j].status = "RECEIVED"
  <1>1. Init => IInv
    <2>1. Init => Blank /\ OneDrain /\ InHand /\ Joined /\ ReadTogether
      BY DEF Init, Blank, OneDrain, InHand, ReadTogether, Joined, Idle
    <2>2. Init => Followed
      <3>1. DOMAIN << >> = {}  OBVIOUS
      <3> QED  BY <3>1 DEF Init, Followed, Waiting
    <2> QED  BY <2>1, <2>2, TypeInit
  <1>2. IInv /\ [Next]_vars => IInv'
    BY TypeStep, BlankStep, OneDrainStep, InHandStep, ReadTogetherStep, JoinedStep, FollowedStep
  <1>3. IInv /\ [Next]_vars => [Follows]_vars
    <2> SUFFICES ASSUME IInv, [Next]_vars, NEW i \in DOMAIN rows, i \in handled' \ handled,
                        NEW j \in beside[i]
                 PROVE  rows[j].status = "RECEIVED"
      OBVIOUS
    <2>1. handled' = handled \/ \E w \in Workers : Handle(w)
      BY DEF Next, Shopify, Persist, Redeliver, RingStranded, JobLost, Route, Ring, RingLost, Drain, Take,
             Read, Settle, SetBack, SetAside, SetAsideRest, Finish, DatabaseAway, Dies, vars
    <2>2. PICK w \in Workers : Handle(w)  BY <2>1
    <2>3. drain[w].stage = "handle" /\ i \in drain[w].left  BY <2>2 DEF Handle, NextOf
    <2>4. i \in Waiting  BY <2>3 DEF InHand, TypeOK
    <2>5. j \in Waiting
      <3>1. \A v \in Workers : drain[v].stage # "rest"  BY <2>3 DEF OneDrain
      <3> QED  BY <2>4, <3>1 DEF Followed
    <2> QED  BY <2>5 DEF Waiting
  <1>4. IInv /\ [][Next]_vars => [][Follows]_vars
    <2> HIDE DEF IInv, Follows
    <2> QED  BY <1>2, <1>3, PTL
  <1> QED  BY <1>1, <1>4, PTL DEF Spec, OlderNeverFollows

----------------------------------------------------------------------------
(* The mirror that the handled deliveries, the syncs, the healer and the runs
   all write (MirrorVersions), for any prices, length of the second and bounds. *)
CONSTANTS Prices, PerSecond, MirrorWeak, MaxTime, MaxRuns, MaxEdits
VARIABLES now, updated, wrote, syncedAt, intents, ledger, runs, edits

M == INSTANCE MirrorVersions WITH Weak <- MirrorWeak

Given == M!PricesAssumption /\ M!WeakAssumption /\ M!BoundsAssumption

LEMMA DivMod == ASSUME NEW t \in Nat, NEW p \in Nat \ {0}
                PROVE  /\ t = p * (t \div p) + (t % p)
                       /\ t \div p \in Nat /\ t % p \in Nat /\ t % p < p
  BY Z3

(* The tick a second began is a tick, not after it, and time passes seconds in order. *)
LEMMA Seconds ==
    ASSUME Given, NEW t \in M!Ticks
    PROVE  /\ M!Second(t) \in M!Stamps /\ M!Second(t) \in Nat /\ M!Second(t) <= t
           /\ M!Second(0) = 0
  <1>1. PerSecond \in Nat \ {0} /\ t \in Nat
    BY DEF Given, M!BoundsAssumption, M!Ticks
  <1>2. t % PerSecond \in Nat /\ t % PerSecond <= t
    <2>1. t = PerSecond * (t \div PerSecond) + (t % PerSecond) /\ t \div PerSecond \in Nat /\ t % PerSecond \in Nat
      BY <1>1, DivMod
    <2>2. PerSecond * (t \div PerSecond) \in Nat
      BY <1>1, <2>1
    <2> QED BY <1>1, <2>1, <2>2
  <1>3. 0 % PerSecond = 0
    BY <1>1
  <1> QED BY <1>1, <1>2, <1>3 DEF M!Second, M!Stamps

LEMMA SecondsPass ==
    ASSUME Given, NEW t \in Nat
    PROVE  M!Second(t) <= M!Second(t + 1)
  <1> DEFINE p == PerSecond
             q == t \div p
             r == t % p
             Q == (t + 1) \div p
             R == (t + 1) % p
  <1>1. p \in Nat \ {0}
    BY DEF Given, M!BoundsAssumption
  <1>2. t = p * q + r /\ q \in Nat /\ r \in Nat /\ r < p
    BY <1>1, DivMod
  <1>3. t + 1 = p * Q + R /\ Q \in Nat /\ R \in Nat /\ R < p
    BY <1>1, DivMod
  <1> HIDE DEF p, q, r, Q, R
  <1>4. p * q <= p * Q
    <2>1. SUFFICES ASSUME q > Q PROVE FALSE
      BY <1>1, <1>2, <1>3
    <2>2. PICK k \in Nat : q = Q + 1 + k
      <3>1. q - Q - 1 \in Nat /\ q = Q + 1 + (q - Q - 1)
        BY <1>2, <1>3, <2>1
      <3> QED BY <3>1
    <2>3. p * q = p * Q + p + p * k /\ p * k \in Nat
      BY <1>1, <1>3, <2>2
    <2> QED BY <1>1, <1>2, <1>3, <2>3
  <1>5. t - r = p * q /\ (t + 1) - R = p * Q
    BY <1>1, <1>2, <1>3
  <1> QED BY <1>4, <1>5 DEF M!Second, p, r, R

LEMMA SameSecond ==
    ASSUME Given, NEW s \in Nat, NEW t \in Nat, s <= t, M!Second(t) < s
    PROVE  M!Second(s) = M!Second(t)
  <1> DEFINE p == PerSecond
             q == s \div p
             r == s % p
             Q == t \div p
             R == t % p
  <1>1. p \in Nat \ {0}
    BY DEF Given, M!BoundsAssumption
  <1>2. s = p * q + r /\ q \in Nat /\ r \in Nat /\ r < p
    BY <1>1, DivMod
  <1>3. t = p * Q + R /\ Q \in Nat /\ R \in Nat /\ R < p
    BY <1>1, DivMod
  <1>0. M!Second(t) = t - R /\ M!Second(s) = s - r
    BY DEF M!Second
  <1> HIDE DEF p, q, r, Q, R
  <1>4. p * Q < s /\ p * Q \in Nat /\ p * q \in Nat
    BY <1>0, <1>1, <1>2, <1>3
  <1>5. ~(q > Q)
    <2>1. SUFFICES ASSUME q > Q PROVE FALSE
      OBVIOUS
    <2>2. PICK k \in Nat : q = Q + 1 + k
      <3>1. q - Q - 1 \in Nat /\ q = Q + 1 + (q - Q - 1)
        BY <1>2, <1>3, <2>1
      <3> QED BY <3>1
    <2>3. p * q = p * Q + p + p * k /\ p * k \in Nat
      BY <1>1, <1>3, <2>2
    <2> QED BY <1>1, <1>2, <1>3, <1>4, <2>3
  <1>6. ~(q < Q)
    <2>1. SUFFICES ASSUME q < Q PROVE FALSE
      OBVIOUS
    <2>2. PICK k \in Nat : Q = q + 1 + k
      <3>1. Q - q - 1 \in Nat /\ Q = q + 1 + (Q - q - 1)
        BY <1>2, <1>3, <2>1
      <3> QED BY <3>1
    <2>3. p * Q = p * q + p + p * k /\ p * k \in Nat
      BY <1>1, <1>2, <2>2
    <2> QED BY <1>1, <1>2, <1>3, <1>4, <2>3
  <1>7. q = Q
    BY <1>2, <1>3, <1>5, <1>6
  <1> QED BY <1>0, <1>2, <1>3, <1>4, <1>7

----------------------------------------------------------------------------
(* Types. *)

Gone  == live = "gone"
Typed == M!TypeOK /\ (~Gone => updated \in M!Stamps)

Stages == {"none", "planned", "landed", "lost", "recorded", "stamped", "unsaid"}

LEMMA TypedInit == Given /\ M!Init => Typed
  <1> SUFFICES ASSUME Given, M!Init PROVE Typed
    OBVIOUS
  <1>1. 0 \in M!Ticks
    BY DEF Given, M!BoundsAssumption, M!Ticks
  <1>2. 0 \in M!Stamps
    BY <1>1, Seconds
  <1>3. {"base", "sale"} \subseteq Prices /\ 0 \in 0 .. MaxRuns /\ 0 \in 0 .. MaxEdits
    BY DEF Given, M!PricesAssumption, M!BoundsAssumption
  <1>4. M!NoRead \in M!Reads /\ M!NoRow \in M!Rows
    BY <1>2, <1>3 DEF M!NoRead, M!Reads, M!NoRow, M!Rows, M!Shown
  <1> QED BY <1>1, <1>2, <1>3, <1>4 DEF M!Init, Typed, M!TypeOK, M!Shown

LEMMA Clock ==
    ASSUME Given, Typed
    PROVE  /\ now \in Nat /\ M!Second(now) \in M!Stamps /\ M!Second(now) \in Nat /\ M!Second(now) <= now
           /\ M!Stamps \subseteq M!Ticks /\ M!Ticks \subseteq Nat
  <1>1. now \in M!Ticks /\ M!Ticks \subseteq Nat
    BY DEF Typed, M!TypeOK, M!Ticks
  <1>2. M!Second(now) \in M!Stamps /\ M!Second(now) \in Nat /\ M!Second(now) <= now
    BY <1>1, Seconds
  <1>3. ASSUME NEW s \in M!Stamps PROVE s \in M!Ticks
    <2>1. PICK t \in M!Ticks : s = M!Second(t)
      BY DEF M!Stamps
    <2>2. s \in Nat /\ s <= t
      BY <2>1, Seconds
    <2> QED BY <2>1, <2>2 DEF Given, M!BoundsAssumption, M!Ticks
  <1> QED BY <1>1, <1>2, <1>3

LEMMA TypedShopify ==
    ASSUME Given, Typed, M!Tick \/ M!Touch \/ M!Delete \/ \E p \in Prices : M!Edit(p)
    PROVE  Typed'
  <1> USE DEF Typed, M!TypeOK, M!shopify, M!mirror, M!books, M!readers, Gone
  <1>1. "gone" \notin Prices
    BY DEF Given, M!PricesAssumption
  <1>2. CASE M!Tick
    BY <1>2 DEF M!Tick, M!Ticks, Given, M!BoundsAssumption
  <1>3. ASSUME NEW p \in Prices, M!Changed(p)
        PROVE  live' = p /\ updated' \in M!Ticks /\ updated' \in M!Stamps /\ sent' \subseteq M!Reads
    BY <1>3, Clock DEF M!Changed, M!Reads
  <1>4. CASE M!Touch
    <2>1. live \in Prices
      BY <1>4 DEF M!Touch, M!Changed
    <2> QED BY <1>3, <1>4, <2>1 DEF M!Touch, Given, M!BoundsAssumption
  <1>5. CASE M!Delete
    BY <1>5 DEF M!Delete, Given, M!BoundsAssumption
  <1>6. ASSUME NEW p \in Prices, M!Edit(p) PROVE Typed'
    BY <1>3, <1>6 DEF M!Edit, Given, M!BoundsAssumption
  <1> QED BY <1>2, <1>4, <1>5, <1>6

LEMMA TypedDrain ==
    ASSUME Given, Typed, M!Drain \/ M!Sync \/ M!Heal
    PROVE  Typed'
  <1> USE DEF Typed, M!TypeOK, M!shopify, M!mirror, M!books, M!readers, Gone
  <1>1. ASSUME NEW r \in sent, M!Delivery(r) PROVE Typed'
    <2>1. CASE M!EchoDropped(r) \/ M!Superseded(r) \/ M!Stale(r)
      BY <2>1 DEF M!EchoDropped, M!Superseded, M!Stale
    <2>2. CASE M!Take(r)
      <3>1. sent' \subseteq M!Reads /\ r \in M!Reads
        BY <2>2 DEF M!Take
      <3> QED BY <2>2, <3>1 DEF M!Take
    <2> QED BY <1>1, <2>1, <2>2 DEF M!Delivery
  <1>2. CASE M!WebhookIndex \/ M!WebhookSurface \/ M!Tombstone
    BY <1>2, Clock DEF M!WebhookIndex, M!WebhookSurface, M!Tombstone, M!Reads, M!Shown
  <1>3. CASE M!SyncBegin
    <2>1. M!NoRead \in M!Reads
      BY Seconds DEF M!NoRead, M!Reads, Given, M!PricesAssumption, M!BoundsAssumption, M!Stamps, M!Ticks
    <2> QED BY <1>3, <2>1 DEF M!SyncBegin
  <1>4. CASE M!SyncRead
    <2>1. ~Gone => [stamp |-> updated, price |-> live] \in M!Reads
      BY DEF M!Reads
    <2> QED BY <1>4, <2>1 DEF M!SyncRead
  <1>5. CASE M!SyncWrite
    <2>1. sync.read.price \in Prices /\ sync.read.stamp \in M!Ticks
      BY Clock DEF M!Reads
    <2>2. sync' \in [stage : {"none", "begun", "read"}, at : M!Ticks, read : M!Reads]
      BY <1>5 DEF M!SyncWrite
    <2>3. UNCHANGED M!mirror \/ (M!Mirrored(sync.read.price) /\ version' = sync.read.stamp /\ deleted' = FALSE)
      BY <1>5 DEF M!SyncWrite
    <2>4. UNCHANGED <<now, M!shopify, M!books, hand, heal, edits>>
      BY <1>5 DEF M!SyncWrite
    <2>5. index' \in M!Shown /\ surface' \in M!Shown /\ version' \in M!Ticks /\ syncedAt' \in M!Ticks /\ deleted' \in BOOLEAN
      BY <2>1, <2>3 DEF M!Mirrored, M!Shown
    <2> QED BY <2>2, <2>4, <2>5
  <1>6. CASE M!Heal
    BY <1>6 DEF M!Heal, M!HealRead, M!HealWrite, M!Mirrored, M!Shown
  <1> QED BY <1>1, <1>2, <1>3, <1>4, <1>5, <1>6 DEF M!Drain, M!Sync

LEMMA TypedRun ==
    ASSUME Given, Typed, M!Run
    PROVE  Typed'
  <1> USE DEF Typed, M!TypeOK, M!shopify, M!mirror, M!books, M!readers, Gone
  <1>1. "gone" \notin Prices /\ {"base", "sale"} \subseteq Prices
    BY DEF Given, M!PricesAssumption
  <1>2. ASSUME NEW want \in {"base", "sale"}, M!Plan(want) PROVE Typed'
    <2>1. 0 \in M!Stamps
      BY Seconds DEF Given, M!BoundsAssumption, M!Stamps, M!Ticks
    <2>2. [before |-> surface, want |-> want, stamp |-> 0] \in M!Rows
      BY <2>1 DEF M!Rows
    <2> QED BY <1>2, <2>2 DEF M!Plan, Given, M!BoundsAssumption
  <1>3. CASE M!Lands
    <2>1. run.row \in M!Rows
      OBVIOUS
    <2>2. run.row.want \in Prices /\ [run.row EXCEPT !.stamp = M!Second(now)] \in M!Rows
      BY <1>1, <2>1, Clock DEF M!Rows
    <2>3. /\ live' \in Prices /\ updated' \in M!Stamps /\ sent' \subseteq M!Reads /\ wrote' = now
          /\ run' \in [stage : {"landed", "lost"}, row : M!Rows]
      BY <1>3, <2>2, Clock DEF M!Lands, M!Changed, M!Reads
    <2>4. run' \in [stage : Stages, row : M!Rows]
      BY <2>3 DEF Stages
    <2> QED BY <1>3, <2>3, <2>4, Clock DEF M!Lands, M!Changed, Stages
  <1>4. CASE M!Fails \/ M!Skips
    BY <1>4 DEF M!Fails, M!Skips
  <1>5. CASE M!Record
    BY <1>5 DEF M!Record
  <1>6. CASE M!SettleIndex
    BY <1>6, Clock DEF M!SettleIndex, M!Rows, M!Shown, Given, M!PricesAssumption
  <1>7. CASE M!SettleSurface
    BY <1>7 DEF M!SettleSurface, M!Rows, M!Shown, Given, M!PricesAssumption
  <1>8. CASE M!UnknownSurface \/ M!UnknownIndex
    BY <1>8 DEF M!UnknownSurface, M!UnknownIndex, M!Shown
  <1>9. CASE M!Expire
    BY <1>9 DEF M!Expire
  <1> QED BY <1>2, <1>3, <1>4, <1>5, <1>6, <1>7, <1>8, <1>9 DEF M!Run

LEMMA TypedStep == Given /\ Typed /\ [M!Next]_(M!vars) => Typed'
  <1> SUFFICES ASSUME Given, Typed, [M!Next]_(M!vars) PROVE Typed'
    OBVIOUS
  <1>1. CASE UNCHANGED M!vars
    BY <1>1 DEF M!vars, Typed, M!TypeOK, Gone
  <1> QED BY <1>1, TypedShopify, TypedDrain, TypedRun DEF M!Next

(* The mirror's variables have their types. *)
THEOREM MirrorTyped == Given => (M!Spec => []M!TypeOK)
  <1> SUFFICES ASSUME Given PROVE M!Spec => []M!TypeOK
    OBVIOUS
  <1>1. M!Init => Typed
    BY TypedInit
  <1>2. Typed /\ [M!Next]_(M!vars) => Typed'
    BY TypedStep
  <1>3. Typed => M!TypeOK
    BY DEF Typed
  <1> QED BY <1>1, <1>2, <1>3, PTL DEF M!Spec

----------------------------------------------------------------------------
(* Stamps and versions only grow, and a tombstone is newer than anything still out. *)

Flying(r) == \/ r \in sent
             \/ hand.stage # "none" /\ r = hand.read
             \/ sync.stage = "read" /\ r = sync.read
Settling  == run.stage \in {"landed", "recorded", "stamped"}

Timed ==
    /\ updated <= now /\ wrote <= now /\ syncedAt <= now /\ sync.at <= now /\ version <= now
    /\ ~Gone => version <= updated /\ updated <= M!Second(now)
    /\ \A r \in M!Reads : Flying(r) => r.stamp <= updated
    /\ Settling => run.row.stamp <= updated /\ run.row.stamp <= wrote
    /\ \A c \in ledger : c.stamp <= wrote
    /\ run.stage = "unsaid" => wrote < now

Buried ==
    /\ Gone <=> deletion # "none"
    /\ deleted <=> deletion = "handled"
    /\ deletion = "handled" => version > updated /\ hand.stage = "none"

Checked == hand.stage = "checked" => version <= hand.read.stamp

Order == Typed /\ Timed /\ Buried /\ Checked

LEMMA OrderInit == Given /\ M!Init => Order
  <1> SUFFICES ASSUME Given, M!Init PROVE Order
    OBVIOUS
  <1>1. Typed
    BY TypedInit
  <1>2. M!Second(0) = 0
    BY Seconds DEF Given, M!BoundsAssumption, M!Ticks
  <1>3. "gone" # "base"
    OBVIOUS
  <1> QED BY <1>1, <1>2 DEF M!Init, Order, Timed, Buried, Checked, Flying, Settling, Gone

(* What the types say of the numbers. *)
Numeric == /\ now \in Nat /\ updated \in Nat /\ version \in Nat /\ syncedAt \in Nat /\ wrote \in Int
           /\ sync.at \in Nat /\ run.row.stamp \in Nat
           /\ hand.read \in M!Reads /\ sync.read \in M!Reads
           /\ \A r \in M!Reads : r.stamp \in Nat /\ r.price \in Prices
           /\ \A c \in ledger : c.stamp \in Nat
           /\ M!Second(now) \in Nat /\ M!Second(now) <= now

LEMMA Numbers == Given /\ Typed => Numeric
  <1> SUFFICES ASSUME Given, Typed PROVE Numeric
    OBVIOUS
  <1>1. M!Stamps \subseteq Nat /\ M!Ticks \subseteq Nat
    BY Clock
  <1>2. run.row \in M!Rows /\ ledger \subseteq M!Rows
    BY DEF Typed, M!TypeOK
  <1>3. \A r \in M!Reads : r.stamp \in Nat /\ r.price \in Prices
    BY <1>1 DEF M!Reads
  <1>4. run.row.stamp \in Nat /\ \A c \in ledger : c.stamp \in Nat
    BY <1>1, <1>2 DEF M!Rows
  <1>5. /\ now \in Nat /\ updated \in Nat /\ version \in Nat /\ syncedAt \in Nat /\ wrote \in Int
        /\ sync.at \in Nat /\ hand.read \in M!Reads /\ sync.read \in M!Reads
    <2>1. /\ now \in M!Ticks /\ updated \in M!Ticks /\ version \in M!Ticks /\ syncedAt \in M!Ticks
          /\ wrote \in M!Ticks \cup {-1}
          /\ sync.at \in M!Ticks /\ hand.read \in M!Reads /\ sync.read \in M!Reads
      BY DEF Typed, M!TypeOK
    <2>2. wrote \in Int
      BY <1>1, <2>1
    <2> QED BY <1>1, <2>1, <2>2
  <1> QED BY <1>3, <1>4, <1>5, Clock DEF Numeric

(* A change of the product. *)
LEMMA ChangedStamps ==
    ASSUME Given, Order, NEW p, M!Changed(p)
    PROVE  /\ ~Gone /\ live' = p /\ updated' = M!Second(now) /\ updated <= updated'
           /\ sent' = sent \cup {[stamp |-> updated', price |-> p]}
BY DEF M!Changed, Order, Timed, Gone

LEMMA OrderShopify ==
    ASSUME Given, Order, M!Tick \/ M!Touch \/ M!Delete \/ \E p \in Prices : M!Edit(p)
    PROVE  Timed' /\ Buried' /\ Checked'
  <1> USE DEF Order, Numeric, M!shopify, M!mirror, M!books, M!readers
  <1>0. Numeric
    BY Numbers
  <1>1. "gone" \notin Prices
    BY DEF Given, M!PricesAssumption
  <1>2. CASE M!Tick
    <2>1. M!Second(now) <= M!Second(now')
      BY <1>0, <1>2, SecondsPass DEF M!Tick
    <2>2. M!Second(now') = M!Second(now)'
      BY DEF M!Second
    <2>3. M!Second(now') \in Nat
      BY <1>0, <1>2, Seconds DEF M!Tick, M!Ticks, Given, M!BoundsAssumption
    <2> QED BY <1>0, <1>2, <2>1, <2>2, <2>3 DEF M!Tick, Timed, Buried, Checked, Flying, Settling, Gone
  <1>3. ASSUME NEW p \in Prices, M!Changed(p),
               UNCHANGED <<now, deletion, wrote, index, surface, version, syncedAt, deleted,
                           intents, ledger, run, hand, sync>>
        PROVE  Timed' /\ Buried' /\ Checked'
    <2>1. M!Second(now)' = M!Second(now)
      BY <1>3 DEF M!Second
    <2> QED BY <1>0, <1>1, <1>3, <2>1, ChangedStamps DEF Timed, Buried, Checked, Flying, Settling, Gone
  <1>4. CASE M!Touch
    <2>1. live \in Prices
      BY <1>4 DEF M!Touch, M!Changed, Typed, M!TypeOK
    <2> QED BY <1>3, <1>4, <2>1 DEF M!Touch
  <1>5. CASE M!Delete
    BY <1>0, <1>5 DEF M!Delete, Timed, Buried, Checked, Flying, Settling, Gone
  <1>6. ASSUME NEW p \in Prices, M!Edit(p) PROVE Timed' /\ Buried' /\ Checked'
    BY <1>3, <1>6 DEF M!Edit
  <1> QED BY <1>2, <1>4, <1>5, <1>6

LEMMA OrderDrain ==
    ASSUME Given, "check" \notin MirrorWeak, Order, M!Drain \/ M!Sync \/ M!Heal
    PROVE  Timed' /\ Buried' /\ Checked'
  <1> USE DEF Order, Numeric, M!shopify, M!mirror, M!books, M!readers
  <1>0. Numeric
    BY Numbers
  <1>1. M!Second(now') = M!Second(now)'
    BY DEF M!Second
  <1> USE <1>0, <1>1 DEF Timed, Buried, Checked, Flying, Settling, Gone
  <1>2. ASSUME NEW r \in sent, M!EchoDropped(r) \/ M!Superseded(r) \/ M!Stale(r) PROVE Timed' /\ Buried' /\ Checked'
    BY <1>2 DEF M!EchoDropped, M!Superseded, M!Stale
  <1>3. ASSUME NEW r \in sent, M!Take(r) PROVE Timed' /\ Buried' /\ Checked'
    <2>1. r \in M!Reads /\ r.stamp \in Nat /\ r.stamp <= updated /\ version <= r.stamp
      BY <1>3 DEF M!Take, M!HeldIsNewer, Typed, M!TypeOK
    <2> QED BY <1>3, <2>1 DEF M!Take
  <1>4. CASE M!WebhookIndex
    BY <1>4 DEF M!WebhookIndex
  <1>5. CASE M!WebhookSurface
    BY <1>5 DEF M!WebhookSurface
  <1>6. CASE M!Tombstone
    BY <1>6 DEF M!Tombstone
  <1>7. CASE M!SyncBegin
    BY <1>7 DEF M!SyncBegin
  <1>8. CASE M!SyncRead
    BY <1>8 DEF M!SyncRead
  <1>9. CASE M!SyncWrite
    BY <1>9 DEF M!SyncWrite, M!HeldIsNewer, M!Mirrored, M!NotChecked, M!NoneChecked
  <1>10. CASE M!Heal
    BY <1>10 DEF M!Heal, M!HealRead, M!HealWrite, M!Mirrored, M!NoneChecked
  <1> QED BY <1>2, <1>3, <1>4, <1>5, <1>6, <1>7, <1>8, <1>9, <1>10 DEF M!Drain, M!Delivery, M!Sync

LEMMA OrderRun ==
    ASSUME Given, "check" \notin MirrorWeak, Order, M!Run
    PROVE  Timed' /\ Buried' /\ Checked'
  <1> USE DEF Order, Numeric, M!shopify, M!mirror, M!books, M!readers
  <1>0. Numeric
    BY Numbers
  <1>1. M!Second(now') = M!Second(now)'
    BY DEF M!Second
  <1>2. "gone" \notin Prices /\ run.row \in M!Rows /\ run.row.want \in Prices
    BY DEF Given, M!PricesAssumption, Typed, M!TypeOK, M!Rows
  <1> USE <1>0, <1>1, <1>2 DEF Timed, Buried, Checked, Flying, Settling, Gone
  <1>3. ASSUME NEW want \in {"base", "sale"}, M!Plan(want) PROVE Timed' /\ Buried' /\ Checked'
    BY <1>3 DEF M!Plan
  <1>4. CASE M!Lands
    <2>1. /\ ~Gone /\ live' = run.row.want /\ updated' = M!Second(now) /\ updated <= updated'
          /\ sent' = sent \cup {[stamp |-> updated', price |-> run.row.want]}
      BY <1>4, ChangedStamps DEF M!Lands
    <2>2. run' = [stage |-> run'.stage, row |-> run'.row] /\ run'.row.stamp = M!Second(now) /\ run'.stage \in {"landed", "lost"}
      BY <1>4 DEF M!Lands, M!Rows
    <2> QED BY <1>4, <2>1, <2>2 DEF M!Lands
  <1>5. CASE M!Fails \/ M!Skips
    BY <1>5 DEF M!Fails, M!Skips, Typed, M!TypeOK
  <1>6. CASE M!Record
    BY <1>6 DEF M!Record, Typed, M!TypeOK
  <1>7. CASE M!SettleIndex
    BY <1>7 DEF M!SettleIndex, M!NotNewer, M!NotChecked, M!NoneChecked, Typed, M!TypeOK
  <1>8. CASE M!SettleSurface \/ M!UnknownSurface
    BY <1>8 DEF M!SettleSurface, M!UnknownSurface, Typed, M!TypeOK
  <1>9. CASE M!UnknownIndex \/ M!Expire
    BY <1>9 DEF M!UnknownIndex, M!Expire, Typed, M!TypeOK
  <1> QED BY <1>3, <1>4, <1>5, <1>6, <1>7, <1>8, <1>9 DEF M!Run

LEMMA OrderStep ==
    ASSUME Given, "check" \notin MirrorWeak, Order, [M!Next]_(M!vars)
    PROVE  Order'
  <1>1. Typed'
    BY TypedStep DEF Order
  <1>2. CASE UNCHANGED M!vars
    <2>1. M!Second(now)' = M!Second(now)
      BY <1>2 DEF M!vars, M!Second
    <2> QED BY <1>1, <1>2, <2>1 DEF M!vars, Order, Timed, Buried, Checked, Flying, Settling, Gone
  <1>3. CASE M!Next
    BY <1>1, <1>3, OrderShopify, OrderDrain, OrderRun DEF M!Next, Order
  <1> QED BY <1>2, <1>3

LEMMA OrderHolds == ASSUME Given, "check" \notin MirrorWeak PROVE M!Spec => []Order
  <1>1. M!Init => Order
    BY OrderInit
  <1>2. Order /\ [M!Next]_(M!vars) => Order'
    BY OrderStep
  <1> QED BY <1>1, <1>2, PTL DEF M!Spec

(* What any one step does to the version and the tombstone. *)
Onward == version' >= version /\ (deletion = "handled" => deleted')

LEMMA Goes ==
    ASSUME Given, "check" \notin MirrorWeak, Order, M!Next
    PROVE  Onward
  <1> USE DEF Order, Numeric, M!shopify, M!mirror, M!books, M!readers, Onward
  <1>0. Numeric
    BY Numbers
  <1> USE <1>0
  <1>1. CASE M!WebhookIndex
    BY <1>1 DEF M!WebhookIndex, Checked, Buried
  <1>2. CASE M!Tombstone
    BY <1>2 DEF M!Tombstone, Timed
  <1>3. CASE M!SyncWrite
    <2>1. CASE M!HeldIsNewer(sync.read, sync.at)
      BY <1>3, <2>1 DEF M!SyncWrite, Buried
    <2>2. CASE ~M!HeldIsNewer(sync.read, sync.at)
      <3>1. sync.stage = "read" /\ version <= sync.read.stamp /\ version' = sync.read.stamp
        BY <1>3, <2>2 DEF M!SyncWrite, M!HeldIsNewer
      <3>2. deletion # "handled"
        BY <3>1 DEF Buried, Timed, Flying
      <3> QED BY <3>1, <3>2
    <2> QED BY <2>1, <2>2
  <1>4. CASE M!SettleIndex
    BY <1>4 DEF M!SettleIndex, M!NotNewer, Buried
  <1>5. CASE M!Tick \/ M!Touch \/ M!Delete \/ \E p \in Prices : M!Edit(p)
    BY <1>5 DEF M!Tick, M!Touch, M!Delete, M!Edit, Buried
  <1>6. CASE (\E r \in sent : M!Delivery(r)) \/ M!WebhookSurface \/ M!SyncBegin \/ M!SyncRead \/ M!Heal
    BY <1>6 DEF M!Delivery, M!EchoDropped, M!Superseded, M!Stale, M!Take, M!WebhookSurface, M!SyncBegin, M!SyncRead,
                M!Heal, M!HealRead, M!HealWrite, Buried
  <1>7. CASE M!Run
    BY <1>4, <1>7 DEF M!Run, M!Plan, M!Lands, M!Fails, M!Skips, M!Record, M!SettleSurface, M!UnknownSurface,
                      M!UnknownIndex, M!Expire, Buried
  <1> QED BY <1>1, <1>2, <1>3, <1>5, <1>6, <1>7 DEF M!Next, M!Drain, M!Sync

(* No write of the mirror puts an older version over a newer one, nor brings
   back a deleted product, whoever writes, unless a webhook's check and its
   writes can be parted by another's ("check"): every reader compares the
   versions in the statement that writes, the run's settling too. *)
THEOREM NothingIsUndoneHolds ==
    ASSUME Given, "check" \notin MirrorWeak
    PROVE  M!Spec => NothingIsUndone
  <1>1. Order /\ [M!Next]_(M!vars) => [Onward]_<<version, deleted>>
    BY Goes DEF M!vars
  <1>2. M!Spec => [][Onward]_<<version, deleted>>
    BY <1>1, OrderHolds, PTL DEF M!Spec
  <1> QED BY <1>2 DEF NothingIsUndone, Onward

----------------------------------------------------------------------------
(* With every gap closed, the mirror ends at the price.  What the runs and the
   worker have in hand: *)

Mute     == index = "unknown"
Known(r) == \E c \in ledger : c.stamp = r.stamp /\ c.before = r.price /\ c.want # r.price
Answered == run.stage \in {"landed", "recorded"} /\ run.row.want = live

(* a delivery that was checked would be let in again, one half written is the index, *)
Handed ==
    /\ hand.stage # "none" => run.stage # "unsaid"
    /\ hand.stage = "checked" => ~(Mute /\ syncedAt > hand.read.stamp)
    /\ hand.stage = "indexed" => version = hand.read.stamp /\ index = hand.read.price
    /\ run.stage = "unsaid" => surface = "unknown"
    /\ run.stage # "none" => run.row.want \in intents

(* a price other than the run's came after it, *)
Moved == ~Gone /\ Settling /\ run.row.want # live => run.row.stamp < updated

(* an older price of the latest second is one that a run replaced, *)
Traced == ~Gone => \A r \in M!Reads :
    Flying(r) /\ r.stamp = updated /\ r.price # live
      => Known(r) \/ (run.stage = "landed" /\ run.row.stamp = updated /\ run.row.before = r.price)

(* and while the price is the run's, nothing else is out from after it, nothing
   later in the mirror, and no price read before it beside a later version. *)
Standing == ~Gone /\ Answered =>
    /\ \A r \in M!Reads : Flying(r) /\ r.stamp >= run.row.stamp /\ r.price # live
          => r.stamp = run.row.stamp /\ (Known(r) \/ (run.stage = "landed" /\ run.row.before = r.price))
    /\ version > run.row.stamp => index = live /\ (surface = live \/ hand.stage = "indexed")
    /\ heal.stage = "read" /\ heal.price # live => version <= run.row.stamp

Works == Order /\ Handed /\ Moved /\ Traced /\ Standing

LEMMA WorksInit == Given /\ M!Init => Works
  <1> SUFFICES ASSUME Given, M!Init PROVE Works
    OBVIOUS
  <1> QED BY OrderInit DEF M!Init, Works, Handed, Moved, Traced, Standing, Answered, Settling, Flying

LEMMA HandedStep ==
    ASSUME Given, MirrorWeak = {}, Order, Handed, M!Next
    PROVE  Handed'
  <1> USE DEF Handed, M!shopify, M!mirror, M!books, M!readers, Mute
  <1>1. Numeric /\ "unknown" \notin Prices
    BY Numbers DEF Order, Given, M!PricesAssumption
  <1>2. CASE M!Tick \/ M!Touch \/ M!Delete \/ \E p \in Prices : M!Edit(p)
    BY <1>2 DEF M!Tick, M!Touch, M!Delete, M!Edit
  <1>3. ASSUME NEW r \in sent, M!Delivery(r) PROVE Handed'
    BY <1>3 DEF M!Delivery, M!EchoDropped, M!Superseded, M!Stale, M!Take, M!HeldIsNewer, M!NoneUnsaid
  <1>4. CASE M!WebhookIndex
    BY <1>1, <1>4 DEF M!WebhookIndex, Numeric
  <1>5. CASE M!WebhookSurface \/ M!Tombstone
    BY <1>5 DEF M!WebhookSurface, M!Tombstone, M!NoneUnsaid, Order, Typed, M!TypeOK
  <1>6. CASE M!Sync
    BY <1>6 DEF M!Sync, M!SyncBegin, M!SyncRead, M!SyncWrite, M!Mirrored, M!NotChecked, M!NoneChecked, M!NoneUnsaid
  <1>7. CASE M!Heal
    BY <1>1, <1>7 DEF M!Heal, M!HealRead, M!HealWrite, M!Mirrored, M!NoneChecked, M!NoneUnsaid
  <1>8. ASSUME NEW want \in {"base", "sale"}, M!Plan(want) PROVE Handed'
    BY <1>8 DEF M!Plan
  <1>9. CASE M!Lands
    <2>1. run'.stage \in {"landed", "lost"} /\ run'.row.want = run.row.want
      BY <1>9 DEF M!Lands, Order, Typed, M!TypeOK, M!Rows
    <2> QED BY <1>9, <2>1 DEF M!Lands, M!Changed
  <1>10. CASE M!Fails \/ M!Skips \/ M!Record
    BY <1>10 DEF M!Fails, M!Skips, M!Record, Order, Typed, M!TypeOK
  <1>11. CASE M!SettleIndex \/ M!SettleSurface \/ M!UnknownSurface
    BY <1>11 DEF M!SettleIndex, M!SettleSurface, M!UnknownSurface, M!NotChecked, M!NoneChecked, Order, Typed, M!TypeOK
  <1>12. CASE M!UnknownIndex \/ M!Expire
    BY <1>12 DEF M!UnknownIndex, M!Expire, M!NotChecked, M!NoneChecked, Order, Typed, M!TypeOK
  <1> QED BY <1>2, <1>3, <1>4, <1>5, <1>6, <1>7, <1>8, <1>9, <1>10, <1>11, <1>12 DEF M!Next, M!Drain, M!Run

(* What a change does to what is out. *)
LEMMA Fresher ==
    ASSUME Given, Order, NEW p \in Prices, M!Changed(p), UNCHANGED <<hand, sync>>, NEW r \in M!Reads, Flying(r)'
    PROVE  \/ r.stamp = updated' /\ r.price = p
           \/ Flying(r) /\ r.stamp <= updated /\ r.stamp <= updated'
  <1>1. Numeric
    BY Numbers DEF Order
  <1>2. /\ updated <= updated' /\ updated' \in Nat
        /\ sent' = sent \cup {[stamp |-> updated', price |-> p]}
    BY <1>1, ChangedStamps DEF Numeric
  <1>3. CASE Flying(r)
    BY <1>1, <1>2, <1>3 DEF Order, Timed, Numeric
  <1>4. CASE ~Flying(r)
    BY <1>2, <1>4 DEF Flying
  <1> QED BY <1>3, <1>4

LEMMA LandsRow ==
    ASSUME Given, Order, M!Lands
    PROVE  /\ run.stage = "planned" /\ run.row.want \in Prices
           /\ run'.stage \in {"landed", "lost"} /\ run'.row.want = run.row.want
           /\ run'.row.before = run.row.before /\ run'.row.stamp = M!Second(now)
           /\ MirrorWeak = {} /\ updated = M!Second(now) => run'.stage = "landed" /\ run.row.before = live
BY DEF M!Lands, Order, Typed, M!TypeOK, M!Rows, Given, M!PricesAssumption

LEMMA MovedStep ==
    ASSUME Given, MirrorWeak = {}, Order, Handed, Moved, M!Next
    PROVE  Moved'
  <1> USE DEF Moved, Settling, Gone, M!shopify, M!mirror, M!books, M!readers
  <1>1. Numeric /\ "gone" \notin Prices
    BY Numbers DEF Order, Given, M!PricesAssumption
  <1>2. CASE M!Tick \/ M!Delete
    BY <1>2 DEF M!Tick, M!Delete
  <1>3. CASE M!Touch
    BY <1>1, <1>3, ChangedStamps DEF M!Touch, Numeric
  <1>4. ASSUME NEW p \in Prices, M!Edit(p) PROVE Moved'
    <2>1. /\ updated < updated' /\ updated' \in Nat /\ run' = run
          /\ Settling => run.row.stamp <= updated
      BY <1>1, <1>4, ChangedStamps DEF M!Edit, Numeric, Order, Timed
    <2> QED BY <1>1, <2>1 DEF Numeric
  <1>5. CASE M!Lands
    <2>1. live' = run'.row.want
      BY <1>5, LandsRow DEF M!Lands, M!Changed
    <2> QED BY <2>1
  <1>6. CASE M!Drain \/ M!Sync \/ M!Heal
    BY <1>6 DEF M!Drain, M!Delivery, M!EchoDropped, M!Superseded, M!Stale, M!Take, M!WebhookIndex, M!WebhookSurface,
                M!Tombstone, M!Sync, M!SyncBegin, M!SyncRead, M!SyncWrite, M!Heal, M!HealRead, M!HealWrite
  <1>7. CASE (\E want \in {"base", "sale"} : M!Plan(want)) \/ M!Fails \/ M!Skips \/ M!Record \/ M!Expire
    BY <1>7 DEF M!Plan, M!Fails, M!Skips, M!Record, M!Expire, Order, Typed, M!TypeOK
  <1>8. CASE M!SettleIndex \/ M!SettleSurface \/ M!UnknownSurface \/ M!UnknownIndex
    BY <1>8 DEF M!SettleIndex, M!SettleSurface, M!UnknownSurface, M!UnknownIndex, Order, Typed, M!TypeOK
  <1> QED BY <1>2, <1>3, <1>4, <1>5, <1>6, <1>7, <1>8 DEF M!Next, M!Run

(* A step that leaves Shopify and the runs alone takes nothing out but what the
   product looks like now. *)
LEMMA Onlooker ==
    ASSUME Given, Order, M!Drain \/ M!Sync \/ M!Heal
    PROVE  /\ UNCHANGED <<now, live, updated, wrote, intents, ledger, run, runs>>
           /\ \A r \in M!Reads : Flying(r)' => Flying(r) \/ (r.stamp = updated /\ r.price = live)
           /\ deletion' \in {deletion, "handled"} /\ (deletion' # deletion => Gone)
  <1> USE DEF M!shopify, M!mirror, M!books, M!readers, Flying
  <1>1. ASSUME NEW r \in sent, M!Delivery(r)
        PROVE  /\ UNCHANGED <<now, live, updated, wrote, intents, ledger, run, runs, deletion>>
               /\ \A q \in M!Reads : Flying(q)' => Flying(q)
    BY <1>1 DEF M!Delivery, M!EchoDropped, M!Superseded, M!Stale, M!Take
  <1>2. CASE M!WebhookIndex \/ M!WebhookSurface \/ M!Tombstone
    BY <1>2 DEF M!WebhookIndex, M!WebhookSurface, M!Tombstone, Order, Typed, M!TypeOK, Buried, Gone
  <1>3. CASE M!Sync
    <2>1. CASE M!SyncBegin \/ M!SyncWrite
      BY <2>1 DEF M!SyncBegin, M!SyncWrite, Order, Typed, M!TypeOK
    <2>2. CASE M!SyncRead
      BY <2>2 DEF M!SyncRead, Order, Typed, M!TypeOK
    <2> QED BY <1>3, <2>1, <2>2 DEF M!Sync
  <1>4. CASE M!Heal
    BY <1>4 DEF M!Heal, M!HealRead, M!HealWrite
  <1> QED BY <1>1, <1>2, <1>3, <1>4 DEF M!Drain

LEMMA TracedStep ==
    ASSUME Given, MirrorWeak = {}, Order, Handed, Moved, Traced, M!Next
    PROVE  Traced'
  <1> USE DEF Traced, Gone, Known
  <1>1. Numeric /\ "gone" \notin Prices
    BY Numbers DEF Order, Given, M!PricesAssumption
  <1>2. CASE M!Tick \/ M!Delete
    BY <1>2 DEF M!Tick, M!Delete, M!shopify, M!mirror, M!books, M!readers, Flying
  <1>3. ASSUME NEW p \in Prices, M!Changed(p), UNCHANGED <<hand, sync, ledger, run>>, p = live \/ updated # M!Second(now)
        PROVE  Traced'
    <2> SUFFICES ASSUME NEW r \in M!Reads, Flying(r)', r.stamp = updated', r.price # live'
                 PROVE  Known(r)' \/ (run.stage = "landed" /\ run.row.stamp = updated' /\ run.row.before = r.price)
      BY <1>3
    <2>1. live' = p /\ ~Gone /\ updated' = M!Second(now) /\ updated <= updated'
      BY <1>3, ChangedStamps
    <2>2. Flying(r) /\ r.stamp <= updated
      BY <1>3, <2>1, Fresher
    <2>3. updated' = updated /\ r.stamp = updated /\ p = live
      BY <1>1, <1>3, <2>1, <2>2 DEF Numeric
    <2> QED BY <1>3, <2>1, <2>2, <2>3
  <1>4. CASE M!Touch
    <2>1. live \in Prices
      BY <1>4 DEF M!Touch, M!Changed, Order, Typed, M!TypeOK
    <2> QED BY <1>3, <1>4, <2>1 DEF M!Touch, M!shopify, M!mirror, M!books, M!readers
  <1>5. ASSUME NEW p \in Prices, M!Edit(p) PROVE Traced'
    BY <1>3, <1>5 DEF M!Edit, M!shopify, M!mirror, M!books, M!readers
  <1>6. CASE M!Lands
    <2>0. run.stage = "planned" /\ run.row.want \in Prices /\ M!Changed(run.row.want) /\ UNCHANGED <<hand, sync, ledger>>
      BY <1>6, LandsRow DEF M!Lands, M!readers
    <2> SUFFICES ASSUME NEW r \in M!Reads, Flying(r)', r.stamp = updated', r.price # live'
                 PROVE  Known(r)' \/ (run'.stage = "landed" /\ run'.row.stamp = updated' /\ run'.row.before = r.price)
      BY DEF Known
    <2>1. live' = run.row.want /\ ~Gone /\ updated' = M!Second(now) /\ updated <= updated'
      BY <2>0, ChangedStamps
    <2>2. Flying(r) /\ r.stamp <= updated
      BY <2>0, <2>1, Fresher
    <2>3. updated = M!Second(now) /\ r.stamp = updated
      BY <1>1, <2>1, <2>2 DEF Numeric
    <2>4. run'.stage = "landed" /\ run'.row.before = live /\ run'.row.stamp = updated'
      BY <1>6, <2>1, <2>3, LandsRow
    <2> QED BY <2>0, <2>1, <2>2, <2>3, <2>4
  <1>7. CASE M!Drain \/ M!Sync \/ M!Heal
    BY <1>7, Onlooker
  <1>8. CASE M!Record
    <2>1. /\ run.stage = "landed" /\ ledger' = ledger \cup {run.row} /\ UNCHANGED <<live, updated, sent, hand, sync>>
      BY <1>8 DEF M!Record, M!shopify, M!readers
    <2>2. \A r \in M!Reads : Flying(r)' => Flying(r)
      BY <2>1 DEF Flying
    <2>3. run.row.want # live /\ ~Gone => run.row.stamp # updated
      BY <1>1, <2>1 DEF Moved, Settling, Numeric
    <2>4. \A r : Known(r) => Known(r)'
      BY <2>1
    <2>5. ASSUME NEW r \in M!Reads, run.row.stamp = updated, run.row.before = r.price, r.price # live, r.stamp = updated, ~Gone
          PROVE  Known(r)'
      BY <2>1, <2>3, <2>5
    <2> QED BY <2>1, <2>2, <2>4, <2>5
  <1>9. CASE (\E want \in {"base", "sale"} : M!Plan(want)) \/ M!Fails \/ M!Skips \/ M!Expire
    BY <1>9 DEF M!Plan, M!Fails, M!Skips, M!Expire, M!shopify, M!mirror, M!books, M!readers, Flying
  <1>10. CASE M!SettleIndex \/ M!SettleSurface \/ M!UnknownSurface \/ M!UnknownIndex
    BY <1>10 DEF M!SettleIndex, M!SettleSurface, M!UnknownSurface, M!UnknownIndex, M!shopify, M!mirror, M!books, M!readers, Flying
  <1> QED BY <1>2, <1>4, <1>5, <1>6, <1>7, <1>8, <1>9, <1>10 DEF M!Next, M!Run

(* The parts of Standing. *)
NoneAfter == \A r \in M!Reads : Flying(r) /\ r.stamp >= run.row.stamp /\ r.price # live
               => r.stamp = run.row.stamp /\ (Known(r) \/ (run.stage = "landed" /\ run.row.before = r.price))
Mirrors   == version > run.row.stamp => index = live /\ (surface = live \/ hand.stage = "indexed")
Unhealed  == heal.stage = "read" /\ heal.price # live => version <= run.row.stamp

LEMMA StandingStep ==
    ASSUME Given, MirrorWeak = {}, Works, M!Next
    PROVE  Standing'
  <1> USE DEF Works
  <1>0. Standing <=> (~Gone /\ Answered => NoneAfter /\ Mirrors /\ Unhealed)
    BY DEF Standing, NoneAfter, Mirrors, Unhealed
  <1>00. (Standing <=> (~Gone /\ Answered => NoneAfter /\ Mirrors /\ Unhealed))'
    BY DEF Standing, NoneAfter, Mirrors, Unhealed
  <1> SUFFICES ASSUME ~Gone', Answered' PROVE (NoneAfter /\ Mirrors /\ Unhealed)'
    BY <1>00
  <1>1. Numeric /\ "gone" \notin Prices /\ "unknown" \notin Prices
    BY Numbers DEF Order, Given, M!PricesAssumption
  <1>2. CASE M!Tick \/ M!Delete
    <2>1. M!Tick
      BY <1>2 DEF M!Delete, Gone
    <2> QED BY <1>0, <2>1 DEF M!Tick, M!shopify, M!mirror, M!books, M!readers, NoneAfter, Mirrors, Unhealed,
                              Gone, Answered, Flying, Known
  <1>3. CASE M!Touch
    <2>1. live \in Prices /\ ~Gone /\ live' = live /\ M!Changed(live) /\ updated <= updated'
      BY <1>3, ChangedStamps DEF M!Touch, M!Changed, Order, Typed, M!TypeOK, Gone
    <2>2. UNCHANGED <<now, run, ledger, hand, sync, heal, index, surface, version>>
      BY <1>3 DEF M!Touch, M!mirror, M!books, M!readers
    <2>3. NoneAfter /\ Mirrors /\ Unhealed
      BY <1>0, <2>1, <2>2 DEF Answered
    <2>4. NoneAfter'
      <3> SUFFICES ASSUME NEW r \in M!Reads, Flying(r)', r.price # live, r.stamp >= run.row.stamp
                   PROVE  r.stamp = run.row.stamp /\ (Known(r) \/ (run.stage = "landed" /\ run.row.before = r.price))
        BY <2>1, <2>2 DEF NoneAfter, Known
      <3>1. Flying(r)
        BY <2>1, <2>2, Fresher
      <3> QED BY <2>3, <3>1 DEF NoneAfter
    <2> QED BY <2>1, <2>2, <2>3, <2>4 DEF Mirrors, Unhealed
  <1>4. ASSUME NEW p \in Prices, M!Edit(p) PROVE FALSE
    <2>1. p \notin intents /\ live' = p /\ run' = run
      BY <1>4 DEF M!Edit, M!Changed, M!books
    <2> QED BY <2>1 DEF Answered, Handed
  <1>5. CASE M!Lands
    <2>0. /\ run.stage = "planned" /\ run.row.want \in Prices /\ M!Changed(run.row.want)
          /\ UNCHANGED <<hand, sync, heal, ledger, index, surface, version>>
      BY <1>5, LandsRow DEF M!Lands, M!readers, M!mirror
    <2>1. live' = run.row.want /\ ~Gone /\ updated' = M!Second(now) /\ updated <= updated'
          /\ run'.row.stamp = updated' /\ version <= updated
      BY <1>5, <2>0, ChangedStamps, LandsRow DEF Order, Timed
    <2>2. NoneAfter'
      <3> SUFFICES ASSUME NEW r \in M!Reads, Flying(r)', r.price # live', r.stamp >= updated'
                   PROVE  r.stamp = updated' /\ (Known(r) \/ (run'.stage = "landed" /\ run'.row.before = r.price))
        BY <2>0, <2>1 DEF NoneAfter, Known
      <3>1. Flying(r) /\ r.stamp <= updated
        BY <2>0, <2>1, Fresher
      <3>2. r.stamp = updated /\ updated = updated'
        BY <1>1, <2>1, <3>1 DEF Numeric
      <3>3. run'.stage = "landed" /\ run'.row.before = live
        BY <1>5, <2>1, <3>2, LandsRow
      <3> QED BY <2>0, <2>1, <3>1, <3>2, <3>3 DEF Traced
    <2> QED BY <1>1, <2>0, <2>1, <2>2 DEF Mirrors, Unhealed, Numeric
  <1>6. CASE M!Drain \/ M!Sync \/ M!Heal
    <2>0. NoneAfter /\ Mirrors /\ Unhealed /\ ~Gone /\ Answered
      BY <1>0, <1>6, Onlooker DEF Gone, Answered
    <2>1. NoneAfter'
      BY <1>6, <2>0, Onlooker DEF NoneAfter, Known
    <2> SUFFICES (Mirrors /\ Unhealed)'
      BY <2>1
    <2>2. Typed /\ live \in Prices
      BY <2>0 DEF Order, Typed, M!TypeOK, Gone
    <2> USE DEF M!shopify, M!mirror, M!books, M!readers, Numeric
    <2>3. ASSUME NEW r \in sent, M!Delivery(r) PROVE (Mirrors /\ Unhealed)'
      BY <2>0, <2>3 DEF M!Delivery, M!EchoDropped, M!Superseded, M!Stale, M!Take, Mirrors, Unhealed
    <2>4. CASE M!WebhookIndex /\ M!NoneHealing
      <3>1. hand.stage = "checked" /\ heal.stage = "none" /\ UNCHANGED <<live, run, heal, surface>>
            /\ index' = hand.read.price /\ version' = hand.read.stamp /\ hand'.stage = "indexed"
        BY <2>4 DEF M!WebhookIndex, M!NoneHealing, Order, Typed, M!TypeOK
      <3>2. hand.read.stamp > run.row.stamp => hand.read.price = live
        BY <1>1, <2>0, <3>1 DEF NoneAfter, Flying
      <3> QED BY <3>1, <3>2 DEF Mirrors, Unhealed
    <2>5. CASE M!WebhookSurface /\ M!NoneHealing
      BY <2>0, <2>5 DEF M!WebhookSurface, M!NoneHealing, Mirrors, Unhealed, Handed
    <2>6. CASE M!Tombstone
      BY <2>0, <2>6 DEF M!Tombstone, Order, Buried
    <2>7. CASE M!SyncBegin \/ M!SyncRead
      BY <2>0, <2>7 DEF M!SyncBegin, M!SyncRead, Mirrors, Unhealed
    <2>8. CASE M!SyncWrite
      <3>1. CASE UNCHANGED <<index, surface, version>>
        BY <2>0, <2>8, <3>1 DEF M!SyncWrite, Mirrors, Unhealed
      <3>2. CASE M!Mirrored(sync.read.price) /\ version' = sync.read.stamp
        <4>1. sync.stage = "read" /\ heal.stage = "none" /\ UNCHANGED <<live, run, heal>>
          BY <2>8 DEF M!SyncWrite, M!NotChecked, M!NoneHealing
        <4>2. sync.read.stamp > run.row.stamp => sync.read.price = live
          BY <1>1, <2>0, <4>1 DEF NoneAfter, Flying
        <4> QED BY <3>2, <4>1, <4>2 DEF M!Mirrored, Mirrors, Unhealed
      <3> QED BY <2>8, <3>1, <3>2 DEF M!SyncWrite
    <2>9. CASE M!HealRead
      BY <2>0, <2>9 DEF M!HealRead, Mirrors, Unhealed
    <2>10. CASE M!HealWrite
      BY <1>1, <2>0, <2>10 DEF M!HealWrite, M!Mirrored, Mirrors, Unhealed
    <2> QED BY <1>6, <2>3, <2>4, <2>5, <2>6, <2>7, <2>8, <2>9, <2>10 DEF M!Drain, M!Sync, M!Heal
  <1>7. CASE M!Record
    <2>1. /\ run.stage = "landed" /\ ledger' = ledger \cup {run.row} /\ run'.row = run.row /\ run'.stage = "recorded"
          /\ UNCHANGED <<live, sent, hand, sync, heal, index, surface, version>>
      BY <1>7 DEF M!Record, M!shopify, M!readers, M!mirror, Order, Typed, M!TypeOK
    <2>2. NoneAfter /\ Mirrors /\ Unhealed
      BY <1>0, <2>1 DEF Answered, Gone
    <2>3. \A r \in M!Reads : Flying(r)' => Flying(r)
      BY <2>1 DEF Flying
    <2>4. ASSUME NEW r \in M!Reads, Flying(r), r.stamp >= run.row.stamp, r.price # live
          PROVE  r.stamp = run.row.stamp /\ Known(r)'
      <3>1. r.stamp = run.row.stamp /\ (Known(r) \/ run.row.before = r.price)
        BY <2>2, <2>4 DEF NoneAfter
      <3>2. run.row.want = live
        BY <2>1 DEF Answered
      <3> QED BY <2>1, <2>4, <3>1, <3>2 DEF Known
    <2> QED BY <2>1, <2>2, <2>3, <2>4 DEF NoneAfter, Mirrors, Unhealed
  <1>8. CASE (\E want \in {"base", "sale"} : M!Plan(want)) \/ M!Fails \/ M!Skips
             \/ M!SettleIndex \/ M!SettleSurface \/ M!UnknownSurface \/ M!UnknownIndex \/ M!Expire
    <2>1. run'.stage \notin {"landed", "recorded"}
      BY <1>8 DEF M!Plan, M!Fails, M!Skips, M!SettleIndex, M!SettleSurface, M!UnknownSurface, M!UnknownIndex, M!Expire,
                  Order, Typed, M!TypeOK
    <2> QED BY <2>1 DEF Answered
  <1> QED BY <1>2, <1>3, <1>4, <1>5, <1>6, <1>7, <1>8 DEF M!Next, M!Run

----------------------------------------------------------------------------
(* Either the latest delivery is still out and will be let in, *)

Latest == [stamp |-> updated, price |-> live]
Coming == Latest \in sent /\ version < updated /\ ~(Mute /\ syncedAt > updated)
Chased ==
    /\ live \notin intents
    /\ \A r \in M!Reads : Flying(r) /\ r.stamp = updated => r.price = live
    /\ Coming \/ (hand.stage = "checked" /\ hand.read.stamp = updated)

(* or a run is about to say what it wrote, or that nobody knows, *)
Pending == \/ run.stage \in {"lost", "unsaid"}
           \/ run.stage \in {"planned", "landed", "recorded"} /\ run.row.want = live

(* or the mirror is right, and nothing that is still out can make it wrong. *)
Past(r, v) == v > r.stamp \/ (v = r.stamp /\ Known(r))
Shows ==
    /\ index \in {live, "unknown"}
    /\ \/ surface \in {live, "unknown"}
       \/ hand.stage = "indexed"
       \/ run.stage = "stamped" /\ run.row.want = live /\ version <= run.row.stamp
Shut ==
    /\ hand.stage # "none" => hand.read.price = live
    /\ \A r \in sent : r.price # live =>
          \/ Past(r, version)
          \/ /\ Mute /\ syncedAt > r.stamp
             /\ sync.stage = "read" /\ sync.at >= syncedAt /\ sync.read.price = live => Past(r, sync.read.stamp)
    /\ sync.stage = "read" /\ sync.read.price # live =>
          Past(sync.read, version) \/ (Mute /\ syncedAt > sync.at /\ syncedAt > sync.read.stamp)
    /\ Settling /\ run.row.want # live => version > run.row.stamp
    /\ heal.stage = "read" => heal.price = live /\ \A r \in M!Reads : Flying(r) => r.price = live
Right == Shows /\ Shut

CaughtUp == ~Gone => Chased \/ Pending \/ Right

LEMMA FollowsInit == Given /\ M!Init => CaughtUp
  <1> SUFFICES ASSUME Given, M!Init PROVE CaughtUp
    OBVIOUS
  <1> QED BY DEF M!Init, CaughtUp, Right, Shows, Shut, Settling, Mute

(* Whoever is let in with the latest stamp shows the price. *)
LEMMA LetIn ==
    ASSUME Given, Works, ~Gone, NEW v \in M!Stamps, v = updated,
           \A r \in M!Reads : Flying(r) /\ r.stamp = updated => r.price = live
    PROVE  /\ \A r \in sent : r.price # live => v > r.stamp
           /\ sync.stage = "read" /\ sync.read.price # live => v > sync.read.stamp
           /\ Settling /\ run.row.want # live => v > run.row.stamp
  <1>1. Numeric /\ sent \subseteq M!Reads
    BY Numbers DEF Works, Order, Typed, M!TypeOK
  <1>2. \A r \in M!Reads : Flying(r) => r.stamp <= updated
    BY DEF Works, Order, Timed
  <1>3. \A r \in M!Reads : Flying(r) /\ r.price # live => r.stamp < updated
    BY <1>1, <1>2 DEF Numeric
  <1> QED BY <1>1, <1>3 DEF Flying, Works, Moved, Numeric

LEMMA FollowsShopify ==
    ASSUME Given, MirrorWeak = {}, Works, CaughtUp, M!Tick \/ M!Touch \/ M!Delete \/ \E p \in Prices : M!Edit(p)
    PROVE  CaughtUp'
  <1> USE DEF Works, Numeric
  <1>1. Numeric /\ "gone" \notin Prices /\ sent \subseteq M!Reads
    BY Numbers DEF Order, Given, M!PricesAssumption, Typed, M!TypeOK
  <1>2. CASE M!Tick
    BY <1>2 DEF M!Tick, M!shopify, M!mirror, M!books, M!readers, CaughtUp, Chased, Coming, Latest, Pending, Right, Shows,
                Shut, Flying, Known, Past, Mute, Settling, Gone
  <1>3. CASE M!Delete
    BY <1>3 DEF M!Delete, CaughtUp, Gone
  <1>4. CASE M!Touch
    <2>1. /\ live \in Prices /\ ~Gone /\ live' = live /\ M!Changed(live) /\ updated <= updated' /\ updated' \in Nat
          /\ sent' = sent \cup {Latest'}
      BY <1>1, <1>4, ChangedStamps DEF M!Touch, M!Changed, Order, Typed, M!TypeOK, Gone, Latest
    <2>2. UNCHANGED <<now, intents, run, ledger, hand, sync, heal, index, surface, version, syncedAt>>
      BY <1>4 DEF M!Touch, M!mirror, M!books, M!readers
    <2>3. CASE Pending
      BY <2>1, <2>2, <2>3 DEF Pending, CaughtUp
    <2>4. CASE Chased
      <3>1. ASSUME NEW r \in M!Reads, Flying(r)', r.stamp = updated' PROVE r.price = live
        BY <1>1, <2>1, <2>2, <2>4, <3>1, Fresher DEF Chased
      <3> SUFFICES Coming' \/ (hand'.stage = "checked" /\ hand'.read.stamp = updated')
        BY <2>1, <2>2, <2>4, <3>1 DEF Chased, CaughtUp
      <3>2. CASE Coming
        BY <1>1, <2>1, <2>2, <3>2 DEF Coming, Mute
      <3>3. CASE hand.stage = "checked" /\ hand.read.stamp = updated
        <4>1. version <= updated /\ ~(Mute /\ syncedAt > updated)
          BY <3>3 DEF Order, Checked, Handed
        <4>2. CASE updated = updated'
          BY <2>2, <3>3, <4>2
        <4>3. CASE updated < updated'
          BY <1>1, <2>1, <2>2, <4>1, <4>3 DEF Coming, Mute
        <4> QED BY <1>1, <2>1, <2>2, <3>3, <4>2, <4>3
      <3> QED BY <2>4, <3>2, <3>3 DEF Chased
    <2>5. CASE Right
      <3>1. Shows'
        BY <2>1, <2>2, <2>5 DEF Right, Shows
      <3>2. Latest'.price = live
        BY <2>1 DEF Latest
      <3>3. \A r \in M!Reads : Flying(r)' => Flying(r) \/ r.price = live
        BY <2>1, <2>2, Fresher
      <3>4. Shut'
        BY <2>1, <2>2, <2>5, <3>2, <3>3 DEF Right, Shut, Past, Known, Mute, Settling
      <3> QED BY <3>1, <3>4 DEF Right, CaughtUp
    <2> QED BY <2>1, <2>3, <2>4, <2>5 DEF CaughtUp
  <1>5. ASSUME NEW p \in Prices, M!Edit(p) PROVE CaughtUp'
    <2>1. /\ ~Gone /\ live' = p /\ updated' = M!Second(now) /\ sent' = sent \cup {Latest'}
          /\ updated < updated' /\ version <= updated
          /\ UNCHANGED <<now, intents, hand, sync, index, version, syncedAt>> /\ p \notin intents /\ M!Changed(p)
          /\ ~(Mute /\ M!Second(syncedAt) = M!Second(now))
      BY <1>1, <1>5, ChangedStamps DEF M!Edit, Order, Timed, Latest, M!mirror, M!books, M!readers, Mute
    <2>2. ASSUME NEW r \in M!Reads, Flying(r)', r.stamp = updated' PROVE r.price = p
      BY <1>1, <2>1, <2>2, Fresher
    <2>3. Mute => syncedAt <= M!Second(now)
      BY <1>1, <2>1, SameSecond DEF Order, Timed
    <2> QED BY <1>1, <2>1, <2>2, <2>3 DEF CaughtUp, Chased, Coming, Mute
  <1> QED BY <1>2, <1>3, <1>4, <1>5

(* What stays so while Shopify and the runs stand still. *)
LEMMA Still ==
    ASSUME Given, Order, M!Drain \/ M!Sync \/ M!Heal, ~Gone
    PROVE  /\ ~Gone' /\ deletion # "sent" /\ sent \subseteq M!Reads
           /\ Pending => Pending'
           /\ (\A r \in M!Reads : Flying(r) /\ r.stamp = updated => r.price = live)
                => (\A r \in M!Reads : Flying(r) /\ r.stamp = updated => r.price = live)'
           /\ \A r, v : Past(r, v) <=> Past(r, v)'
  <1>1. /\ UNCHANGED <<now, live, updated, wrote, intents, ledger, run, runs>>
        /\ \A r \in M!Reads : Flying(r)' => Flying(r) \/ (r.stamp = updated /\ r.price = live)
    BY Onlooker
  <1>2. deletion = "none" /\ sent \subseteq M!Reads
    BY DEF Order, Buried, Typed, M!TypeOK
  <1> QED BY <1>1, <1>2 DEF Gone, Pending, Past, Known

LEMMA FollowsDeliveries ==
    ASSUME Given, MirrorWeak = {}, Works, CaughtUp, NEW read \in sent, M!Delivery(read), M!Drain
    PROVE  CaughtUp'
  <1> SUFFICES ASSUME ~Gone PROVE (Chased \/ Pending \/ Right)'
    BY Onlooker DEF CaughtUp, Works, Gone
  <1> USE DEF Works, Numeric
  <1>1. Numeric /\ sent \subseteq M!Reads /\ "unknown" \notin Prices /\ deletion # "sent"
    BY Numbers, Still DEF Order, Given, M!PricesAssumption
  <1>2. UNCHANGED <<live, updated, intents, ledger, run, index, surface, version, syncedAt, sync, heal>>
    BY DEF M!Delivery, M!EchoDropped, M!Superseded, M!Stale, M!Take, M!shopify, M!mirror, M!books, M!readers
  <1>3. CASE Pending
    BY <1>3, Still
  <1>4. sent' \subseteq sent /\ sent \ {read} \subseteq sent'
    BY DEF M!Delivery, M!EchoDropped, M!Superseded, M!Stale, M!Take
  <1>5. CASE Chased
    <2>1. Chased' <=> (Coming' \/ (hand'.stage = "checked" /\ hand'.read.stamp = updated))
      BY <1>2, <1>5, Still DEF Chased
    <2> SUFFICES Coming' \/ (hand'.stage = "checked" /\ hand'.read.stamp = updated)
      BY <2>1
    <2>2. CASE read # Latest /\ Coming
      BY <1>2, <1>4, <2>2 DEF Coming, Mute, Latest
    <2>3. CASE hand.stage = "checked" /\ hand.read.stamp = updated
      <3>1. M!Superseded(read)
        BY <2>3 DEF M!Delivery, M!EchoDropped, M!Stale, M!Take
      <3> QED BY <2>3, <3>1 DEF M!Superseded, M!readers
    <2>4. CASE read = Latest /\ Coming
      <3>1. ~M!EchoDropped(read)
        BY <1>5, <2>4 DEF M!EchoDropped, Chased, Latest
      <3>2. ~M!Superseded(read)
        <4>1. \A other \in sent : other.stamp <= updated
          BY <1>1 DEF Order, Timed, Flying
        <4> QED BY <1>1, <2>4, <4>1 DEF M!Superseded, Latest
      <3>3. ~M!Stale(read)
        BY <1>1, <2>4 DEF M!Stale, M!HeldIsNewer, Coming, Latest, Mute
      <3>4. M!Take(read)
        BY <3>1, <3>2, <3>3 DEF M!Delivery
      <3> QED BY <2>4, <3>4 DEF M!Take, Latest
    <2> QED BY <1>5, <2>2, <2>3, <2>4 DEF Chased
  <1>6. CASE Right
    <2>1. CASE M!EchoDropped(read) \/ M!Superseded(read) \/ M!Stale(read)
      <3>1. hand' = hand /\ \A r \in M!Reads : Flying(r)' => Flying(r)
        BY <1>2, <1>4, <2>1 DEF M!EchoDropped, M!Superseded, M!Stale, M!readers, Flying
      <3> QED BY <1>2, <1>4, <1>6, <3>1 DEF Right, Shows, Shut, Settling, Mute, Past, Known
    <2>2. CASE M!Take(read)
      <3>1. hand.stage = "none" /\ hand' = [stage |-> "checked", read |-> read] /\ ~M!HeldIsNewer(read, read.stamp)
        BY <2>2 DEF M!Take
      <3>2. read.price = live
        <4>1. SUFFICES ASSUME read.price # live PROVE FALSE
          OBVIOUS
        <4>2. read \in M!Reads /\ read.price # index
          BY <1>1, <1>6, <4>1 DEF Right, Shows
        <4>3. ~Past(read, version) /\ ~(Mute /\ syncedAt > read.stamp)
          BY <1>1, <3>1, <4>2 DEF Past, Known, M!HeldIsNewer, Mute
        <4> QED BY <1>6, <4>1, <4>3 DEF Right, Shut
      <3>3. \A r \in M!Reads : Flying(r)' => Flying(r) \/ r.price = live
        BY <1>2, <1>4, <3>1, <3>2 DEF Flying
      <3>4. Shows'
        BY <1>2, <1>6, <3>1 DEF Right, Shows
      <3>5. Shut'
        BY <1>2, <1>4, <1>6, <3>1, <3>2, <3>3 DEF Right, Shut, Settling, Mute, Past, Known
      <3> QED BY <3>4, <3>5 DEF Right
    <2> QED BY <2>1, <2>2 DEF M!Delivery
  <1> QED BY <1>3, <1>5, <1>6 DEF CaughtUp

(* The same of a newer version: who is shut out by one is shut out by the next. *)
LEMMA PastGrows ==
    ASSUME NEW r, r.stamp \in Nat, NEW v \in Nat, NEW w \in Nat, v <= w, Past(r, v)
    PROVE  Past(r, w)
BY DEF Past

LEMMA FollowsWebhook ==
    ASSUME Given, MirrorWeak = {}, Works, CaughtUp, M!Drain,
           M!WebhookIndex \/ M!WebhookSurface \/ M!Tombstone
    PROVE  CaughtUp'
  <1> SUFFICES ASSUME ~Gone PROVE (Chased \/ Pending \/ Right)'
    BY Onlooker DEF CaughtUp, Works, Gone
  <1> USE DEF Works, Numeric
  <1>1. Numeric /\ sent \subseteq M!Reads /\ "unknown" \notin Prices /\ deletion # "sent" /\ live \in Prices
    BY Numbers, Still DEF Order, Given, M!PricesAssumption, Typed, M!TypeOK, Gone
  <1>2. heal.stage = "none" /\ ~M!Tombstone
    BY <1>1 DEF M!Drain, M!NoneHealing, M!Delivery, M!Tombstone
  <1>3. UNCHANGED <<live, updated, sent, intents, ledger, run, sync, heal>>
    BY <1>2 DEF M!WebhookIndex, M!WebhookSurface, M!shopify, M!books
  <1>4. CASE Pending
    BY <1>4, Still
  <1>5. CASE M!WebhookIndex
    <2>1. /\ hand.stage = "checked" /\ index' = hand.read.price /\ version' = hand.read.stamp /\ hand'.stage = "indexed"
          /\ hand'.read = hand.read /\ hand.read \in M!Reads /\ version <= hand.read.stamp /\ Flying(hand.read)
          /\ hand.read.stamp \in M!Stamps /\ ~(Mute /\ syncedAt > hand.read.stamp) /\ ~Mute'
          /\ hand.read.stamp <= updated
      BY <1>1, <1>5 DEF M!WebhookIndex, Order, Checked, Typed, M!TypeOK, Flying, Handed, Mute, M!Reads, Timed
    <2>2. ASSUME hand.read.price = live,
                 \A r \in sent : r.price # live => Past(r, hand.read.stamp),
                 sync.stage = "read" /\ sync.read.price # live => Past(sync.read, hand.read.stamp),
                 Settling /\ run.row.want # live => hand.read.stamp > run.row.stamp
          PROVE  Right'
      BY <1>2, <1>3, <2>1, <2>2 DEF Right, Shows, Shut, Settling, Past, Known
    <2>3. CASE Chased /\ hand.read.stamp = updated
      <3>1. hand.read.price = live
        BY <2>1, <2>3 DEF Chased
      <3>2. /\ \A r \in sent : r.price # live => hand.read.stamp > r.stamp
            /\ sync.stage = "read" /\ sync.read.price # live => hand.read.stamp > sync.read.stamp
            /\ Settling /\ run.row.want # live => hand.read.stamp > run.row.stamp
        BY <2>1, <2>3, LetIn DEF Chased
      <3> QED BY <2>2, <3>1, <3>2 DEF Past
    <2>4. CASE Chased /\ hand.read.stamp # updated
      <3>1. Coming'
        BY <1>1, <1>3, <2>1, <2>4 DEF Chased, Coming, Latest
      <3> QED BY <1>3, <2>4, <3>1, Still DEF Chased
    <2>5. CASE Right
      <3>1. hand.read.price = live
        BY <2>1, <2>5 DEF Right, Shut
      <3>2. ASSUME NEW r \in sent, r.price # live PROVE Past(r, hand.read.stamp)
        <4>1. CASE Past(r, version)
          BY <1>1, <2>1, <4>1, PastGrows
        <4>2. CASE Mute /\ syncedAt > r.stamp
          BY <1>1, <2>1, <4>2 DEF Past
        <4> QED BY <2>5, <3>2, <4>1, <4>2 DEF Right, Shut
      <3>3. ASSUME sync.stage = "read", sync.read.price # live PROVE Past(sync.read, hand.read.stamp)
        <4>1. CASE Past(sync.read, version)
          BY <1>1, <2>1, <4>1, PastGrows
        <4>2. CASE Mute /\ syncedAt > sync.read.stamp
          BY <1>1, <2>1, <4>2 DEF Past
        <4> QED BY <2>5, <3>3, <4>1, <4>2 DEF Right, Shut
      <3>4. Settling /\ run.row.want # live => hand.read.stamp > run.row.stamp
        BY <1>1, <2>1, <2>5 DEF Right, Shut
      <3> QED BY <2>2, <3>1, <3>2, <3>3, <3>4
    <2> QED BY <1>4, <2>3, <2>4, <2>5 DEF CaughtUp
  <1>6. CASE M!WebhookSurface
    <2>1. /\ hand.stage = "indexed" /\ surface' = hand.read.price /\ hand'.stage = "none"
          /\ UNCHANGED <<index, version, syncedAt>>
      BY <1>6 DEF M!WebhookSurface, Order, Typed, M!TypeOK
    <2>2. CASE Chased
      <3>1. Coming'
        BY <1>3, <2>1, <2>2 DEF Chased, Coming, Latest, Mute
      <3> QED BY <1>3, <2>2, <3>1, Still DEF Chased
    <2>3. CASE Right
      BY <1>2, <1>3, <2>1, <2>3 DEF Right, Shows, Shut, Settling, Past, Known, Mute
    <2> QED BY <1>4, <2>2, <2>3 DEF CaughtUp
  <1> QED BY <1>2, <1>5, <1>6

LEMMA FollowsSync ==
    ASSUME Given, MirrorWeak = {}, Works, CaughtUp, M!Sync
    PROVE  CaughtUp'
  <1> SUFFICES ASSUME ~Gone PROVE (Chased \/ Pending \/ Right)'
    BY Onlooker DEF CaughtUp, Works, Gone
  <1> USE DEF Works, Numeric
  <1>1. Numeric /\ sent \subseteq M!Reads /\ "unknown" \notin Prices /\ live \in Prices
    BY Numbers, Still DEF Order, Given, M!PricesAssumption, Typed, M!TypeOK, Gone
  <1>2. UNCHANGED <<live, updated, sent, intents, ledger, run, hand, heal>>
    BY DEF M!Sync, M!SyncBegin, M!SyncRead, M!SyncWrite, M!shopify, M!books
  <1>3. CASE Pending
    BY <1>3, Still
  <1>4. CASE M!SyncBegin \/ M!SyncRead
    <2>1. UNCHANGED <<index, surface, version, syncedAt>>
      BY <1>4 DEF M!SyncBegin, M!SyncRead, M!mirror
    <2>2. sync'.stage = "read" => sync'.read = Latest
      <3> USE <1>4
      <3> HIDE DEF Works, Numeric
      <3>1. CASE M!SyncBegin
        BY <3>1 DEF M!SyncBegin
      <3>2. CASE M!SyncRead
        <4>1. live # "gone"
          BY DEF Gone
        <4>2. sync' = [sync EXCEPT !.stage = "read", !.read = Latest]
          BY <3>2, <4>1 DEF M!SyncRead, Latest
        <4>3. sync \in [stage : {"none", "begun", "read"}, at : M!Ticks, read : M!Reads]
          BY DEF Works, Order, Typed, M!TypeOK
        <4> QED BY <4>2, <4>3
      <3> QED BY <3>1, <3>2
    <2>3. CASE Chased
      BY <1>2, <2>1, <2>3, Still DEF Chased, Coming, Latest, Mute
    <2>4. CASE Right /\ ~Pending
      <3>1. \A r \in M!Reads : Flying(r)' => Flying(r) \/ r.price = live
        BY Onlooker
      <3>2. ASSUME NEW r \in sent, r.price # live PROVE Past(r, updated)
        <4>1. r \in M!Reads /\ Flying(r) /\ r.stamp <= updated
          BY <1>1 DEF Flying, Order, Timed
        <4>2. ~(run.stage = "landed" /\ run.row.stamp = updated)
          BY <1>1, <2>4 DEF Moved, Settling, Pending
        <4>3. r.stamp = updated => Known(r)
          BY <3>2, <4>1, <4>2 DEF Traced
        <4> QED BY <1>1, <4>1, <4>3 DEF Past
      <3>3. Shows'
        BY <1>2, <2>1, <2>4 DEF Right, Shows
      <3>4. Latest.stamp = updated /\ Latest.price = live
        BY DEF Latest
      <3>5. Shut'
        <4>1. ASSUME NEW r \in sent, r.price # live
              PROVE \/ Past(r, version)
                    \/ /\ Mute /\ syncedAt > r.stamp
                       /\ sync'.stage = "read" /\ sync'.at >= syncedAt /\ sync'.read.price = live => Past(r, sync'.read.stamp)
          BY <2>2, <2>4, <3>2, <3>4, <4>1 DEF Right, Shut
        <4>2. sync'.stage = "read" => sync'.read.price = live
          BY <2>2, <3>4
        <4> QED BY <1>2, <2>1, <2>4, <3>1, <4>1, <4>2 DEF Right, Shut, Settling, Past, Known, Mute
      <3> QED BY <3>3, <3>5 DEF Right
    <2> QED BY <1>3, <2>3, <2>4 DEF CaughtUp
  <1>5. CASE M!SyncWrite
    <2>1. /\ sync.stage = "read" /\ hand.stage = "none" /\ heal.stage = "none" /\ sync'.stage = "none"
          /\ sync.read \in M!Reads /\ sync.read.stamp \in M!Stamps /\ Flying(sync.read) /\ sync.read.stamp <= updated
      BY <1>1, <1>5 DEF M!SyncWrite, M!NotChecked, M!NoneChecked, M!NoneHealing, Order, Typed, M!TypeOK, Flying, M!Reads, Timed
    <2>2. CASE UNCHANGED M!mirror
      <3>1. UNCHANGED <<index, surface, version, syncedAt>>
        BY <2>2 DEF M!mirror
      <3>2. CASE Chased
        BY <1>2, <3>1, <3>2, Still DEF Chased, Coming, Latest, Mute
      <3>3. CASE Right
        BY <1>2, <2>1, <3>1, <3>3 DEF Right, Shows, Shut, Settling, Past, Known, Mute
      <3> QED BY <1>3, <3>2, <3>3 DEF CaughtUp
    <2>3. CASE ~M!HeldIsNewer(sync.read, sync.at) /\ M!Mirrored(sync.read.price) /\ version' = sync.read.stamp
      <3>1. /\ index' = sync.read.price /\ surface' = sync.read.price /\ ~Mute' /\ version <= sync.read.stamp
            /\ ~(Mute /\ syncedAt > sync.at)
        BY <1>1, <2>1, <2>3 DEF M!Mirrored, M!HeldIsNewer, Mute
      <3>2. ASSUME sync.read.price = live,
                   \A r \in sent : r.price # live => Past(r, sync.read.stamp),
                   Settling /\ run.row.want # live => sync.read.stamp > run.row.stamp
            PROVE  Right'
        BY <1>2, <2>1, <2>3, <3>1, <3>2 DEF Right, Shows, Shut, Settling, Past, Known
      <3>3. CASE Chased /\ sync.read.stamp = updated
        <4>1. sync.read.price = live
          BY <2>1, <3>3 DEF Chased
        <4>2. /\ \A r \in sent : r.price # live => sync.read.stamp > r.stamp
              /\ Settling /\ run.row.want # live => sync.read.stamp > run.row.stamp
          BY <2>1, <3>3, LetIn DEF Chased
        <4> QED BY <3>2, <4>1, <4>2 DEF Past
      <3>4. CASE Chased /\ sync.read.stamp # updated
        <4>1. Coming'
          BY <1>1, <1>2, <2>1, <2>3, <3>1, <3>4 DEF Chased, Coming, Latest
        <4> QED BY <1>2, <3>4, <4>1, Still DEF Chased
      <3>5. CASE Right
        <4>1. sync.read.price = live
          <5>1. SUFFICES ASSUME sync.read.price # live PROVE FALSE
            OBVIOUS
          <5>2. sync.read.price # index
            BY <1>1, <2>1, <3>5, <5>1 DEF Right, Shows
          <5>3. ~Past(sync.read, version)
            BY <1>1, <2>1, <2>3, <5>2 DEF Past, Known, M!HeldIsNewer
          <5> QED BY <2>1, <3>1, <3>5, <5>1, <5>3 DEF Right, Shut
        <4>2. ASSUME NEW r \in sent, r.price # live PROVE Past(r, sync.read.stamp)
          <5>1. CASE Past(r, version)
            BY <1>1, <2>1, <3>1, <5>1, PastGrows
          <5>2. CASE Mute /\ (sync.at >= syncedAt => Past(r, sync.read.stamp))
            BY <1>1, <3>1, <5>2
          <5> QED BY <2>1, <3>5, <4>1, <4>2, <5>1, <5>2 DEF Right, Shut
        <4>3. Settling /\ run.row.want # live => sync.read.stamp > run.row.stamp
          BY <1>1, <2>1, <3>1, <3>5 DEF Right, Shut
        <4> QED BY <3>2, <4>1, <4>2, <4>3
      <3> QED BY <1>3, <3>3, <3>4, <3>5 DEF CaughtUp
    <2> QED BY <1>5, <2>2, <2>3 DEF M!SyncWrite
  <1> QED BY <1>4, <1>5 DEF M!Sync

LEMMA FollowsHeal ==
    ASSUME Given, MirrorWeak = {}, Works, CaughtUp, M!Heal
    PROVE  CaughtUp'
  <1> SUFFICES ASSUME ~Gone PROVE (Chased \/ Pending \/ Right)'
    BY Onlooker DEF CaughtUp, Works, Gone
  <1> USE DEF Works, Numeric
  <1>1. Numeric /\ sent \subseteq M!Reads /\ "unknown" \notin Prices /\ live \in Prices /\ heal.price \in Prices
    BY Numbers, Still DEF Order, Given, M!PricesAssumption, Typed, M!TypeOK, Gone
  <1>2. UNCHANGED <<live, updated, sent, intents, ledger, run, hand, sync, version>>
    BY DEF M!Heal, M!HealRead, M!HealWrite, M!shopify, M!books, M!mirror
  <1>3. CASE Pending
    BY <1>3, Still
  <1>4. UNCHANGED <<index, syncedAt>> \/ ~Mute'
    BY <1>1 DEF M!Heal, M!HealRead, M!HealWrite, M!Mirrored, M!mirror, Mute
  <1>5. CASE Chased
    BY <1>2, <1>4, <1>5, Still DEF Chased, Coming, Latest, Mute
  <1>6. CASE M!HealRead /\ Right
    <2>1. heal' = [stage |-> "read", price |-> live] /\ sync.stage = "none" /\ \A r \in sent : r.price = live
      BY <1>6 DEF M!HealRead
    <2>2. \A r \in M!Reads : Flying(r) => r.price = live
      BY <1>6, <2>1 DEF Flying, Right, Shut
    <2>3. UNCHANGED <<index, surface, syncedAt>>
      BY <1>6 DEF M!HealRead, M!mirror
    <2> QED BY <1>2, <1>6, <2>1, <2>2, <2>3 DEF Right, Shows, Shut, Settling, Past, Known, Mute, Flying
  <1>7. CASE M!HealWrite /\ Right
    <2>1. /\ hand.stage = "none" /\ heal.stage = "read" /\ heal'.stage = "none" /\ heal.price = live
          /\ \A r \in M!Reads : Flying(r) => r.price = live
      BY <1>7 DEF M!HealWrite, M!NoneChecked, Right, Shut, Order, Typed, M!TypeOK
    <2>2. (\A r \in sent : r.price = live) /\ (sync.stage = "read" => sync.read.price = live)
      BY <1>1, <2>1 DEF Flying
    <2>3. Shows'
      BY <1>2, <1>7, <2>1 DEF M!HealWrite, M!Mirrored, M!mirror, Right, Shows
    <2>4. Shut'
      BY <1>2, <1>7, <2>1, <2>2 DEF Right, Shut, Settling
    <2> QED BY <2>3, <2>4 DEF Right
  <1> QED BY <1>3, <1>5, <1>6, <1>7 DEF M!Heal, CaughtUp

LEMMA FollowsRun ==
    ASSUME Given, MirrorWeak = {}, Works, CaughtUp, M!Run
    PROVE  CaughtUp'
  <1> SUFFICES ASSUME ~Gone' PROVE (Chased \/ Pending \/ Right)'
    BY DEF CaughtUp
  <1> USE DEF Works, Numeric
  <1>1. /\ Numeric /\ sent \subseteq M!Reads /\ "unknown" \notin Prices /\ "gone" \notin Prices
        /\ run.row.want \in Prices
    BY Numbers DEF Order, Given, M!PricesAssumption, Typed, M!TypeOK, M!Rows
  <1>2. CASE M!Lands
    BY <1>2, LandsRow DEF M!Lands, M!Changed, Pending
  <1>3. CASE M!Fails
    BY <1>3 DEF M!Fails, Pending, Order, Typed, M!TypeOK
  <1>4. CASE M!Skips
    BY <1>4 DEF M!Skips, M!shopify, Gone
  <1>5. CASE M!UnknownSurface
    BY <1>5 DEF M!UnknownSurface, Pending, Order, Typed, M!TypeOK
  <1>6. ASSUME NEW want \in {"base", "sale"}, M!Plan(want) PROVE (Chased \/ Pending \/ Right)'
    <2>1. /\ UNCHANGED <<live, updated, sent, ledger, index, surface, version, syncedAt, hand, sync, heal>>
          /\ run.stage = "none" /\ run'.stage = "planned" /\ run'.row.want = want /\ intents' = intents \cup {want}
      BY <1>6 DEF M!Plan, M!shopify, M!mirror, M!readers
    <2>2. CASE want = live
      BY <2>1, <2>2 DEF Pending
    <2>3. CASE want # live /\ Chased
      BY <2>1, <2>3 DEF Chased, Coming, Latest, Mute, Flying
    <2>4. CASE Right
      BY <2>1, <2>4 DEF Right, Shows, Shut, Settling, Past, Known, Mute, Flying
    <2>5. ~Pending
      BY <2>1 DEF Pending
    <2> QED BY <2>1, <2>2, <2>3, <2>4, <2>5 DEF CaughtUp, Gone
  <1>7. CASE M!Record
    <2>1. /\ UNCHANGED <<live, updated, sent, intents, index, surface, version, syncedAt, hand, sync, heal>>
          /\ run.stage = "landed" /\ run'.stage = "recorded" /\ run'.row = run.row /\ ledger' = ledger \cup {run.row}
      BY <1>7 DEF M!Record, M!shopify, M!mirror, M!readers, Order, Typed, M!TypeOK
    <2>2. \A r, v : Past(r, v) => Past(r, v)'
      BY <2>1 DEF Past, Known
    <2>3. CASE Chased
      BY <2>1, <2>3 DEF Chased, Coming, Latest, Mute, Flying
    <2>4. CASE Pending
      BY <2>1, <2>4 DEF Pending
    <2>5. CASE Right
      <3>1. Shows'
        BY <2>1, <2>5 DEF Right, Shows
      <3>2. Shut'
        BY <2>1, <2>2, <2>5 DEF Right, Shut, Settling, Mute, Flying
      <3> QED BY <3>1, <3>2 DEF Right
    <2> QED BY <2>1, <2>3, <2>4, <2>5 DEF CaughtUp, Gone
  <1>8. CASE M!SettleIndex
    <2>1. /\ UNCHANGED <<live, updated, sent, intents, ledger, surface, hand, sync, heal>> /\ ~Gone
          /\ run.stage = "recorded" /\ run'.stage = "stamped" /\ run'.row = run.row
          /\ hand.stage = "none" /\ heal.stage = "none"
      BY <1>8 DEF M!SettleIndex, M!NotChecked, M!NoneChecked, M!NoneHealing, M!shopify, M!readers, Order, Typed, M!TypeOK, Gone
    <2>2. \/ /\ version <= run.row.stamp /\ index' = run.row.want /\ version' = run.row.stamp /\ syncedAt' = now
          \/ /\ version > run.row.stamp /\ UNCHANGED <<index, version, syncedAt>>
      BY <1>1, <1>8 DEF M!SettleIndex, M!NotNewer
    <2>3. CASE run.row.want = live
      <3>1. /\ \A r \in M!Reads : Flying(r) /\ r.stamp >= run.row.stamp /\ r.price # live
                   => r.stamp = run.row.stamp /\ Known(r)
            /\ version > run.row.stamp => index = live /\ surface = live
        BY <2>1, <2>3 DEF Standing, Answered
      <3>2. \A r \in M!Reads : Flying(r) /\ r.price # live => Past(r, run.row.stamp)
        BY <1>1, <3>1 DEF Past
      <3>3. run.row.stamp <= version'
        BY <1>1, <2>2
      <3>4. ASSUME NEW r \in M!Reads, Flying(r), r.price # live PROVE Past(r, version')
        <4>1. version' \in Nat
          BY <1>1, <2>2
        <4> QED BY <1>1, <3>2, <3>3, <3>4, <4>1, PastGrows
      <3>5. Shut'
        <4>1. (\A r \in sent : r.price # live => Past(r, version')) /\
              (sync.stage = "read" /\ sync.read.price # live => Past(sync.read, version'))
          BY <1>1, <3>4 DEF Flying
        <4> QED BY <2>1, <2>3, <4>1 DEF Shut, Past, Known, Settling
      <3>6. Shows'
        BY <1>1, <2>1, <2>2, <2>3, <3>1 DEF Shows
      <3> QED BY <3>5, <3>6 DEF Right
    <2>4. CASE run.row.want # live /\ Chased
      <3>1. run.row.stamp < updated
        BY <2>1, <2>4 DEF Moved, Settling
      <3>2. Coming'
        BY <1>1, <2>1, <2>2, <2>4, <3>1 DEF Chased, Coming, Latest, Mute
      <3> QED BY <2>1, <2>4, <3>2 DEF Chased, Flying
    <2>5. CASE run.row.want # live /\ Right
      <3>1. version > run.row.stamp
        BY <2>1, <2>5 DEF Right, Shut, Settling
      <3>2. UNCHANGED <<index, version, syncedAt>>
        BY <1>1, <2>2, <3>1
      <3> QED BY <2>1, <2>5, <3>1, <3>2 DEF Right, Shows, Shut, Settling, Past, Known, Mute, Flying
    <2>6. run.row.want # live => ~Pending
      BY <2>1 DEF Pending
    <2> QED BY <2>1, <2>3, <2>4, <2>5, <2>6 DEF CaughtUp
  <1>9. CASE M!SettleSurface
    <2>1. /\ UNCHANGED <<live, updated, sent, intents, ledger, index, version, syncedAt, hand, sync, heal>> /\ ~Gone
          /\ run.stage = "stamped" /\ run'.stage = "none"
          /\ hand.stage = "none" /\ surface' = IF version <= run.row.stamp THEN run.row.want ELSE surface
      BY <1>9 DEF M!SettleSurface, M!NotChecked, M!NoneChecked, M!NotNewer, M!shopify, M!readers, Order, Typed, M!TypeOK, Gone
    <2>2. CASE Chased
      BY <2>1, <2>2 DEF Chased, Coming, Latest, Mute, Flying
    <2>3. CASE Right
      <3>1. version <= run.row.stamp => run.row.want = live
        BY <1>1, <2>1, <2>3 DEF Right, Shut, Settling
      <3>2. Shows'
        BY <1>1, <2>1, <2>3, <3>1 DEF Right, Shows
      <3>3. Shut'
        BY <2>1, <2>3 DEF Right, Shut, Settling, Past, Known, Mute, Flying
      <3> QED BY <3>2, <3>3 DEF Right
    <2>4. ~Pending
      BY <2>1 DEF Pending
    <2> QED BY <2>1, <2>2, <2>3, <2>4 DEF CaughtUp
  <1>10. CASE M!UnknownIndex
    <2>1. /\ UNCHANGED <<live, updated, sent, ledger, surface, version, hand, sync, heal>> /\ ~Gone
          /\ run.stage = "unsaid" /\ run'.stage = "none" /\ index' = "unknown" /\ syncedAt' = now
          /\ hand.stage = "none" /\ heal.stage = "none" /\ (sync.stage # "none" => now > sync.at)
      BY <1>10 DEF M!UnknownIndex, M!NotChecked, M!NoneChecked, M!NoneHealing, M!shopify, M!readers, Order, Typed, M!TypeOK, Gone
    <2>2. surface = "unknown"
      BY <2>1 DEF Handed
    <2>3. ASSUME NEW r \in M!Reads, Flying(r), r.price # live PROVE now > r.stamp
      <3>1. r.stamp <= updated /\ updated <= now
        BY <2>3 DEF Order, Timed
      <3>2. SUFFICES ASSUME r.stamp = now PROVE FALSE
        BY <1>1, <3>1 DEF Numeric
      <3>3. Known(r)
        BY <1>1, <2>1, <2>3, <3>1, <3>2 DEF Traced
      <3>4. wrote < now /\ \A c \in ledger : c.stamp <= wrote
        BY <2>1 DEF Order, Timed
      <3> QED BY <1>1, <3>2, <3>3, <3>4 DEF Known
    <2>4. (\A r \in sent : r.price # live => now > r.stamp) /\
          (sync.stage = "read" /\ sync.read.price # live => now > sync.read.stamp)
      BY <1>1, <2>3 DEF Flying
    <2>5. sync.stage = "read" => ~(sync.at >= now)
      BY <1>1, <2>1
    <2> QED BY <2>1, <2>2, <2>4, <2>5 DEF Right, Shows, Shut, Settling, Mute
  <1>11. CASE M!Expire
    <2>1. /\ UNCHANGED <<live, updated, sent, ledger, run, index, surface, version, syncedAt, hand, sync, heal>>
          /\ run.stage = "none" /\ intents' = {}
      BY <1>11 DEF M!Expire, M!shopify, M!mirror, M!readers
    <2> QED BY <2>1 DEF CaughtUp, Gone, Chased, Coming, Latest, Pending, Right, Shows, Shut, Settling, Past, Known, Mute, Flying
  <1> QED BY <1>2, <1>3, <1>4, <1>5, <1>6, <1>7, <1>8, <1>9, <1>10, <1>11 DEF M!Run

LEMMA WorksStep ==
    ASSUME Given, MirrorWeak = {}, Works, CaughtUp, [M!Next]_(M!vars)
    PROVE  Works' /\ CaughtUp'
  <1>1. Order'
    BY OrderStep DEF Works
  <1>2. CASE UNCHANGED M!vars
    BY <1>1, <1>2 DEF M!vars, Works, Handed, Moved, Traced, Standing, Answered, Settling, Flying, Known, Mute, Gone,
                      CaughtUp, Chased, Coming, Latest, Pending, Right, Shows, Shut, Past
  <1>3. CASE M!Next
    <2>1. Works'
      BY <1>1, <1>3, HandedStep, MovedStep, TracedStep, StandingStep DEF Works
    <2>2. CaughtUp'
      BY <1>3, FollowsShopify, FollowsDeliveries, FollowsWebhook, FollowsSync, FollowsHeal, FollowsRun DEF M!Next, M!Drain
    <2> QED BY <2>1, <2>2
  <1> QED BY <1>2, <1>3

(* With no gap open, once nothing is out and nobody at work the mirror shows
   Shopify's price or says that it does not know it, and a deleted product is
   deleted: Works and CaughtUp together are inductive. *)
THEOREM MirrorFollowsHolds ==
    ASSUME Given, MirrorWeak = {}
    PROVE  M!Spec => []MirrorFollows
  <1>1. M!Init => Works /\ CaughtUp
    BY WorksInit, FollowsInit
  <1>2. (Works /\ CaughtUp) /\ [M!Next]_(M!vars) => (Works /\ CaughtUp)'
    BY WorksStep
  <1>3. Works /\ CaughtUp => MirrorFollows
    <2> SUFFICES ASSUME Works, CaughtUp, Quiet PROVE IF live = "gone" THEN deleted ELSE ~deleted /\ {index, surface} \subseteq {live, "unknown"}
      BY DEF MirrorFollows
    <2>1. CASE Gone
      BY <2>1 DEF Quiet, Works, Order, Buried, Gone, Typed, M!TypeOK
    <2>2. CASE ~Gone
      <3>1. ~Chased /\ ~Pending
        BY DEF Quiet, Chased, Coming, Pending
      <3>2. Shows /\ run.stage = "none" /\ hand.stage = "none"
        BY <2>2, <3>1 DEF CaughtUp, Right, Quiet
      <3> QED BY <2>2, <3>2 DEF Shows, Works, Order, Buried, Gone
    <2> QED BY <2>1, <2>2
  <1> QED BY <1>1, <1>2, <1>3, PTL DEF M!Spec
=============================================================================
