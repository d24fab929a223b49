-------------------------- MODULE DriftHold_proofs --------------------------
(* Proofs about DriftHold: types; that an answer is given once, to the question as it
   stands, and keeps only what the mirror shows; that no run's own write is put to the
   merchant; that every edit is; and that a hold waits for an answer and an open
   question holds.  Each part states the invariant it needs and names the gaps
   it needs closed. *)
EXTENDS DriftHold, TLAPS

USE DEF Ids, Verdicts, States, Running

LEMMA SomeoneIsThere == Someone \in Variants
  BY VariantsAssumption DEF Someone

(* What a change of one field keeps. *)
LEMMA HookMoves ==
  ASSUME NEW h \in Hooks,
         NEW s \in {"none", "find", "update", "create", "hold", "holding", "mirror"}
  PROVE  [h EXCEPT !.stage = s] \in Hooks
  BY DEF Hooks

LEMMA HookMovesTo ==
  ASSUME NEW h \in Hooks, NEW e \in 0 .. MaxEvents,
         NEW s \in {"none", "find", "update", "create", "hold", "holding", "mirror"}
  PROVE  [h EXCEPT !.stage = s, !.event = e] \in Hooks
  BY DEF Hooks

LEMMA EventResolved ==
  ASSUME NEW e \in Events, NEW r \in Verdicts
  PROVE  [e EXCEPT !.resolution = r] \in Events
  BY DEF Events

LEMMA EventObserved ==
  ASSUME NEW e \in Events, NEW p \in Prices, NEW b \in {"edit", "run"}
  PROVE  [e EXCEPT !.observed = p, !.by = b] \in Events
  BY DEF Events

LEMMA AnswerMoves ==
  ASSUME NEW x \in Answers, NEW s \in {"none", "read", "adopted", "batch", "count", "release"}
  PROVE  [x EXCEPT !.stage = s] \in Answers
  BY DEF Answers

LEMMA RunMoves ==
  ASSUME NEW r \in Runs, NEW s \in {"none", "write", "final", "close", "mark", "count", "release"}
  PROVE  [r EXCEPT !.stage = s] \in Runs
  BY DEF Runs

LEMMA TypeInit == Init => TypeOK
<1> SUFFICES ASSUME Init PROVE TypeOK
  OBVIOUS
<1>1. {MaxEvents, MaxEdits, MaxRuns, MaxCrashes} \subseteq Nat /\ Someone \in Variants
  BY BoundsAssumption, SomeoneIsThere
<1>2. NoEvent \in Events /\ NoHook \in Hooks
  BY <1>1 DEF NoEvent, Events, NoHook, Hooks, NoRead, Reads, Prices
<1>3. Idle \in Answers
  BY <1>1 DEF Idle, Answers, Prices
<1>4. NoRun \in Runs
  BY <1>1 DEF NoRun, Runs, Prices
<1>5. /\ status \in States /\ ending \in BOOLEAN /\ heldFrom \in {"ACTIVE", "PARTIAL"}
      /\ live \in [Variants -> Prices] /\ change \in [Variants -> Nat]
      /\ sent \in [Variants -> SUBSET Reads] /\ surface \in [Variants -> Prices \cup {"unknown"}]
      /\ seen \in [Variants -> Nat] /\ intents \in [Variants -> SUBSET Prices]
      /\ baseline \in [Variants -> Prices] /\ excused \in [Variants -> Nat]
  BY DEF Init, Prices
<1>6. events \in [Ids -> Events] /\ made \in 0 .. MaxEvents
  BY <1>1, <1>2 DEF Init
<1>7. hook \in Hooks /\ answer \in [Answerers -> Answers] /\ run \in Runs
  BY <1>2, <1>3, <1>4 DEF Init
<1> QED BY <1>5, <1>6, <1>7 DEF Init, TypeOK

LEMMA TypeMerchant == TypeOK /\ Merchant => TypeOK'
<1> SUFFICES ASSUME TypeOK, Merchant PROVE TypeOK'
  OBVIOUS
<1> USE DEF campaign, shopify, mirror, queue, history, counts
<1>1. ASSUME NEW v \in Variants, NEW price \in Edits \cup {"sale"}, Edit(v, price) PROVE TypeOK'
  BY <1>1 DEF TypeOK, Edit, Sold, Reads, Prices
<1>2. ASSUME NEW v \in Variants, Expire(v) PROVE TypeOK'
  BY <1>2 DEF TypeOK, Expire
<1>3. ASSUME NEW v \in Variants, Sync(v) PROVE TypeOK'
  BY <1>3 DEF TypeOK, Sync
<1> QED BY <1>1, <1>2, <1>3 DEF Merchant

LEMMA TypeWebhook == TypeOK /\ Webhook => TypeOK'
<1> SUFFICES ASSUME TypeOK, Webhook PROVE TypeOK'
  OBVIOUS
<1> USE DEF campaign, shopify, mirror, queue, history, counts, AtHook, HookTo
<1>0. hook.read \in Reads /\ hook.variant \in Variants /\ hook.event \in 0 .. MaxEvents
  BY DEF TypeOK, Hooks
<1>1. ASSUME NEW v \in Variants, NEW read \in sent[v], Take(v, read) PROVE TypeOK'
  <2>1. read \in Reads /\ read.change \in Nat
    BY DEF TypeOK, Reads
  <2>2. PICK stage \in {"none", "mirror", "find"} :
            hook' = [stage |-> stage, variant |-> v, read |-> read, event |-> 0]
    BY <1>1 DEF Take
  <2>3. hook' \in Hooks
    BY <2>1, <2>2, BoundsAssumption DEF Hooks
  <2>4. excused' \in [Variants -> Nat]
    BY <1>1, <2>1 DEF Take, Excused, TypeOK
  <2>5. sent' \in [Variants -> SUBSET Reads]
    BY <1>1 DEF Take, TypeOK
  <2>6. again' \subseteq Variants
    BY <1>1 DEF Take, TypeOK
  <2> QED BY <1>1, <2>3, <2>4, <2>5, <2>6 DEF Take, TypeOK
<1>2. CASE Find
  <2>1. excused' \in [Variants -> Nat]
    <3>1. hook.read.change \in Nat
      BY <1>0 DEF Reads
    <3> QED BY <1>2, <3>1 DEF Find, Excused, TypeOK
  <2>2. hook' \in Hooks
    <3>1. CASE hook' = [hook EXCEPT !.stage = "mirror"] \/ hook' = [hook EXCEPT !.stage = "create"]
      BY <3>1, HookMoves DEF TypeOK
    <3>2. CASE \E e \in PendingOf(hook.variant) : hook' = [hook EXCEPT !.stage = "update", !.event = e]
      <4>1. PICK e \in PendingOf(hook.variant) : hook' = [hook EXCEPT !.stage = "update", !.event = e]
        BY <3>2
      <4>2. e \in 0 .. MaxEvents
        BY BoundsAssumption DEF PendingOf, Pending
      <4> QED BY <4>1, <4>2, HookMovesTo DEF TypeOK
    <3> QED BY <1>2, <3>1, <3>2 DEF Find
  <2> QED BY <1>2, <2>1, <2>2 DEF Find, TypeOK
<1>3. CASE Update
  <2>1. hook.read.price \in Prices /\ hook.read.by \in {"edit", "run"}
    BY <1>0 DEF Reads
  <2>2. events' \in [Ids -> Events]
    <3>1. events' = [e \in Ids |-> IF e = hook.event
                                  THEN [events[e] EXCEPT !.observed = hook.read.price, !.by = hook.read.by]
                                  ELSE events[e]]
      BY <1>3 DEF Update, TypeOK
    <3> QED BY <3>1, <2>1, EventObserved DEF TypeOK
  <2>3. hook' \in Hooks
    BY <1>3, HookMoves DEF Update, TypeOK
  <2> QED BY <1>3, <2>2, <2>3 DEF Update, TypeOK
<1>4. CASE Create
  <2>1. made + 1 \in Ids /\ made + 1 \in 0 .. MaxEvents
    BY <1>4, BoundsAssumption DEF Create, TypeOK
  <2>2. events' \in [Ids -> Events]
    BY <1>0, <1>4, <2>1 DEF Create, TypeOK, Events, Reads
  <2>3. hook' \in Hooks
    BY <1>4, <2>1, HookMovesTo DEF Create, TypeOK
  <2> QED BY <1>4, <2>1, <2>2, <2>3 DEF Create, TypeOK
<1>5. CASE HoldLook
  <2>1. hook' \in Hooks
    BY <1>5, HookMoves DEF HoldLook, TypeOK
  <2> QED BY <1>5, <2>1 DEF HoldLook, TypeOK
<1>0a. ASSUME PutBackDelivery PROVE sent' \in [Variants -> SUBSET Reads] /\ again' \subseteq Variants /\ hook' \in Hooks
  <2>1. sent' = [sent EXCEPT ![hook.variant] = @ \cup {hook.read}]
    BY <1>0a DEF PutBackDelivery
  <2>2. sent' \in [Variants -> SUBSET Reads]
    BY <1>0, <2>1 DEF TypeOK
  <2>3. hook' \in Hooks
    BY <1>0a, HookMoves DEF PutBackDelivery, TypeOK
  <2> QED BY <1>0, <1>0a, <2>2, <2>3 DEF PutBackDelivery, TypeOK
<1>6. CASE Hold
  <2>2. status' \in States
    BY <1>6 DEF Hold, MoveIfLegal, TypeOK
  <2>4. heldFrom' \in {"ACTIVE", "PARTIAL"}
    BY <1>6 DEF Hold, ReleaseTo, TypeOK
  <2>3. sent' \in [Variants -> SUBSET Reads] /\ again' \subseteq Variants /\ hook' \in Hooks
    <3>1. CASE MayMove("HELD")
      BY <1>6, <3>1, HookMoves DEF Hold, TypeOK
    <3>2. CASE ~MayMove("HELD")
      BY <1>0a, <1>6, <3>2 DEF Hold
    <3> QED BY <3>1, <3>2
  <2> QED BY <1>6, <2>2, <2>3, <2>4 DEF Hold, TypeOK
<1>7. CASE Mirror
  <2>1. hook' \in Hooks
    BY <1>7, HookMoves DEF Mirror, TypeOK
  <2>2. surface' \in [Variants -> Prices \cup {"unknown"}] /\ seen' \in [Variants -> Nat]
    BY <1>0, <1>7 DEF Mirror, TypeOK, Reads
  <2>3. again' \subseteq Variants
    BY <1>7 DEF Mirror, TypeOK
  <2> QED BY <1>7, <2>1, <2>2, <2>3 DEF Mirror, TypeOK
<1>8. CASE HookDies
  <2>1. crashes' \in Nat
    BY <1>8 DEF HookDies, TypeOK
  <2> QED BY <1>0a, <1>8, <2>1 DEF HookDies, TypeOK
<1> QED BY <1>1, <1>2, <1>3, <1>4, <1>5, <1>6, <1>7, <1>8 DEF Webhook

LEMMA TypeDecision == ASSUME TypeOK, NEW a \in Answerers, Decision(a) PROVE TypeOK'
<1> USE DEF campaign, shopify, mirror, queue, history, counts, Stays, Doing
<1>0. /\ answer[a].price \in Prices /\ answer[a].to \in {"ADOPTED", "IGNORED"}
      /\ answer[a].event \in 0 .. MaxEvents /\ answer[a].batch \subseteq Ids
      /\ \A e \in Ids : events[e].observed \in Prices /\ events[e].variant \in Variants
  <2>1. answer[a] \in Answers /\ \A e \in Ids : events[e] \in Events
    BY DEF TypeOK
  <2> QED BY <2>1 DEF Answers, Events
<1>1. ASSUME NEW e \in Ids, NEW to \in {"ADOPTED", "IGNORED"}, AnswerBegin(a, e, to) PROVE TypeOK'
  <2>1. answer' \in [Answerers -> Answers]
    <3>1. [stage |-> "read", event |-> e, to |-> to, price |-> events[e].observed, batch |-> {}] \in Answers
      <4>1. e \in 0 .. MaxEvents /\ events[e].observed \in Prices
        BY <1>0, BoundsAssumption
      <4> QED BY <4>1 DEF Answers
    <3> QED BY <1>1, <3>1 DEF AnswerBegin, TypeOK
  <2> QED BY <1>1, <2>1 DEF AnswerBegin, TypeOK
<1>2. ASSUME NEW to \in {"ADOPTED", "IGNORED"}, BatchBegin(a, to) PROVE TypeOK'
  <2>1. answer' \in [Answerers -> Answers]
    <3> DEFINE chosen == {e \in Pending : to = "ADOPTED" => CanBeKept(e)}
    <3>1. chosen \subseteq Ids
      BY DEF Pending
    <3>2. [stage |-> "batch", event |-> 0, to |-> to, price |-> "base", batch |-> chosen] \in Answers
      <4>2. 0 \in 0 .. MaxEvents /\ "base" \in Prices
        BY BoundsAssumption DEF Prices
      <4> HIDE DEF chosen
      <4> QED BY <3>1, <4>2 DEF Answers
    <3> QED BY <1>2, <3>2 DEF BatchBegin, TypeOK
  <2> QED BY <1>2, <2>1 DEF BatchBegin, TypeOK
<1>3. CASE AnswerAdopt(a)
  <2>1. answer' \in [Answerers -> Answers]
    BY <1>3, AnswerMoves DEF AnswerAdopt, TypeOK
  <2>2. baseline' \in [Variants -> Prices]
    BY <1>0, <1>3 DEF AnswerAdopt, TypeOK
  <2> QED BY <1>3, <2>1, <2>2 DEF AnswerAdopt, TypeOK
<1>4. CASE AnswerClose(a)
  <2>1. answer' \in [Answerers -> Answers]
    BY <1>4, AnswerMoves DEF AnswerClose, TypeOK
  <2>2. events' \in [Ids -> Events]
    <3>1. events' = [e \in Ids |-> IF e = answer[a].event
                                  THEN [events[e] EXCEPT !.resolution = answer[a].to] ELSE events[e]]
      BY <1>4 DEF AnswerClose, TypeOK
    <3> QED BY <1>0, <3>1, EventResolved DEF TypeOK
  <2> QED BY <1>4, <2>1, <2>2 DEF AnswerClose, TypeOK
<1>5. CASE BatchClaim(a)
  <2> DEFINE claimed == answer[a].batch \cap Pending
  <2>1. answer' \in [Answerers -> Answers]
    BY <1>5, AnswerMoves DEF BatchClaim, TypeOK
  <2>2. events' \in [Ids -> Events]
    <3>1. events' = [e \in Ids |-> IF e \in claimed THEN [events[e] EXCEPT !.resolution = answer[a].to]
                                  ELSE events[e]]
      BY <1>5 DEF BatchClaim
    <3> HIDE DEF claimed
    <3> QED BY <1>0, <3>1, EventResolved DEF TypeOK
  <2>3. baseline' \in [Variants -> Prices]
    <3>1. \A v \in Variants : (\E e \in claimed : events[e].variant = v)
              => events[CHOOSE e \in claimed : events[e].variant = v].observed \in Prices
      <4> SUFFICES ASSUME NEW v \in Variants, \E e \in claimed : events[e].variant = v
                   PROVE  (CHOOSE e \in claimed : events[e].variant = v) \in Ids
        BY <1>0
      <4>1. (CHOOSE e \in claimed : events[e].variant = v) \in claimed
        OBVIOUS
      <4> QED BY <1>0, <4>1
    <3>2. baseline' = [v \in Variants |->
                          IF answer[a].to = "ADOPTED" /\ \E e \in claimed : events[e].variant = v
                          THEN events[CHOOSE e \in claimed : events[e].variant = v].observed
                          ELSE baseline[v]]
      BY <1>5 DEF BatchClaim
    <3> HIDE DEF claimed
    <3> QED BY <3>1, <3>2 DEF TypeOK
  <2> QED BY <1>5, <2>1, <2>2, <2>3 DEF BatchClaim, TypeOK
<1>6. CASE AnswerCount(a)
  <2>1. answer' \in [Answerers -> Answers]
    BY <1>6, AnswerMoves DEF AnswerCount, TypeOK
  <2> QED BY <1>6, <2>1 DEF AnswerCount, TypeOK
<1>7. CASE AnswerRelease(a)
  <2>1. answer' \in [Answerers -> Answers]
    BY <1>7, AnswerMoves DEF AnswerRelease, TypeOK
  <2>2. status' \in States
    BY <1>7 DEF AnswerRelease, MoveIfLegal, TypeOK
  <2> QED BY <1>7, <2>1, <2>2 DEF AnswerRelease, TypeOK
<1>8. CASE AnswerDies(a)
  <2>1. answer' \in [Answerers -> Answers]
    BY <1>8, AnswerMoves DEF AnswerDies, TypeOK
  <2> QED BY <1>8, <2>1 DEF AnswerDies, TypeOK
<1> QED BY <1>1, <1>2, <1>3, <1>4, <1>5, <1>6, <1>7, <1>8 DEF Decision

LEMMA TypeRun == TypeOK /\ Run => TypeOK'
<1> SUFFICES ASSUME TypeOK, Run PROVE TypeOK'
  OBVIOUS
<1> USE DEF campaign, shopify, mirror, queue, history, counts, RunTo
<1>0. /\ run.to \in [Variants -> Prices] /\ run.at \in [Variants -> Nat]
      /\ run.wants \subseteq Variants /\ run.event \in 0 .. MaxEvents
  BY DEF TypeOK, Runs
<1>00. ASSUME NEW to \in [Variants -> Prices], NEW wants \in SUBSET Variants, NEW e \in 0 .. MaxEvents,
              NEW stage \in {"write", "mark"}, Planned(to, wants, e, stage)
       PROVE  run' \in Runs /\ intents' \in [Variants -> SUBSET Prices]
  <2>1. run' = [stage |-> stage, event |-> e, to |-> to, wants |-> wants, done |-> {}, lost |-> {},
                at |-> [v \in Variants |-> 0]]
    BY <1>00 DEF Planned, NoRun
  <2>2. run' \in Runs
    BY <2>1 DEF Runs
  <2>3. intents' \in [Variants -> SUBSET Prices]
    BY <1>00 DEF Planned, TypeOK
  <2> QED BY <2>2, <2>3
<1>000. AllSale \in [Variants -> Prices] /\ 0 \in 0 .. MaxEvents /\ \A to : Differing(to) \subseteq Variants
  BY BoundsAssumption DEF AllSale, Prices, Differing
<1>1. ASSUME NEW e \in Ids, PutBack(e) PROVE TypeOK'
  <2> DEFINE wants == {events[e].variant} \cap Differing(AllSale)
  <2>1. wants \in SUBSET Variants /\ e \in 0 .. MaxEvents
    BY <1>000, BoundsAssumption
  <2>2. Planned(AllSale, wants, e, IF wants = {} THEN "mark" ELSE "write")
    BY <1>1 DEF PutBack
  <2> HIDE DEF wants
  <2>3. run' \in Runs /\ intents' \in [Variants -> SUBSET Prices]
    BY <1>00, <1>000, <2>1, <2>2
  <2> QED BY <1>1, <2>3 DEF PutBack, Begins, TypeOK
<1>2. CASE Apply
  <2>1. run' \in Runs /\ intents' \in [Variants -> SUBSET Prices]
    BY <1>00, <1>000, <1>2 DEF Apply
  <2>2. status' \in States /\ ending' \in BOOLEAN
    BY <1>2 DEF Apply
  <2>3. runs' \in Nat /\ wholes' \in Nat
    BY <1>2 DEF Apply, Begins, TypeOK
  <2> QED BY <1>2, <2>1, <2>2, <2>3 DEF Apply, TypeOK
<1>3. CASE Revert
  <2>1. PICK kept \in {{}, {events[e].variant : e \in Pending}} :
            Planned(baseline, Differing(baseline) \ kept, 0, "write")
    BY <1>3 DEF Revert
  <2>2. Differing(baseline) \ kept \in SUBSET Variants /\ baseline \in [Variants -> Prices]
    BY <1>000 DEF TypeOK
  <2>3. run' \in Runs /\ intents' \in [Variants -> SUBSET Prices]
    BY <1>00, <1>000, <2>1, <2>2
  <2> QED BY <1>3, <2>3 DEF Revert, Begins, TypeOK
<1>4. ASSUME NEW v \in Variants, RunWrite(v) PROVE TypeOK'
  <2>0. /\ run.done \in SUBSET Variants /\ run.lost \in SUBSET Variants /\ run.to[v] \in Prices
        /\ change[v] \in Nat
    BY DEF TypeOK, Runs
  <2>1. ASSUME NEW D \in SUBSET Variants, NEW L \in SUBSET Variants, NEW n \in Nat,
               run' = [run EXCEPT !.done = D, !.lost = L, !.at[v] = n]
        PROVE  run' \in Runs
    BY <2>1 DEF TypeOK, Runs
  <2>2. CASE Sold(v, run.to[v], "run") /\ \E how \in {"done", "lost"} :
                run' = [run EXCEPT !.done = @ \cup IF how = "done" THEN {v} ELSE {},
                                   !.lost = @ \cup IF how = "lost" THEN {v} ELSE {},
                                   !.at[v] = change[v] + 1]
    <3>1. run' \in Runs
      <4>1. PICK how \in {"done", "lost"} :
                run' = [run EXCEPT !.done = @ \cup IF how = "done" THEN {v} ELSE {},
                                   !.lost = @ \cup IF how = "lost" THEN {v} ELSE {},
                                   !.at[v] = change[v] + 1]
        BY <2>2
      <4> DEFINE D == run.done \cup IF how = "done" THEN {v} ELSE {}
                 L == run.lost \cup IF how = "lost" THEN {v} ELSE {}
      <4>2. run' = [run EXCEPT !.done = D, !.lost = L, !.at[v] = change[v] + 1]
        BY <4>1
      <4>3. D \in SUBSET Variants /\ L \in SUBSET Variants /\ change[v] + 1 \in Nat
        BY <2>0
      <4> HIDE DEF D, L
      <4> QED BY <2>1, <4>2, <4>3
    <3>2. [price |-> run.to[v], change |-> change[v] + 1, by |-> "run"] \in Reads
      BY <2>0 DEF Reads
    <3>3. /\ live' \in [Variants -> Prices] /\ change' \in [Variants -> Nat]
          /\ excused' \in [Variants -> Nat]
      BY <2>0, <2>2 DEF Sold, TypeOK
    <3>4. sent' \in [Variants -> SUBSET Reads]
      BY <2>2, <3>2 DEF Sold, TypeOK
    <3> QED BY <1>4, <3>1, <3>3, <3>4 DEF RunWrite, TypeOK
  <2>3. CASE run' = [run EXCEPT !.lost = @ \cup {v}, !.at[v] = change[v]] /\ UNCHANGED <<shopify, excused>>
    <3>1. run' = [run EXCEPT !.done = run.done, !.lost = @ \cup {v}, !.at[v] = change[v]]
      BY <2>3 DEF TypeOK, Runs
    <3>2. run' \in Runs
      BY <2>0, <2>1, <3>1
    <3> QED BY <1>4, <2>3, <3>2 DEF RunWrite, TypeOK
  <2> QED BY <1>4, <2>2, <2>3 DEF RunWrite
<1>5. CASE RunSettle
  <2>1. run' \in Runs
    BY <1>5, RunMoves DEF RunSettle, TypeOK
  <2>2. surface' \in [Variants -> Prices \cup {"unknown"}] /\ seen' \in [Variants -> Nat]
    BY <1>0, <1>5 DEF RunSettle, TypeOK
  <2> QED BY <1>5, <2>1, <2>2 DEF RunSettle, TypeOK
<1>6. CASE RunFinal
  <2>1. run' \in Runs
    BY <1>6, RunMoves DEF RunFinal, TypeOK
  <2>2. status' \in States
    BY <1>6 DEF RunFinal, MoveIfLegal, TypeOK
  <2> QED BY <1>6, <2>1, <2>2 DEF RunFinal, TypeOK
<1>7. CASE RunClose
  <2>1. run' \in Runs
    BY <1>7, RunMoves DEF RunClose, TypeOK
  <2>2. events' \in [Ids -> Events]
    <3>1. events' = [e \in Ids |-> IF e \in Overwritten THEN [events[e] EXCEPT !.resolution = "REASSERTED"]
                                  ELSE events[e]]
      BY <1>7 DEF RunClose
    <3> QED BY <3>1, EventResolved DEF TypeOK
  <2> QED BY <1>7, <2>1, <2>2 DEF RunClose, TypeOK
<1>8. CASE RunMark
  <2>1. run' \in Runs
    BY <1>8, RunMoves DEF RunMark, TypeOK
  <2>2. events' \in [Ids -> Events]
    <3>1. events' = [e \in Ids |-> IF e = run.event THEN [events[e] EXCEPT !.resolution = "REASSERTED"]
                                  ELSE events[e]]
      BY <1>8 DEF RunMark, TypeOK
    <3> QED BY <3>1, EventResolved DEF TypeOK
  <2> QED BY <1>8, <2>1, <2>2 DEF RunMark, TypeOK
<1>9. CASE RunCount
  <2>1. run' \in Runs
    BY <1>9, RunMoves DEF RunCount, TypeOK
  <2> QED BY <1>9, <2>1 DEF RunCount, TypeOK
<1>10. CASE RunRelease
  <2>1. run' \in Runs
    BY <1>10, RunMoves DEF RunRelease, TypeOK
  <2>2. status' \in States
    BY <1>10 DEF RunRelease, MoveIfLegal, TypeOK
  <2> QED BY <1>10, <2>1, <2>2 DEF RunRelease, TypeOK
<1> QED BY <1>1, <1>2, <1>3, <1>4, <1>5, <1>6, <1>7, <1>8, <1>9, <1>10 DEF Run

(* Every variable keeps its type, for any numbers of prices, decisions and runs. *)
THEOREM TypeCorrect == Spec => []TypeOK
<1>1. TypeOK /\ [Next]_vars => TypeOK'
  <2> SUFFICES ASSUME TypeOK, [Next]_vars PROVE TypeOK'
    OBVIOUS
  <2>1. CASE UNCHANGED vars
    BY <2>1 DEF vars, TypeOK
  <2> QED BY <2>1, TypeMerchant, TypeWebhook, TypeDecision, TypeRun DEF Next
<1> QED BY <1>1, TypeInit, PTL DEF Spec

-----------------------------------------------------------------------------
(* Who has what in hand.  One open event a variant; an event a single answer has
   read is open, shows what it showed and is in nobody else's hand; what a
   put-back is about to mark and what the webhook is about to update are open
   and in no answer's hand; and what a keep looked at, the mirror still shows. *)

Reading(a) == answer[a].stage \in {"read", "adopted"}

OneOpen == \A e, f \in Pending : events[e].variant = events[f].variant => e = f
Unmade  == \A e \in Ids : e > made => events[e].resolution = "NONE"
InHand  == \A a \in Answerers : Reading(a) =>
              answer[a].event \in Pending /\ events[answer[a].event].observed = answer[a].price
OneHand == \A a, b \in Answerers :
              Reading(a) /\ Reading(b) /\ answer[a].event = answer[b].event => a = b
Marks   == run.stage = "mark" => run.event \in Pending /\ ~Answering(run.event)
Updates == hook.stage = "update" =>
              /\ hook.event \in Pending /\ events[hook.event].variant = hook.variant
              /\ ~Answering(hook.event) /\ ~Marking(hook.event) /\ ~Keeping(hook.variant)
Creates == hook.stage = "create" => PendingOf(hook.variant) = {}
Kept    == \A a \in Answerers : answer[a].stage = "read" /\ answer[a].to = "ADOPTED" =>
              surface[events[answer[a].event].variant] \in {answer[a].price, "unknown"}
Batches == \A a \in Answerers : answer[a].stage = "batch" => \A e \in answer[a].batch :
              e <= made /\ (answer[a].to = "ADOPTED" /\ e \in Pending => CanBeKept(e))

Hands == OneOpen /\ Unmade /\ InHand /\ OneHand /\ Marks /\ Updates /\ Creates /\ Kept /\ Batches

NoGap == {"answer", "twice", "shown"} \cap Weak = {}

(* Nothing is taken in hand, and nothing in hand changes. *)
HandsStay == /\ \A a \in Answerers : answer'[a].stage \in {"read", "adopted", "batch"} => answer'[a] = answer[a]
             /\ hook'.stage \in {"update", "create"} => hook' = hook
             /\ run'.stage = "mark" => run' = run

LEMMA HandsInit == Init => Hands
  BY DEF Init, Hands, OneOpen, Unmade, InHand, OneHand, Marks, Updates, Creates, Kept, Batches,
         Reading, Pending, NoEvent, Idle, NoRun, NoHook

(* A step that only puts things down. *)
LEMMA PutDown == TypeOK /\ Hands /\ HandsStay /\ UNCHANGED <<events, made, surface>> => Hands'
<1> SUFFICES ASSUME TypeOK, Hands, HandsStay, UNCHANGED <<events, made, surface>> PROVE Hands'
  OBVIOUS
<1> USE DEF Hands
<1>0. Pending' = Pending /\ (\A v : PendingOf(v)' = PendingOf(v)) /\ \A e : CanBeKept(e)' = CanBeKept(e)
  BY DEF Pending, PendingOf, CanBeKept
<1>1. \A a \in Answerers : Reading(a)' => Reading(a) /\ answer'[a] = answer[a]
  BY DEF Reading, HandsStay
<1>2. \A e : Answering(e)' => Answering(e)
  BY DEF Answering, HandsStay
<1>3. \A v : Keeping(v)' => Keeping(v)
  BY DEF Keeping, HandsStay
<1>4. OneOpen' /\ Unmade'
  BY <1>0 DEF OneOpen, Unmade
<1>5. InHand' /\ OneHand'
  BY <1>0, <1>1 DEF InHand, OneHand
<1>6. Marks'
  BY <1>0, <1>2 DEF Marks, HandsStay
<1>7. Updates' /\ Creates'
  <2>1. \A e : Marking(e)' => Marking(e)
    BY DEF Marking, HandsStay
  <2> QED BY <1>0, <1>2, <1>3, <2>1 DEF Updates, Creates, HandsStay
<1>8. Kept' /\ Batches'
  BY <1>0, <1>1 DEF Kept, Batches, HandsStay
<1> QED BY <1>4, <1>5, <1>6, <1>7, <1>8

(* A step that closes open events nobody else has in hand. *)
LEMMA Closing ==
  ASSUME TypeOK, Hands, HandsStay, UNCHANGED <<made, surface>>,
         NEW C \in SUBSET Pending, NEW to \in Verdicts,
         events' = [e \in Ids |-> IF e \in C THEN [events[e] EXCEPT !.resolution = to] ELSE events[e]],
         \A e \in C : ~Answering(e)' /\ ~Marking(e)' /\ ~(hook'.stage = "update" /\ hook'.event = e)
  PROVE  Hands'
<1> USE DEF Hands
<1>0. /\ Pending' = Pending \ C
      /\ \A e \in Ids : /\ events'[e].variant = events[e].variant
                        /\ events'[e].observed = events[e].observed
                        /\ e \notin C => events'[e] = events[e]
  BY DEF Pending, TypeOK, Events
<1>1. \A a \in Answerers : Reading(a)' => /\ Reading(a) /\ answer'[a] = answer[a]
                                          /\ answer[a].event \in Pending \ C
  BY DEF Reading, HandsStay, InHand, Answering
<1>2. \A e : Answering(e)' => Answering(e)
  BY DEF Answering, HandsStay
<1>3. ASSUME NEW v, Keeping(v)' PROVE Keeping(v)
  <2>1. PICK a \in Answerers :
           /\ answer'[a].to = "ADOPTED"
           /\ \/ answer'[a].stage = "read" /\ events'[answer'[a].event].variant = v
              \/ answer'[a].stage = "batch" /\ \E e \in answer'[a].batch : events'[e].variant = v
    BY <1>3 DEF Keeping
  <2>2. answer'[a] = answer[a]
    BY <2>1 DEF HandsStay
  <2>3. CASE answer[a].stage = "read"
    <3>1. answer[a].event \in Ids
      BY <2>3 DEF InHand, Reading, Pending
    <3> QED BY <1>0, <2>1, <2>2, <2>3, <3>1 DEF Keeping
  <2>4. CASE answer[a].stage = "batch"
    <3>1. answer[a].batch \subseteq Ids
      BY DEF TypeOK, Answers
    <3> QED BY <1>0, <2>1, <2>2, <2>4, <3>1 DEF Keeping
  <2> QED BY <2>1, <2>2, <2>3, <2>4
<1>4. OneOpen'
  <2> SUFFICES ASSUME NEW e \in Pending', NEW f \in Pending', events'[e].variant = events'[f].variant PROVE e = f
    BY DEF OneOpen
  <2>1. e \in Pending /\ f \in Pending /\ e \in Ids /\ f \in Ids
    BY <1>0 DEF Pending
  <2> QED BY <1>0, <2>1 DEF OneOpen
<1>4a. Unmade'
  <2> SUFFICES ASSUME NEW e \in Ids, e > made' PROVE events'[e].resolution = "NONE"
    BY DEF Unmade
  <2>1. events[e].resolution = "NONE"
    BY DEF Unmade
  <2>2. e \notin C
    BY <2>1 DEF Pending
  <2> QED BY <1>0, <2>1, <2>2
<1>5. InHand' /\ OneHand'
  BY <1>0, <1>1 DEF InHand, OneHand, Pending
<1>6. Marks'
  BY <1>0, <1>2 DEF Marks, HandsStay, Marking
<1>7. Updates'
  <2>1. \A e : Marking(e)' => Marking(e)
    BY DEF Marking, HandsStay
  <2>2. Pending \subseteq Ids
    BY DEF Pending
  <2> QED BY <1>0, <1>2, <1>3, <2>1, <2>2 DEF Updates, HandsStay
<1>8. Creates'
  <2>1. PendingOf(hook.variant)' \subseteq PendingOf(hook.variant) \/ hook' # hook
    BY <1>0 DEF PendingOf, Pending
  <2> QED BY <2>1 DEF Creates, HandsStay
<1>9. Kept'
  BY <1>0, <1>1 DEF Kept, Reading, Pending
<1>10. Batches'
  <2> SUFFICES ASSUME NEW a \in Answerers, answer'[a].stage = "batch", NEW e \in answer'[a].batch
               PROVE  e <= made' /\ (answer'[a].to = "ADOPTED" /\ e \in Pending' => CanBeKept(e)')
    BY DEF Batches
  <2>1. answer'[a] = answer[a]
    BY DEF HandsStay
  <2>2. e <= made /\ (answer[a].to = "ADOPTED" /\ e \in Pending => CanBeKept(e))
    BY <2>1 DEF Batches
  <2>3. e \in Pending' => e \in Ids /\ (CanBeKept(e) => CanBeKept(e)')
    BY <1>0 DEF CanBeKept, Pending
  <2> QED BY <1>0, <2>1, <2>2, <2>3
<1> QED BY <1>4, <1>4a, <1>5, <1>6, <1>7, <1>8, <1>9, <1>10

(* A step that moves the mirror's prices where nobody is keeping one. *)
LEMMA MirrorMoves ==
  ASSUME TypeOK, Hands, UNCHANGED <<events, made, answer>>,
         hook'.stage \notin {"update", "create"} \/ hook' = hook,
         run'.stage # "mark" \/ run' = run,
         surface' \in [Variants -> Prices \cup {"unknown"}],
         \A v \in Variants : surface'[v] = surface[v] \/ ~Keeping(v)
  PROVE  Hands'
<1> USE DEF Hands
<1>0. Pending' = Pending /\ (\A v : PendingOf(v)' = PendingOf(v)) /\ (\A v : Keeping(v)' = Keeping(v))
      /\ \A e : Answering(e)' = Answering(e)
  BY DEF Pending, PendingOf, Keeping, Answering
<1>1. OneOpen' /\ Unmade' /\ InHand' /\ OneHand' /\ Marks' /\ Creates'
  BY <1>0 DEF OneOpen, Unmade, InHand, OneHand, Reading, Marks, Creates
<1>2. Updates'
  <2>1. \A e : Marking(e)' => Marking(e)
    BY DEF Marking
  <2> QED BY <1>0, <2>1 DEF Updates
<1>3. Kept'
  <2> SUFFICES ASSUME NEW a \in Answerers, answer[a].stage = "read", answer[a].to = "ADOPTED"
               PROVE  surface'[events[answer[a].event].variant] \in {answer[a].price, "unknown"}
    BY DEF Kept
  <2>1. answer[a].event \in Ids
    BY DEF InHand, Reading, Pending
  <2>2. events[answer[a].event].variant \in Variants
    BY <2>1 DEF TypeOK, Events
  <2>3. Keeping(events[answer[a].event].variant)
    BY DEF Keeping
  <2> QED BY <2>2, <2>3 DEF Kept
<1>4. Batches'
  <2> SUFFICES ASSUME NEW a \in Answerers, answer[a].stage = "batch", NEW e \in answer[a].batch,
                      answer[a].to = "ADOPTED", e \in Pending
               PROVE  CanBeKept(e)'
    BY <1>0 DEF Batches
  <2>1. CanBeKept(e)
    BY DEF Batches
  <2>2. Keeping(events[e].variant) /\ events[e].variant \in Variants
    <3>1. e \in Ids
      BY DEF Pending
    <3> QED BY <3>1 DEF Keeping, TypeOK, Events
  <2> QED BY <2>1, <2>2 DEF CanBeKept
<1> QED BY <1>1, <1>2, <1>3, <1>4

LEMMA HandsFind == ASSUME NoGap, TypeOK, Hands, Find PROVE Hands'
<1> USE DEF Hands, HookTo, AtHook, campaign, shopify, mirror, queue, history, counts
<1> DEFINE v == hook.variant
<1>0. UNCHANGED <<events, made, surface, answer, run>>
  BY DEF Find
<1>1. CASE hook'.stage \notin {"update", "create"}
  BY <1>0, <1>1, PutDown DEF HandsStay
<1>2. CASE hook'.stage \in {"update", "create"}
  <2>0. hook \in Hooks
    BY DEF TypeOK
  <2>1. /\ hook'.variant = v
        /\ \/ hook'.stage = "create" /\ PendingOf(v) = {}
           \/ hook'.stage = "update" /\ hook'.event \in PendingOf(v)
    BY <1>2, <2>0 DEF Find, Hooks
  <2>2. /\ Pending' = Pending /\ (\A w : PendingOf(w)' = PendingOf(w)) /\ (\A w : Keeping(w)' = Keeping(w))
        /\ (\A e : Answering(e)' = Answering(e)) /\ (\A e : Marking(e)' = Marking(e))
        /\ \A e : CanBeKept(e)' = CanBeKept(e)
    BY <1>0 DEF Pending, PendingOf, Keeping, Answering, Marking, CanBeKept
  <2>3. OneOpen' /\ Unmade' /\ InHand' /\ OneHand' /\ Marks' /\ Kept' /\ Batches'
    BY <1>0, <2>2 DEF OneOpen, Unmade, InHand, OneHand, Reading, Marks, Kept, Batches
  <2>4. Creates'
    BY <2>1, <2>2 DEF Creates
  <2>5. Updates'
    <3>1. ~Keeping(v) /\ \A e \in PendingOf(v) : ~Answering(e) /\ ~Marking(e)
      BY DEF Find, NoGap, NotKeeping, NotInHand
    <3> QED BY <1>0, <2>1, <2>2, <3>1 DEF Updates, PendingOf
  <2> QED BY <2>3, <2>4, <2>5
<1> QED BY <1>1, <1>2

LEMMA HandsUpdate == ASSUME TypeOK, Hands, Update PROVE Hands'
<1> USE DEF Hands, HookTo, AtHook, campaign, shopify, mirror, queue, history, counts
<1> DEFINE h == hook.event
<1>0. /\ UNCHANGED <<made, surface, answer, run>> /\ hook'.stage = "hold"
      /\ h \in Pending /\ h \in Ids /\ events[h].variant = hook.variant
      /\ ~Answering(h) /\ ~Marking(h) /\ ~Keeping(hook.variant)
  BY DEF Update, Updates, Pending, TypeOK, Hooks
<1>1. /\ \A e \in Ids : e # h => events'[e] = events[e]
      /\ events'[h].variant = events[h].variant /\ events'[h].resolution = events[h].resolution
  BY <1>0 DEF Update, TypeOK, Events
<1>2. Pending' = Pending
  BY <1>1 DEF Pending
<1>3. OneOpen' /\ Unmade'
  <2>1. OneOpen'
    <3> SUFFICES ASSUME NEW e \in Pending, NEW f \in Pending, events'[e].variant = events'[f].variant PROVE e = f
      BY <1>2 DEF OneOpen
    <3>1. e \in Ids /\ f \in Ids
      BY DEF Pending
    <3> QED BY <1>1, <3>1 DEF OneOpen
  <2>2. Unmade'
    BY <1>0, <1>1 DEF Unmade, Pending
  <2> QED BY <2>1, <2>2
<1>4. InHand' /\ OneHand'
  <2>1. \A a \in Answerers : Reading(a) => answer[a].event # h
    BY <1>0 DEF Reading, Answering
  <2> QED BY <1>0, <1>1, <1>2, <2>1 DEF InHand, OneHand, Reading, Pending
<1>5. Marks'
  BY <1>0, <1>2 DEF Marks, Answering
<1>6. Updates' /\ Creates'
  BY <1>0 DEF Updates, Creates
<1>7. Kept'
  <2> SUFFICES ASSUME NEW a \in Answerers, answer[a].stage = "read", answer[a].to = "ADOPTED"
               PROVE  surface[events'[answer[a].event].variant] \in {answer[a].price, "unknown"}
    BY <1>0 DEF Kept
  <2>1. answer[a].event # h /\ answer[a].event \in Ids
    BY <1>0 DEF Answering, InHand, Reading, Pending
  <2> QED BY <1>1, <2>1 DEF Kept
<1>8. Batches'
  <2> SUFFICES ASSUME NEW a \in Answerers, answer[a].stage = "batch", NEW e \in answer[a].batch
               PROVE  e <= made /\ (answer[a].to = "ADOPTED" /\ e \in Pending => CanBeKept(e)')
    BY <1>0, <1>2 DEF Batches
  <2>1. e <= made /\ (answer[a].to = "ADOPTED" /\ e \in Pending => CanBeKept(e))
    BY DEF Batches
  <2>2. ASSUME answer[a].to = "ADOPTED", e \in Pending PROVE CanBeKept(e)'
    <3>1. e # h
      BY <1>0, <2>2 DEF Keeping
    <3>2. events'[e] = events[e]
      BY <1>1, <2>2, <3>1 DEF Pending
    <3> QED BY <1>0, <2>1, <2>2, <3>2 DEF CanBeKept
  <2> QED BY <2>1, <2>2
<1> QED BY <1>3, <1>4, <1>5, <1>6, <1>7, <1>8

LEMMA HandsCreate == ASSUME TypeOK, Hands, Create PROVE Hands'
<1> USE DEF Hands, AtHook, campaign, shopify, mirror, counts
<1> DEFINE n == made + 1
<1>0. /\ UNCHANGED <<surface, answer, run>> /\ made' = n /\ hook'.stage = "hold"
      /\ PendingOf(hook.variant) = {} /\ n \in Ids /\ made \in Nat
  BY BoundsAssumption DEF Create, Creates, TypeOK, Hooks
<1>1. /\ \A e \in Ids : e # n => events'[e] = events[e]
      /\ events'[n].variant = hook.variant /\ events'[n].resolution = "PENDING"
  BY <1>0 DEF Create, TypeOK
<1>2. n \notin Pending /\ (\A e \in Pending : e \in Ids /\ e <= made) /\ Pending' = Pending \cup {n}
  <2>1. n \notin Pending
    BY <1>0 DEF Unmade, Pending
  <2>2. \A e \in Pending : e \in Ids /\ e <= made
    BY <1>0 DEF Unmade, Pending
  <2> QED BY <1>0, <1>1, <2>1, <2>2 DEF Pending
<1>3. OneOpen'
  <2> SUFFICES ASSUME NEW e \in Pending \cup {n}, NEW f \in Pending \cup {n},
                      events'[e].variant = events'[f].variant
               PROVE  e = f
    BY <1>2 DEF OneOpen
  <2>1. \A g \in Pending : events'[g] = events[g] /\ events[g].variant # hook.variant
    BY <1>0, <1>1, <1>2 DEF PendingOf
  <2> QED BY <1>1, <2>1 DEF OneOpen
<1>4. Unmade'
  BY <1>0, <1>1 DEF Unmade
<1>5. InHand' /\ OneHand' /\ Kept'
  <2>1. \A a \in Answerers : Reading(a) => answer[a].event \in Pending /\ events'[answer[a].event] = events[answer[a].event]
    BY <1>1, <1>2 DEF InHand
  <2> QED BY <1>0, <1>2, <2>1 DEF InHand, OneHand, Kept, Reading
<1>6. Marks'
  BY <1>0, <1>2 DEF Marks, Answering
<1>7. Updates' /\ Creates'
  BY <1>0 DEF Updates, Creates
<1>8. Batches'
  <2> SUFFICES ASSUME NEW a \in Answerers, answer[a].stage = "batch", NEW e \in answer[a].batch
               PROVE  e <= n /\ (answer[a].to = "ADOPTED" /\ e \in Pending \cup {n} => CanBeKept(e)')
    BY <1>0, <1>2 DEF Batches
  <2>1. e \in Ids /\ e <= made /\ (answer[a].to = "ADOPTED" /\ e \in Pending => CanBeKept(e))
    BY DEF Batches, TypeOK, Answers
  <2>2. e # n /\ events'[e] = events[e]
    BY <1>0, <1>1, <2>1
  <2> QED BY <1>0, <2>1, <2>2 DEF CanBeKept
<1> QED BY <1>3, <1>4, <1>5, <1>6, <1>7, <1>8

LEMMA HandsBegin ==
  ASSUME NoGap, TypeOK, Hands, NEW a \in Answerers, NEW e \in Ids, NEW to \in {"ADOPTED", "IGNORED"},
         AnswerBegin(a, e, to)
  PROVE  Hands'
<1> USE DEF Hands, Stays, shopify, mirror, history, counts, campaign
<1>0. /\ UNCHANGED <<events, made, surface, hook, run>>
      /\ e \in Pending /\ ~Answering(e) /\ ~Marking(e) /\ ~(hook.stage = "update" /\ hook.event = e)
      /\ to = "ADOPTED" => CanBeKept(e)
  BY DEF AnswerBegin, NoGap, NotInHand, NotBeingHeld
<1>1. /\ answer' \in [Answerers -> Answers]
      /\ \A b \in Answerers : b # a => answer'[b] = answer[b]
      /\ answer'[a].stage = "read" /\ answer'[a].event = e /\ answer'[a].to = to
      /\ answer'[a].price = events[e].observed
  <2>1. TypeOK'
    <3>1. Decision(a)
      BY DEF Decision
    <3> QED BY <3>1, TypeDecision
  <2> QED BY <2>1 DEF AnswerBegin, TypeOK
<1>2. /\ Pending' = Pending /\ (\A v : PendingOf(v)' = PendingOf(v))
      /\ (\A f : CanBeKept(f)' = CanBeKept(f)) /\ (\A f : Marking(f)' = Marking(f))
  BY <1>0 DEF Pending, PendingOf, CanBeKept, Marking
<1>3. \A f : Answering(f)' => Answering(f) \/ f = e
  BY <1>1 DEF Answering
<1>4. \A v : Keeping(v)' => Keeping(v) \/ v = events[e].variant
  <2> SUFFICES ASSUME NEW v, Keeping(v)' PROVE Keeping(v) \/ v = events[e].variant
    OBVIOUS
  <2>1. PICK b \in Answerers :
            /\ answer'[b].to = "ADOPTED"
            /\ \/ answer'[b].stage = "read" /\ events[answer'[b].event].variant = v
               \/ answer'[b].stage = "batch" /\ \E f \in answer'[b].batch : events[f].variant = v
    BY <1>0 DEF Keeping
  <2>2. CASE b = a
    BY <1>1, <2>1, <2>2
  <2>3. CASE b # a
    BY <1>1, <2>1, <2>3 DEF Keeping
  <2> QED BY <2>2, <2>3
<1>5. OneOpen' /\ Unmade' /\ Creates'
  BY <1>0, <1>2 DEF OneOpen, Unmade, Creates
<1>6. InHand' /\ OneHand'
  <2>1. \A b \in Answerers : b # a => Reading(b)' = Reading(b)
    BY <1>1 DEF Reading
  <2>2. \A b \in Answerers : Reading(b) => answer[b].event # e
    BY <1>0 DEF Reading, Answering
  <2> QED BY <1>0, <1>1, <1>2, <2>1, <2>2 DEF InHand, OneHand
<1>7. Marks'
  BY <1>0, <1>2, <1>3 DEF Marks, Marking
<1>8. Updates'
  BY <1>0, <1>2, <1>3, <1>4 DEF Updates, OneOpen
<1>9. Kept'
  BY <1>0, <1>1 DEF Kept, CanBeKept
<1>10. Batches'
  BY <1>0, <1>1, <1>2 DEF Batches
<1> QED BY <1>5, <1>6, <1>7, <1>8, <1>9, <1>10

LEMMA HandsBatch ==
  ASSUME NoGap, TypeOK, Hands, NEW a \in Answerers, NEW to \in {"ADOPTED", "IGNORED"}, BatchBegin(a, to)
  PROVE  Hands'
<1> USE DEF Hands, Stays, shopify, mirror, history, counts, campaign
<1> DEFINE chosen == {e \in Pending : to = "ADOPTED" => CanBeKept(e)}
<1>0. /\ UNCHANGED <<events, made, surface, hook, run>>
      /\ \A e \in chosen : ~(hook.stage = "update" /\ hook.event = e)
  BY DEF BatchBegin, NoGap, NotBeingHeld
<1>1. /\ \A b \in Answerers : b # a => answer'[b] = answer[b]
      /\ answer'[a].stage = "batch" /\ answer'[a].to = to /\ answer'[a].batch = chosen
  BY DEF BatchBegin, TypeOK
<1>2. /\ Pending' = Pending /\ (\A v : PendingOf(v)' = PendingOf(v))
      /\ (\A f : CanBeKept(f)' = CanBeKept(f)) /\ (\A f : Marking(f)' = Marking(f))
  BY <1>0 DEF Pending, PendingOf, CanBeKept, Marking
<1>3. \A f : Answering(f)' => Answering(f)
  BY <1>1 DEF Answering
<1>4. \A v : Keeping(v)' => Keeping(v) \/ \E e \in chosen : v = events[e].variant
  <2> SUFFICES ASSUME NEW v, Keeping(v)' PROVE Keeping(v) \/ \E e \in chosen : v = events[e].variant
    OBVIOUS
  <2>1. PICK b \in Answerers :
            /\ answer'[b].to = "ADOPTED"
            /\ \/ answer'[b].stage = "read" /\ events[answer'[b].event].variant = v
               \/ answer'[b].stage = "batch" /\ \E f \in answer'[b].batch : events[f].variant = v
    BY <1>0 DEF Keeping
  <2>2. CASE b = a
    BY <1>1, <2>1, <2>2
  <2>3. CASE b # a
    BY <1>1, <2>1, <2>3 DEF Keeping
  <2> QED BY <2>2, <2>3
<1>5. OneOpen' /\ Unmade' /\ Creates'
  BY <1>0, <1>2 DEF OneOpen, Unmade, Creates
<1>6. InHand' /\ OneHand'
  <2>1. \A b \in Answerers : Reading(b)' => Reading(b) /\ answer'[b] = answer[b]
    BY <1>1 DEF Reading
  <2> QED BY <1>0, <1>2, <2>1 DEF InHand, OneHand
<1>7. Marks'
  BY <1>0, <1>2, <1>3 DEF Marks
<1>8. Updates'
  <2>1. \A e \in chosen : e \in Pending
    OBVIOUS
  <2> QED BY <1>0, <1>2, <1>3, <1>4, <2>1 DEF Updates, OneOpen
<1>9. Kept'
  BY <1>0, <1>1 DEF Kept
<1>10. Batches'
  <2>1. \A e \in chosen : e <= made /\ (to = "ADOPTED" => CanBeKept(e))
    BY DEF Unmade, Pending, TypeOK
  <2> HIDE DEF chosen
  <2> QED BY <1>0, <1>1, <1>2, <2>1 DEF Batches
<1> QED BY <1>5, <1>6, <1>7, <1>8, <1>9, <1>10

LEMMA HandsAdopt == ASSUME TypeOK, Hands, NEW a \in Answerers, AnswerAdopt(a) PROVE Hands'
<1> USE DEF Hands, Stays, shopify, mirror, history, counts, campaign, Doing
<1>0. UNCHANGED <<events, made, surface, hook, run>> /\ answer[a].stage = "read"
  BY DEF AnswerAdopt
<1>1. /\ \A b \in Answerers : b # a => answer'[b] = answer[b]
      /\ answer'[a].stage = "adopted" /\ answer'[a].event = answer[a].event
      /\ answer'[a].price = answer[a].price
  BY DEF AnswerAdopt, TypeOK, Answers
<1>2. /\ Pending' = Pending /\ (\A v : PendingOf(v)' = PendingOf(v))
      /\ (\A f : CanBeKept(f)' = CanBeKept(f)) /\ (\A f : Marking(f)' = Marking(f))
  BY <1>0 DEF Pending, PendingOf, CanBeKept, Marking
<1>3. \A f : Answering(f)' => Answering(f)
  BY <1>0, <1>1 DEF Answering
<1>4. \A v : Keeping(v)' => Keeping(v)
  BY <1>0, <1>1 DEF Keeping
<1>5. OneOpen' /\ Unmade' /\ Creates'
  BY <1>0, <1>2 DEF OneOpen, Unmade, Creates
<1>6. InHand' /\ OneHand'
  BY <1>0, <1>1, <1>2 DEF InHand, OneHand, Reading
<1>7. Marks' /\ Updates'
  BY <1>0, <1>2, <1>3, <1>4 DEF Marks, Updates
<1>8. Kept' /\ Batches'
  BY <1>0, <1>1, <1>2 DEF Kept, Batches
<1> QED BY <1>5, <1>6, <1>7, <1>8

LEMMA HandsMark ==
  ASSUME NoGap, TypeOK, Hands, NEW e \in Ids, PutBack(e) PROVE Hands'
<1> USE DEF Hands, shopify, mirror, queue, campaign
<1> DEFINE wants == {events[e].variant} \cap Differing(AllSale)
<1>0. /\ UNCHANGED <<events, made, surface, hook, answer>>
      /\ e \in Pending /\ ~Answering(e) /\ ~(hook.stage = "update" /\ hook.event = e)
  BY DEF PutBack, NoGap, NotInHand, NotBeingHeld
<1>1. run'.event = e
  BY DEF PutBack, Planned, NoRun
<1>2. /\ Pending' = Pending /\ (\A v : PendingOf(v)' = PendingOf(v)) /\ (\A v : Keeping(v)' = Keeping(v))
      /\ (\A f : CanBeKept(f)' = CanBeKept(f)) /\ \A f : Answering(f)' = Answering(f)
  BY <1>0 DEF Pending, PendingOf, CanBeKept, Keeping, Answering
<1>3. OneOpen' /\ Unmade' /\ Creates' /\ InHand' /\ OneHand' /\ Kept' /\ Batches'
  BY <1>0, <1>2 DEF OneOpen, Unmade, Creates, InHand, OneHand, Reading, Kept, Batches
<1>4. Marks'
  BY <1>0, <1>1, <1>2 DEF Marks
<1>5. Updates'
  BY <1>0, <1>1, <1>2 DEF Updates, Marking
<1> QED BY <1>3, <1>4, <1>5

LEMMA HandsMirror == ASSUME NoGap, TypeOK, Hands PROVE
  /\ Mirror => Hands'
  /\ RunSettle => Hands'
  /\ \A v \in Variants : Sync(v) => Hands'
<1> USE DEF campaign, shopify, mirror, queue, history, counts, HookTo, AtHook, RunTo
<1>1. CASE Mirror
  <2>1. /\ UNCHANGED <<events, made, answer, run>> /\ hook'.stage = "none" /\ ~Keeping(hook.variant)
    BY <1>1 DEF Mirror, NotKeeping, NoGap, TypeOK, Hooks
  <2>2. /\ surface' \in [Variants -> Prices \cup {"unknown"}]
        /\ \A v \in Variants : surface'[v] = surface[v] \/ v = hook.variant
    BY <1>1 DEF Mirror, TypeOK, Hooks, Reads
  <2> QED BY <2>1, <2>2, MirrorMoves
<1>2. CASE RunSettle
  <2> DEFINE mine == {v \in run.done \cup run.lost : seen[v] <= run.at[v]}
  <2>1. /\ UNCHANGED <<events, made, answer, hook>> /\ run'.stage # "mark"
        /\ \A v \in mine : ~Keeping(v)
    BY <1>2 DEF RunSettle, NotKeeping, NoGap, TypeOK, Runs
  <2>2. surface' = [v \in Variants |-> IF v \notin mine THEN surface[v]
                                       ELSE IF v \in run.done THEN run.to[v] ELSE "unknown"]
    BY <1>2 DEF RunSettle
  <2>3. run.to \in [Variants -> Prices]
    BY DEF TypeOK, Runs
  <2> HIDE DEF mine
  <2>4. /\ surface' \in [Variants -> Prices \cup {"unknown"}]
        /\ \A v \in Variants : surface'[v] = surface[v] \/ v \in mine
    BY <2>2, <2>3 DEF TypeOK
  <2> QED BY <2>1, <2>4, MirrorMoves
<1>3. ASSUME NEW v \in Variants, Sync(v) PROVE Hands'
  <2>1. /\ UNCHANGED <<events, made, answer, hook, run>> /\ ~Keeping(v)
        /\ surface' \in [Variants -> Prices \cup {"unknown"}]
        /\ \A w \in Variants : surface'[w] = surface[w] \/ w = v
    BY <1>3 DEF Sync, NotKeeping, NoGap, TypeOK
  <2> QED BY <2>1, MirrorMoves
<1> QED BY <1>1, <1>2, <1>3

LEMMA HandsClose == ASSUME NoGap, TypeOK, Hands PROVE
  /\ \A a \in Answerers : AnswerClose(a) \/ BatchClaim(a) => Hands'
  /\ RunClose \/ RunMark => Hands'
<1> USE DEF Hands, Stays, campaign, shopify, mirror, queue, history, counts, Doing, RunTo
<1>0. Pending \subseteq Ids
  BY DEF Pending
<1>1. ASSUME NEW a \in Answerers, AnswerClose(a) PROVE Hands'
  <2>0. PICK e \in Ids : e = answer[a].event
    BY <1>1 DEF AnswerClose, InHand, Reading, Pending
  <2>1. Reading(a) /\ e \in Pending /\ answer[a].to \in Verdicts
    BY <1>1, <2>0 DEF AnswerClose, Reading, InHand, TypeOK, Answers
  <2>2. /\ UNCHANGED <<made, surface, hook, run>>
        /\ \A b \in Answerers : b # a => answer'[b] = answer[b]
        /\ answer'[a].stage = "count"
        /\ events' = [f \in Ids |-> IF f \in {e} THEN [events[f] EXCEPT !.resolution = answer[a].to] ELSE events[f]]
    BY <1>1, <2>0 DEF AnswerClose, TypeOK, Answers
  <2>3. HandsStay
    BY <2>2 DEF HandsStay
  <2>4. ~Answering(e)' /\ ~Marking(e)' /\ ~(hook'.stage = "update" /\ hook'.event = e)
    <3>1. ~Answering(e)'
      BY <2>0, <2>1, <2>2 DEF Answering, OneHand, Reading
    <3>2. ~Marking(e)'
      <4>1. Answering(e)
        BY <2>0, <2>1 DEF Answering, Reading
      <4> QED BY <2>2, <4>1 DEF Marking, Marks
    <3>3. ~(hook'.stage = "update" /\ hook'.event = e)
      BY <1>1, <2>0, <2>2 DEF AnswerClose, NotBeingHeld, NoGap
    <3> QED BY <3>1, <3>2, <3>3
  <2>5. {e} \in SUBSET Pending
    BY <2>1
  <2> QED BY <2>1, <2>2, <2>3, <2>4, <2>5, Closing
<1>2. ASSUME NEW a \in Answerers, BatchClaim(a) PROVE Hands'
  <2> DEFINE C == answer[a].batch \cap Pending
  <2>2. /\ UNCHANGED <<made, surface, hook, run>>
        /\ \A b \in Answerers : b # a => answer'[b] = answer[b]
        /\ answer'[a].stage = "count" /\ answer[a].stage = "batch" /\ answer[a].to \in Verdicts
        /\ events' = [f \in Ids |-> IF f \in C THEN [events[f] EXCEPT !.resolution = answer[a].to] ELSE events[f]]
    BY <1>2 DEF BatchClaim, TypeOK, Answers
  <2>3. HandsStay
    BY <2>2 DEF HandsStay
  <2>4. ASSUME NEW e \in C PROVE ~Answering(e)' /\ ~Marking(e)' /\ ~(hook'.stage = "update" /\ hook'.event = e)
    <3>1. ~Answering(e) /\ ~Marking(e) /\ ~(hook.stage = "update" /\ hook.event = e)
      BY <1>2, <2>4 DEF BatchClaim, NotInHand, NotBeingHeld, NoGap
    <3> QED BY <2>2, <3>1 DEF Answering, Marking
  <2>5. C \in SUBSET Pending
    OBVIOUS
  <2> HIDE DEF C
  <2> QED BY <2>2, <2>3, <2>4, <2>5, Closing
<1>3. ASSUME RunClose PROVE Hands'
  <2>2. /\ UNCHANGED <<made, surface, hook, answer>> /\ run'.stage # "mark" /\ Overwritten \in SUBSET Pending
        /\ events' = [f \in Ids |-> IF f \in Overwritten THEN [events[f] EXCEPT !.resolution = "REASSERTED"] ELSE events[f]]
    <3>1. run'.stage # "mark"
      BY <1>3 DEF RunClose, TypeOK, Runs
    <3>2. Overwritten \in SUBSET Pending
      BY DEF Overwritten
    <3> QED BY <1>3, <3>1, <3>2 DEF RunClose
  <2>3. HandsStay
    BY <2>2 DEF HandsStay
  <2>4. ASSUME NEW e \in Overwritten
        PROVE  ~Answering(e)' /\ ~Marking(e)' /\ ~(hook'.stage = "update" /\ hook'.event = e)
    <3>1. ~Answering(e) /\ ~Marking(e) /\ ~(hook.stage = "update" /\ hook.event = e)
      BY <1>3, <2>4 DEF RunClose, NotInHand, NotBeingHeld, NoGap
    <3> QED BY <2>2, <3>1 DEF Answering, Marking
  <2> QED BY <2>2, <2>3, <2>4, Closing
<1>4. ASSUME RunMark PROVE Hands'
  <2>0. PICK e \in Ids : e = run.event
    BY <1>4 DEF RunMark, Marks, Pending
  <2>1. e \in Pending /\ ~Answering(e)
    BY <1>4, <2>0 DEF RunMark, Marks
  <2>2. /\ UNCHANGED <<made, surface, hook, answer>> /\ run'.stage = "count"
        /\ events' = [f \in Ids |-> IF f \in {e} THEN [events[f] EXCEPT !.resolution = "REASSERTED"] ELSE events[f]]
    BY <1>4, <2>0 DEF RunMark, TypeOK, Runs
  <2>3. HandsStay
    BY <2>2 DEF HandsStay
  <2>4. ~Answering(e)' /\ ~Marking(e)' /\ ~(hook'.stage = "update" /\ hook'.event = e)
    <3>1. ~Answering(e)' /\ ~Marking(e)'
      BY <2>1, <2>2 DEF Answering, Marking
    <3>2. ~(hook.stage = "update" /\ hook.event = e)
      BY <1>4, <2>0 DEF RunMark, NotBeingHeld, NoGap
    <3> QED BY <2>2, <3>1, <3>2
  <2>5. {e} \in SUBSET Pending /\ "REASSERTED" \in Verdicts
    BY <2>1
  <2> QED BY <2>2, <2>3, <2>4, <2>5, Closing
<1> QED BY <1>1, <1>2, <1>3, <1>4

(* What the other steps put down. *)
LEMMA HandsRest == ASSUME NoGap, TypeOK, Hands, [Next]_vars PROVE
  \/ Hands'
  \/ /\ HandsStay /\ UNCHANGED <<events, made, surface>>
<1> USE DEF HandsStay, campaign, shopify, mirror, queue, history, counts
<1>1. ASSUME Merchant PROVE Hands' \/ (HandsStay /\ UNCHANGED <<events, made, surface>>)
  BY <1>1, HandsMirror DEF Merchant, Edit, Expire
<1>2. ASSUME Webhook PROVE Hands' \/ (HandsStay /\ UNCHANGED <<events, made, surface>>)
  <2> USE DEF AtHook, HookTo
  <2>1. ASSUME NEW v \in Variants, NEW read \in sent[v], Take(v, read)
        PROVE  HandsStay /\ UNCHANGED <<events, made, surface>>
    <3>1. PICK stage \in {"none", "mirror", "find"} :
              hook' = [stage |-> stage, variant |-> v, read |-> read, event |-> 0]
      BY <2>1 DEF Take
    <3> QED BY <2>1, <3>1 DEF Take
  <2>2. ASSUME HoldLook \/ Hold \/ HookDies PROVE HandsStay /\ UNCHANGED <<events, made, surface>>
    <3>1. hook'.stage \notin {"update", "create"}
      BY <2>2 DEF HoldLook, Hold, HookDies, PutBackDelivery, TypeOK, Hooks
    <3> QED BY <2>2, <3>1 DEF HoldLook, Hold, HookDies, PutBackDelivery
  <2> QED BY <1>2, <2>1, <2>2, HandsFind, HandsUpdate, HandsCreate, HandsMirror DEF Webhook
<1>3. ASSUME NEW a \in Answerers, Decision(a) PROVE Hands' \/ (HandsStay /\ UNCHANGED <<events, made, surface>>)
  <2> USE DEF Doing, Stays
  <2>1. ASSUME AnswerCount(a) \/ AnswerRelease(a) \/ AnswerDies(a)
        PROVE  HandsStay /\ UNCHANGED <<events, made, surface>>
    <3>1. /\ \A b \in Answerers : b # a => answer'[b] = answer[b]
          /\ answer'[a].stage \in {"none", "release"}
      BY <2>1 DEF AnswerCount, AnswerRelease, AnswerDies, TypeOK, Answers
    <3> QED BY <2>1, <3>1 DEF AnswerCount, AnswerRelease, AnswerDies
  <2> QED BY <1>3, <2>1, HandsBegin, HandsBatch, HandsAdopt, HandsClose DEF Decision
<1>4. ASSUME Run PROVE Hands' \/ (HandsStay /\ UNCHANGED <<events, made, surface>>)
  <2> USE DEF RunTo, Planned
  <2>1. ASSUME Apply \/ Revert PROVE HandsStay /\ UNCHANGED <<events, made, surface>>
    <3>1. run'.stage = "write"
      BY <2>1 DEF Apply, Revert, NoRun
    <3> QED BY <2>1, <3>1 DEF Apply, Revert
  <2>2. ASSUME NEW v \in Variants, RunWrite(v) PROVE HandsStay /\ UNCHANGED <<events, made, surface>>
    <3>1. run'.stage = run.stage /\ run.stage = "write"
      <4>1. ASSUME NEW D, NEW L, NEW n, run' = [run EXCEPT !.done = D, !.lost = L, !.at[v] = n]
            PROVE  run'.stage = run.stage
        BY <4>1 DEF TypeOK, Runs
      <4>2. ASSUME NEW L, NEW n, run' = [run EXCEPT !.lost = L, !.at[v] = n] PROVE run'.stage = run.stage
        BY <4>2 DEF TypeOK, Runs
      <4> QED BY <2>2, <4>1, <4>2 DEF RunWrite
    <3>2. UNCHANGED <<answer, hook, events, made, surface>>
      BY <2>2 DEF RunWrite
    <3> QED BY <3>1, <3>2
  <2>3. ASSUME RunFinal \/ RunCount \/ RunRelease PROVE HandsStay /\ UNCHANGED <<events, made, surface>>
    <3>1. run'.stage \in {"none", "close", "release"}
      BY <2>3 DEF RunFinal, RunCount, RunRelease, TypeOK, Runs
    <3> QED BY <2>3, <3>1 DEF RunFinal, RunCount, RunRelease
  <2> QED BY <1>4, <2>1, <2>2, <2>3, HandsMark, HandsMirror, HandsClose DEF Run
<1>5. CASE UNCHANGED vars
  BY <1>5 DEF vars
<1> QED BY <1>1, <1>2, <1>3, <1>4, <1>5 DEF Next

LEMMA HandsInductive == ASSUME NoGap, TypeOK, Hands, [Next]_vars PROVE Hands'
  BY HandsRest, PutDown

THEOREM HandsHold == ASSUME NoGap PROVE Spec => []Hands
<1>1. TypeOK /\ Hands /\ [Next]_vars => Hands'
  BY HandsInductive
<1> QED BY <1>1, HandsInit, TypeCorrect, PTL DEF Spec

(* No step changes an event that was resolved. *)
LEMMA ResolvedStands ==
  ASSUME TypeOK, Hands, [Next]_vars, NEW e \in Ids, events[e].resolution \in Verdicts
  PROVE  events'[e] = events[e]
<1> USE DEF Hands, Stays, campaign, shopify, mirror, queue, history, counts
<1>0. e \notin Pending /\ e # made + 1
  BY DEF Pending, Unmade, TypeOK
<1>1. CASE Merchant
  BY <1>1 DEF Merchant, Edit, Expire, Sync
<1>2. CASE Webhook
  <2>1. CASE Update
    BY <1>0, <2>1 DEF Update, Updates, AtHook, TypeOK
  <2>2. CASE Create
    BY <1>0, <2>2 DEF Create, TypeOK
  <2> QED BY <1>2, <2>1, <2>2 DEF Webhook, Take, Find, HoldLook, Hold, Mirror, HookDies
<1>3. ASSUME NEW a \in Answerers, Decision(a) PROVE events'[e] = events[e]
  <2>1. CASE AnswerClose(a)
    BY <1>0, <2>1 DEF AnswerClose, InHand, Reading, TypeOK
  <2>2. CASE BatchClaim(a)
    BY <1>0, <2>2 DEF BatchClaim
  <2> QED BY <1>3, <2>1, <2>2 DEF Decision, AnswerBegin, BatchBegin, AnswerAdopt, AnswerCount,
                                  AnswerRelease, AnswerDies
<1>4. CASE Run
  <2>1. CASE RunClose
    BY <1>0, <2>1 DEF RunClose, Overwritten
  <2>2. CASE RunMark
    BY <1>0, <2>2 DEF RunMark, Marks, TypeOK
  <2> QED BY <1>4, <2>1, <2>2 DEF Run, PutBack, Apply, Revert, RunWrite, RunSettle, RunFinal,
                                  RunCount, RunRelease
<1>5. CASE UNCHANGED vars
  BY <1>5 DEF vars
<1> QED BY <1>1, <1>2, <1>3, <1>4, <1>5 DEF Next

(* With its gaps closed, an answer is given once, to the question as it stands,
   and no step changes it afterwards: of any number of decisions, a webhook
   and a run. *)
THEOREM AnswersStandHolds == ASSUME NoGap PROVE Spec => AnswersStand
<1> DEFINE Stands == /\ \A e \in Ids : events[e].resolution \in Verdicts => events'[e] = events[e]
                     /\ \A a \in Answerers :
                           (answer[a].stage \in {"read", "adopted"} /\ answer'[a].stage = "count")
                              => events[answer[a].event].observed = answer[a].price
<1>1. ASSUME TypeOK, Hands, Next PROVE Stands
  <2>1. \A a \in Answerers : answer[a].stage \in {"read", "adopted"}
                                => events[answer[a].event].observed = answer[a].price
    BY <1>1 DEF Hands, InHand, Reading
  <2> QED BY <1>1, <2>1, ResolvedStands
<1>2. TypeOK /\ Hands /\ [Next]_vars => [Stands]_vars
  BY <1>1
<1> HIDE DEF Stands
<1>3. Spec => [][Stands]_vars
  BY <1>2, HandsHold, TypeCorrect, PTL DEF Spec
<1> QED BY <1>3 DEF AnswersStand, Stands

(* With its gaps closed, no keep moves a baseline to a price that the mirror
   contradicts, however decisions, reads and runs interleave. *)
THEOREM KeptWasShownHolds == ASSUME NoGap PROVE Spec => KeptWasShown
<1> DEFINE Shown == \A v \in Variants : baseline'[v] # baseline[v] => surface[v] \in {baseline'[v], "unknown"}
<1>1. ASSUME TypeOK, Hands, Next PROVE Shown
  <2> USE DEF Hands, Stays, campaign, shopify, mirror, queue, history, counts
  <2>1. ASSUME NEW a \in Answerers, AnswerAdopt(a) PROVE Shown
    BY <1>1, <2>1 DEF AnswerAdopt, Kept, TypeOK
  <2>2. ASSUME NEW a \in Answerers, BatchClaim(a) PROVE Shown
    <3> DEFINE C == answer[a].batch \cap Pending
    <3>1. baseline' = [v \in Variants |->
                          IF answer[a].to = "ADOPTED" /\ \E e \in C : events[e].variant = v
                          THEN events[CHOOSE e \in C : events[e].variant = v].observed
                          ELSE baseline[v]]
      BY <2>2 DEF BatchClaim
    <3>2. answer[a].to = "ADOPTED" => \A e \in C : surface[events[e].variant] \in {events[e].observed, "unknown"}
      BY <1>1, <2>2 DEF BatchClaim, Batches, CanBeKept
    <3> HIDE DEF C
    <3>3. ASSUME NEW v \in Variants, baseline'[v] # baseline[v] PROVE surface[v] \in {baseline'[v], "unknown"}
      <4>1. answer[a].to = "ADOPTED" /\ \E e \in C : events[e].variant = v
        BY <1>1, <3>1, <3>3 DEF TypeOK
      <4>2. PICK e \in C : e = CHOOSE f \in C : events[f].variant = v
        BY <4>1
      <4>3. events[e].variant = v /\ baseline'[v] = events[e].observed
        BY <3>1, <4>1, <4>2
      <4> QED BY <3>2, <4>1, <4>3
    <3> QED BY <3>3
  <2>3. ASSUME UNCHANGED baseline PROVE Shown
    BY <2>3
  <2>4. CASE Merchant
    BY <2>3, <2>4 DEF Merchant, Edit, Expire, Sync
  <2>5. CASE Webhook
    BY <2>3, <2>5 DEF Webhook, Take, Find, Update, Create, HoldLook, Hold, Mirror, HookDies
  <2>6. ASSUME NEW a \in Answerers, Decision(a) PROVE Shown
    BY <2>1, <2>2, <2>3, <2>6 DEF Decision, AnswerBegin, BatchBegin, AnswerClose, AnswerCount,
                                  AnswerRelease, AnswerDies
  <2>7. CASE Run
    BY <2>3, <2>7 DEF Run, PutBack, Apply, Revert, RunWrite, RunSettle, RunFinal, RunClose, RunMark,
                      RunCount, RunRelease
  <2> QED BY <1>1, <2>4, <2>5, <2>6, <2>7 DEF Next
<1>2. TypeOK /\ Hands /\ [Next]_vars => [Shown]_vars
  BY <1>1
<1> HIDE DEF Shown
<1>3. Spec => [][Shown]_vars
  BY <1>2, HandsHold, TypeCorrect, PTL DEF Spec
<1> QED BY <1>3 DEF KeptWasShown, Shown

-----------------------------------------------------------------------------
(* What a run says before it writes.  While intents outlive the deliveries of what
   they announce, each delivery of a run's own price finds its intent, so that what
   the webhook goes on with after that look is an edit. *)

(* A step that changes no more of an event than its resolution. *)
OnlyResolves == /\ made' = made
                /\ \A e \in Ids : /\ events'[e].by = events[e].by
                                  /\ events'[e].variant = events[e].variant
                                  /\ events'[e].observed = events[e].observed

LEMMA Resolving ==
  ASSUME TypeOK, made' = made,
         \A e \in Ids : events'[e] = events[e] \/ \E r : events'[e] = [events[e] EXCEPT !.resolution = r]
  PROVE  OnlyResolves
<1> SUFFICES ASSUME NEW e \in Ids
             PROVE  /\ events'[e].by = events[e].by /\ events'[e].variant = events[e].variant
                    /\ events'[e].observed = events[e].observed
  BY DEF OnlyResolves
<1>1. CASE events'[e] = events[e]
  BY <1>1
<1>2. ASSUME NEW r, events'[e] = [events[e] EXCEPT !.resolution = r]
      PROVE  /\ events'[e].by = events[e].by /\ events'[e].variant = events[e].variant
             /\ events'[e].observed = events[e].observed
  <2>1. events[e] \in Events
    BY DEF TypeOK
  <2> QED BY <1>2, <2>1 DEF Events
<1> QED BY <1>1, <1>2

LEMMA DecisionsResolve == ASSUME TypeOK, NEW a \in Answerers, Decision(a) PROVE OnlyResolves
<1> USE DEF Stays, queue, Doing
<1>1. CASE AnswerClose(a)
  BY <1>1, Resolving DEF AnswerClose, TypeOK
<1>2. CASE BatchClaim(a)
  BY <1>2, Resolving DEF BatchClaim
<1> QED BY <1>1, <1>2 DEF Decision, AnswerBegin, BatchBegin, AnswerAdopt, AnswerCount, AnswerRelease, AnswerDies, OnlyResolves

LEMMA ClosingResolves == ASSUME TypeOK, RunClose \/ RunMark PROVE OnlyResolves
<1>1. CASE RunClose
  BY <1>1, Resolving DEF RunClose
<1>2. CASE RunMark
  BY <1>2, Resolving DEF RunMark, TypeOK
<1> QED BY <1>1, <1>2

Announced == \A v \in Variants : \A read \in sent[v] : read.by = "run" => read.price \in intents[v]
Caught   == hook.stage # "none" /\ hook.read.by = "run" => hook.read.price \in intents[hook.variant]
Says      == run.stage = "write" => \A v \in run.wants : run.to[v] \in intents[v]
NotOurs   == hook.stage \in {"find", "update", "create"} => hook.read.by = "edit"

Heard == Announced /\ Caught /\ Says /\ NotOurs /\ NoFalseAlarm

LEMMA HeardInit == Init => Heard
  BY BoundsAssumption DEF Init, Heard, Announced, Caught, Says, NotOurs, NoFalseAlarm, NoHook, NoRun

(* Intents only grow, and nothing new is in hand. *)
LEMMA HeardStays ==
  ASSUME Heard, TypeOK, TypeOK',
         \A v \in Variants : intents[v] \subseteq intents'[v],
         UNCHANGED <<sent, events, made, hook>>,
         run' = run \/ run'.stage # "write"
  PROVE  Heard'
<1>1. hook.variant \in Variants
  BY DEF TypeOK, Hooks
<1>2. Announced' /\ Caught' /\ NotOurs' /\ NoFalseAlarm'
  BY <1>1 DEF Heard, Announced, Caught, NotOurs, NoFalseAlarm
<1>3. Says'
  <2>1. run.wants \subseteq Variants
    BY DEF TypeOK, Runs
  <2> QED BY <2>1 DEF Heard, Says
<1> QED BY <1>2, <1>3 DEF Heard

LEMMA HeardMerchant == ASSUME "late" \notin Weak, Heard, TypeOK, TypeOK', Merchant PROVE Heard'
<1> USE DEF campaign, shopify, mirror, queue, history, counts
<1>1. ASSUME NEW v \in Variants, NEW price \in Edits \cup {"sale"}, Edit(v, price) PROVE Heard'
  BY <1>1 DEF Edit, Sold, Heard, Announced, Caught, Says, NotOurs, NoFalseAlarm, TypeOK
<1>2. ASSUME NEW v \in Variants, Expire(v) PROVE Heard'
  <2>1. /\ run.stage = "none" /\ ~InHook(v) /\ (\A read \in sent[v] : read.by = "edit")
        /\ intents' = [intents EXCEPT ![v] = {}] /\ UNCHANGED <<run, hook, sent, events, made>>
    BY <1>2 DEF Expire
  <2>2. Announced' /\ Says' /\ NotOurs' /\ NoFalseAlarm'
    BY <2>1 DEF Heard, Announced, Says, NotOurs, NoFalseAlarm, TypeOK
  <2>3. Caught'
    BY <2>1 DEF Heard, Caught, InHook, TypeOK, Hooks
  <2> QED BY <2>2, <2>3 DEF Heard
<1>3. ASSUME NEW v \in Variants, Sync(v) PROVE Heard'
  BY <1>3, HeardStays DEF Sync
<1> QED BY <1>1, <1>2, <1>3 DEF Merchant

LEMMA HeardWebhook == ASSUME Heard, TypeOK, TypeOK', Webhook PROVE Heard'
<1> USE DEF campaign, shopify, mirror, queue, history, counts, AtHook, HookTo
<1>0. /\ hook.variant \in Variants /\ hook.read \in Reads /\ hook.read.by \in {"edit", "run"}
      /\ \A v \in Variants : \A read \in sent[v] : read.by \in {"edit", "run"}
  <2>1. hook \in Hooks /\ \A v \in Variants : \A read \in sent[v] : read \in Reads
    BY DEF TypeOK
  <2> QED BY <2>1 DEF Hooks, Reads
<1>1. ASSUME NEW v \in Variants, NEW read \in sent[v], Take(v, read) PROVE Heard'
  <2>1. PICK stage \in {"none", "mirror", "find"} :
            /\ hook' = [stage |-> stage, variant |-> v, read |-> read, event |-> 0]
            /\ stage = "find" => ~IsOurEcho(read, v)
    BY <1>1 DEF Take
  <2>2. read.by = "run" => read.price \in intents[v]
    BY DEF Heard, Announced
  <2>3. UNCHANGED <<intents, run, events, made>> /\ \A w \in Variants : sent'[w] \subseteq sent[w]
    BY <1>1 DEF Take, TypeOK
  <2>4. Caught' /\ NotOurs'
    BY <1>0, <2>1, <2>2, <2>3 DEF Caught, NotOurs, IsOurEcho
  <2> QED BY <2>3, <2>4 DEF Heard, Announced, Says, NoFalseAlarm
<1>2. CASE Find
  <2>1. /\ UNCHANGED <<intents, sent, run, events, made>>
        /\ hook'.read = hook.read /\ hook'.variant = hook.variant /\ hook.stage = "find"
    BY <1>2 DEF Find, TypeOK, Hooks
  <2> QED BY <2>1 DEF Heard, Announced, Caught, NotOurs, Says, NoFalseAlarm
<1>3. CASE Update \/ Create
  <2>1. /\ UNCHANGED <<intents, sent, run>> /\ hook.stage \in {"update", "create"}
        /\ hook'.read = hook.read /\ hook'.variant = hook.variant /\ hook'.stage = "hold"
    BY <1>3 DEF Update, Create, TypeOK, Hooks
  <2>2. hook.read.by = "edit"
    BY <2>1 DEF Heard, NotOurs
  <2>3. \A e \in 1 .. made' : events'[e].by = "edit"
    <3>1. (\A e \in 1 .. made : e \in Ids /\ events[e].by = "edit") /\ made \in Nat
      BY BoundsAssumption DEF TypeOK, Heard, NoFalseAlarm
    <3>2. CASE Update
      <4>1. \A e \in Ids : events'[e] = IF e = hook.event
                                      THEN [events[e] EXCEPT !.observed = hook.read.price, !.by = "edit"]
                                      ELSE events[e]
        BY <2>2, <3>2 DEF Update, TypeOK
      <4>2. \A e \in Ids : [events[e] EXCEPT !.observed = hook.read.price, !.by = "edit"].by = "edit"
        BY DEF TypeOK, Events
      <4>3. made' = made
        BY <3>2 DEF Update
      <4> QED BY <3>1, <4>1, <4>2, <4>3
    <3>3. CASE Create
      <4>1. made + 1 \in Ids
        BY <3>1, <3>3, BoundsAssumption DEF Create
      <4>2. /\ events'[made + 1].by = "edit" /\ made' = made + 1
            /\ \A e \in Ids : e # made + 1 => events'[e] = events[e]
        BY <2>2, <3>3, <4>1 DEF Create, TypeOK
      <4> QED BY <3>1, <4>2
    <3> QED BY <1>3, <3>2, <3>3
  <2> QED BY <2>1, <2>2, <2>3 DEF Heard, Announced, Caught, NotOurs, Says, NoFalseAlarm
<1>4. CASE HoldLook \/ Mirror
  <2>1. /\ UNCHANGED <<intents, sent, run, events, made>>
        /\ hook'.read = hook.read /\ hook'.variant = hook.variant
        /\ hook'.stage \in {"holding", "mirror", "none"} /\ hook.stage # "none"
    BY <1>4 DEF HoldLook, Mirror, TypeOK, Hooks
  <2> QED BY <2>1 DEF Heard, Announced, Caught, NotOurs, Says, NoFalseAlarm
<1>5. CASE Hold \/ HookDies
  <2>1. /\ UNCHANGED <<intents, run, events, made>>
        /\ hook'.read = hook.read /\ hook'.variant = hook.variant /\ hook.stage # "none"
        /\ hook'.stage \in {"mirror", "none"}
    BY <1>5 DEF Hold, HookDies, PutBackDelivery, TypeOK, Hooks
  <2>2. sent' = sent \/ sent' = [sent EXCEPT ![hook.variant] = @ \cup {hook.read}]
    BY <1>5 DEF Hold, HookDies, PutBackDelivery
  <2>3. \A v \in Variants : \A read \in sent'[v] : read \in sent[v] \/ (v = hook.variant /\ read = hook.read)
    <3>1. sent \in [Variants -> SUBSET Reads]
      BY DEF TypeOK
    <3> QED BY <1>0, <2>2, <3>1
  <2>4. Announced'
    BY <2>1, <2>3 DEF Heard, Announced, Caught
  <2> QED BY <2>1, <2>4 DEF Heard, Caught, NotOurs, Says, NoFalseAlarm
<1> QED BY <1>1, <1>2, <1>3, <1>4, <1>5 DEF Webhook

LEMMA HeardDecision == ASSUME Heard, TypeOK, NEW a \in Answerers, Decision(a) PROVE Heard'
<1> USE DEF campaign, shopify, mirror, queue, history, counts, Stays
<1>1. UNCHANGED <<intents, sent, run, made, hook>>
  BY DEF Decision, AnswerBegin, BatchBegin, AnswerAdopt, AnswerClose, BatchClaim, AnswerCount, AnswerRelease, AnswerDies
<1>2. \A e \in Ids : events'[e].by = events[e].by
  BY DecisionsResolve DEF OnlyResolves
<1>3. \A e \in 1 .. made : e \in Ids
  BY BoundsAssumption DEF TypeOK
<1> QED BY <1>1, <1>2, <1>3 DEF Heard, Announced, Caught, NotOurs, Says, NoFalseAlarm

LEMMA HeardRun == ASSUME Heard, TypeOK, TypeOK', Run PROVE Heard'
<1> USE DEF campaign, shopify, mirror, queue, history, counts, RunTo
<1>1. ASSUME NEW to \in [Variants -> Prices], NEW wants \in SUBSET Variants, NEW e, NEW stage,
             Planned(to, wants, e, stage), UNCHANGED <<sent, hook, events, made>>
      PROVE  Heard'
  <2>1. /\ run'.wants = wants /\ run'.to = to
        /\ \A v \in Variants : intents[v] \subseteq intents'[v] /\ (v \in wants => to[v] \in intents'[v])
    BY <1>1 DEF Planned, NoRun, TypeOK
  <2> QED BY <1>1, <2>1 DEF Heard, Announced, Caught, NotOurs, Says, NoFalseAlarm, TypeOK, Hooks
<1>2. AllSale \in [Variants -> Prices] /\ (\A to : Differing(to) \subseteq Variants) /\ baseline \in [Variants -> Prices]
  BY DEF AllSale, Prices, Differing, TypeOK
<1>3. ASSUME NEW e \in Ids, PutBack(e) PROVE Heard'
  <2>1. {events[e].variant} \cap Differing(AllSale) \in SUBSET Variants
    BY <1>2
  <2> QED BY <1>1, <1>2, <1>3, <2>1 DEF PutBack
<1>4. CASE Apply
  BY <1>1, <1>2, <1>4 DEF Apply
<1>5. CASE Revert
  <2>1. PICK kept \in {{}, {events[e].variant : e \in Pending}} :
            Planned(baseline, Differing(baseline) \ kept, 0, "write")
    BY <1>5 DEF Revert
  <2>2. Differing(baseline) \ kept \in SUBSET Variants
    BY <1>2
  <2> QED BY <1>1, <1>2, <1>5, <2>1, <2>2 DEF Revert
<1>6. ASSUME NEW v \in Variants, RunWrite(v) PROVE Heard'
  <2>1. /\ UNCHANGED <<intents, hook, events, made>> /\ run.stage = "write" /\ v \in run.wants
        /\ run'.wants = run.wants /\ run'.to = run.to
    BY <1>6 DEF RunWrite, TypeOK, Runs
  <2>2. run.to[v] \in intents[v]
    BY <2>1 DEF Heard, Says
  <2>3. \A w \in Variants : \A read \in sent'[w] : read \in sent[w] \/ (w = v /\ read.price = run.to[v])
    BY <1>6 DEF RunWrite, Sold, TypeOK
  <2> QED BY <2>1, <2>2, <2>3 DEF Heard, Announced, Caught, NotOurs, Says, NoFalseAlarm
<1>7. CASE RunSettle \/ RunFinal \/ RunCount \/ RunRelease
  <2>1. run'.stage # "write"
    BY <1>7 DEF RunSettle, RunFinal, RunCount, RunRelease, TypeOK, Runs
  <2> QED BY <1>7, <2>1, HeardStays DEF RunSettle, RunFinal, RunCount, RunRelease
<1>8. CASE RunClose \/ RunMark
  <2>1. /\ UNCHANGED <<intents, sent, hook, made>> /\ run'.stage # "write"
    BY <1>8 DEF RunClose, RunMark, TypeOK, Runs
  <2>2. \A e \in Ids : events'[e].by = events[e].by
    BY <1>8, ClosingResolves DEF OnlyResolves
  <2>3. \A e \in 1 .. made : e \in Ids
    BY BoundsAssumption DEF TypeOK
  <2> QED BY <2>1, <2>2, <2>3 DEF Heard, Announced, Caught, NotOurs, Says, NoFalseAlarm
<1> QED BY <1>3, <1>4, <1>5, <1>6, <1>7, <1>8 DEF Run

(* While intents outlive the deliveries they announce, no run's own write is ever put
   to the merchant as an edit, for any number of variants, runs, deaths and
   deliveries in whatever order. *)
THEOREM NoFalseAlarmHolds == ASSUME "late" \notin Weak PROVE Spec => []NoFalseAlarm
<1>1. TypeOK /\ TypeOK' /\ Heard /\ [Next]_vars => Heard'
  <2> SUFFICES ASSUME TypeOK, TypeOK', Heard, [Next]_vars PROVE Heard'
    OBVIOUS
  <2>1. CASE UNCHANGED vars
    BY <2>1 DEF vars, Heard, Announced, Caught, Says, NotOurs, NoFalseAlarm
  <2> QED BY <2>1, HeardMerchant, HeardWebhook, HeardDecision, HeardRun DEF Next
<1>2. Heard => NoFalseAlarm
  BY DEF Heard
<1> QED BY <1>1, <1>2, HeardInit, TypeCorrect, PTL DEF Spec

-----------------------------------------------------------------------------
(* What each step leaves alone. *)

HookStages == {"none", "find", "update", "create", "hold", "holding", "mirror"}

(* The webhook goes on with the delivery it has in hand. *)
LEMMA HookSteps ==
  ASSUME TypeOK, Find \/ Update \/ Create \/ HoldLook \/ Hold \/ Mirror \/ HookDies
  PROVE  /\ hook.stage # "none" /\ hook'.read = hook.read /\ hook'.variant = hook.variant
         /\ UNCHANGED <<live, change, run, intents, baseline, answer, runs, wholes, edits>>
<1> USE DEF AtHook, HookTo, campaign, shopify, mirror, queue, history, counts
<1>1. CASE Find
  BY <1>1 DEF Find, TypeOK, Hooks
<1>2. CASE Update \/ Create
  BY <1>2 DEF Update, Create, TypeOK, Hooks
<1>3. CASE HoldLook \/ Mirror
  BY <1>3 DEF HoldLook, Mirror, TypeOK, Hooks
<1>4. CASE Hold \/ HookDies
  BY <1>4 DEF Hold, HookDies, PutBackDelivery, TypeOK, Hooks
<1> QED BY <1>1, <1>2, <1>3, <1>4

LEMMA HookTypes == ASSUME TypeOK PROVE
  /\ hook.variant \in Variants /\ hook.read \in Reads /\ hook.stage \in HookStages
  /\ hook.read.change \in Nat /\ hook.read.price \in Prices /\ hook.read.by \in {"edit", "run"}
  /\ hook.event \in 0 .. MaxEvents
<1>1. hook \in Hooks
  BY DEF TypeOK
<1> QED BY <1>1 DEF Hooks, Reads, HookStages

LEMMA RunTypes == ASSUME TypeOK PROVE
  /\ run.to \in [Variants -> Prices] /\ run.at \in [Variants -> Nat]
  /\ run.wants \in SUBSET Variants /\ run.done \in SUBSET Variants /\ run.lost \in SUBSET Variants
  /\ run.event \in 0 .. MaxEvents
  BY DEF TypeOK, Runs

LEMMA SentTypes == ASSUME TypeOK, NEW v \in Variants, NEW read \in sent[v]
                   PROVE  read \in Reads /\ read.change \in Nat /\ read.price \in Prices
  BY DEF TypeOK, Reads

(* A run that goes on changes its stage alone. *)
LEMMA RunSteps ==
  ASSUME TypeOK, RunSettle \/ RunFinal \/ RunClose \/ RunMark \/ RunCount \/ RunRelease
  PROVE  /\ run'.to = run.to /\ run'.at = run.at /\ run'.wants = run.wants
         /\ run'.done = run.done /\ run'.lost = run.lost /\ run'.event = run.event
         /\ UNCHANGED <<live, change, sent, intents, baseline, hook, answer, excused, again>>
         /\ UNCHANGED <<runs, wholes, edits, crashes>>
<1>1. ASSUME NEW s, RunTo(s)
      PROVE  /\ run'.to = run.to /\ run'.at = run.at /\ run'.wants = run.wants
             /\ run'.done = run.done /\ run'.lost = run.lost /\ run'.event = run.event
  BY <1>1 DEF RunTo, TypeOK, Runs
<1>2. \E s : RunTo(s)
  BY DEF RunSettle, RunFinal, RunClose, RunMark, RunCount, RunRelease
<1>3. /\ UNCHANGED <<live, change, sent, intents, baseline, hook, answer, excused, again>>
      /\ UNCHANGED <<runs, wholes, edits, crashes>>
  BY DEF RunSettle, RunFinal, RunClose, RunMark, RunCount, RunRelease,
         campaign, shopify, mirror, queue, history, counts
<1> QED BY <1>1, <1>2, <1>3

(* A run that begins. *)
LEMMA RunBegins ==
  ASSUME TypeOK, Apply \/ Revert \/ \E e \in Ids : PutBack(e)
  PROVE  /\ run.stage = "none" /\ run'.done = {} /\ run'.lost = {} /\ run'.at = [v \in Variants |-> 0]
         /\ run'.stage \in {"write", "mark"} /\ run'.wants \subseteq Variants
         /\ \A v \in Variants : v \in run'.wants =>
               surface[v] # run'.to[v] /\ intents'[v] = intents[v] \cup {run'.to[v]}
         /\ \A v \in Variants : v \notin run'.wants => intents'[v] = intents[v]
         /\ \A v \in Variants : run'.to[v] \in {"sale", baseline[v]}
         /\ \A v \in Variants : ~Owed(v)
         /\ UNCHANGED <<live, change, sent, surface, seen, baseline, hook, answer, excused, again>>
         /\ UNCHANGED <<events, made, edits, crashes, heldFrom>>
<1> USE DEF campaign, shopify, mirror, queue, history, counts, Begins
<1>1. ASSUME NEW to, NEW wants, NEW e, NEW stage, Planned(to, wants, e, stage), wants \subseteq Differing(to)
      PROVE  /\ run'.done = {} /\ run'.lost = {} /\ run'.at = [v \in Variants |-> 0] /\ run'.to = to
             /\ run'.stage = stage /\ run'.wants = wants /\ run'.event = e /\ run'.wants \subseteq Variants
             /\ \A v \in Variants : v \in run'.wants =>
                   surface[v] # run'.to[v] /\ intents'[v] = intents[v] \cup {run'.to[v]}
             /\ \A v \in Variants : v \notin run'.wants => intents'[v] = intents[v]
  BY <1>1 DEF Planned, NoRun, Differing
<1>2. CASE Apply
  <2>1. Planned(AllSale, Differing(AllSale), 0, "write")
    BY <1>2 DEF Apply
  <2>2. \A v \in Variants : AllSale[v] = "sale"
    BY DEF AllSale
  <2> QED BY <1>1, <1>2, <2>1, <2>2 DEF Apply
<1>3. CASE Revert
  <2>1. PICK kept \in {{}, {events[e].variant : e \in Pending}} :
            Planned(baseline, Differing(baseline) \ kept, 0, "write")
    BY <1>3 DEF Revert
  <2> QED BY <1>1, <1>3, <2>1 DEF Revert
<1>4. ASSUME NEW e \in Ids, PutBack(e)
      PROVE  Planned(AllSale, {events[e].variant} \cap Differing(AllSale), e,
                     IF {events[e].variant} \cap Differing(AllSale) = {} THEN "mark" ELSE "write")
  BY <1>4 DEF PutBack
<1>5. ASSUME NEW e \in Ids, PutBack(e)
      PROVE  /\ run'.done = {} /\ run'.lost = {} /\ run'.at = [v \in Variants |-> 0] /\ run'.to = AllSale
             /\ run'.stage \in {"write", "mark"} /\ run'.wants \subseteq Variants
             /\ \A v \in Variants : v \in run'.wants =>
                   surface[v] # run'.to[v] /\ intents'[v] = intents[v] \cup {run'.to[v]}
             /\ \A v \in Variants : v \notin run'.wants => intents'[v] = intents[v]
  <2> DEFINE wants == {events[e].variant} \cap Differing(AllSale)
             stage == IF wants = {} THEN "mark" ELSE "write"
  <2>1. Planned(AllSale, wants, e, stage) /\ wants \subseteq Differing(AllSale) /\ stage \in {"write", "mark"}
    BY <1>4, <1>5
  <2> HIDE DEF wants, stage
  <2> QED BY <1>1, <2>1
<1>6. \A v \in Variants : AllSale[v] = "sale"
  BY DEF AllSale
<1>7. ASSUME NEW e \in Ids, PutBack(e)
      PROVE  /\ run.stage = "none" /\ \A v \in Variants : ~Owed(v)
             /\ UNCHANGED <<live, change, sent, surface, seen, baseline, hook, answer, excused, again>>
             /\ UNCHANGED <<events, made, edits, crashes, heldFrom>>
  BY <1>7 DEF PutBack
<1> QED BY <1>2, <1>3, <1>5, <1>6, <1>7

(* A run that writes a price, or does not. *)
LEMMA RunWrites ==
  ASSUME TypeOK, NEW v \in Variants, RunWrite(v)
  PROVE  /\ run.stage = "write" /\ run'.stage = "write" /\ run'.to = run.to /\ run'.wants = run.wants
         /\ run'.event = run.event /\ v \in run.wants /\ v \notin run.done /\ v \notin run.lost
         /\ run'.done \subseteq run.done \cup {v} /\ run.done \subseteq run'.done
         /\ run'.lost \subseteq run.lost \cup {v} /\ run.lost \subseteq run'.lost
         /\ \A w \in Variants : w # v => run'.at[w] = run.at[w]
         /\ \/ Sold(v, run.to[v], "run") /\ run'.at[v] = change[v] + 1
            \/ UNCHANGED <<live, change, sent, excused>> /\ run'.at[v] = change[v] /\ v \notin run'.done
         /\ UNCHANGED <<surface, seen, intents, baseline, hook, answer, again, events, made>>
         /\ UNCHANGED <<status, ending, heldFrom, runs, wholes, edits, crashes>>
<1>0. run \in Runs /\ run.at \in [Variants -> Nat] /\ change[v] \in Nat
  BY DEF TypeOK, Runs
<1>1. ASSUME NEW D, NEW L, NEW n, run' = [run EXCEPT !.done = D, !.lost = L, !.at[v] = n]
      PROVE  /\ run'.stage = run.stage /\ run'.to = run.to /\ run'.wants = run.wants /\ run'.event = run.event
             /\ run'.done = D /\ run'.lost = L /\ run'.at = [run.at EXCEPT ![v] = n]
  BY <1>0, <1>1 DEF Runs
<1>2. CASE Sold(v, run.to[v], "run") /\ \E how \in {"done", "lost"} :
              run' = [run EXCEPT !.done = @ \cup IF how = "done" THEN {v} ELSE {},
                                 !.lost = @ \cup IF how = "lost" THEN {v} ELSE {},
                                 !.at[v] = change[v] + 1]
  <2>1. PICK how \in {"done", "lost"} :
              run' = [run EXCEPT !.done = run.done \cup IF how = "done" THEN {v} ELSE {},
                                 !.lost = run.lost \cup IF how = "lost" THEN {v} ELSE {},
                                 !.at[v] = change[v] + 1]
    BY <1>2
  <2> DEFINE D == run.done \cup IF how = "done" THEN {v} ELSE {}
             L == run.lost \cup IF how = "lost" THEN {v} ELSE {}
  <2>2. run' = [run EXCEPT !.done = D, !.lost = L, !.at[v] = change[v] + 1]
    BY <2>1
  <2>3. /\ D \subseteq run.done \cup {v} /\ run.done \subseteq D
        /\ L \subseteq run.lost \cup {v} /\ run.lost \subseteq L
    OBVIOUS
  <2> HIDE DEF D, L
  <2>4. /\ run'.stage = run.stage /\ run'.to = run.to /\ run'.wants = run.wants /\ run'.event = run.event
        /\ run'.done = D /\ run'.lost = L /\ run'.at = [run.at EXCEPT ![v] = change[v] + 1]
    BY <1>1, <2>2
  <2>5. run'.at[v] = change[v] + 1 /\ \A w \in Variants : w # v => run'.at[w] = run.at[w]
    BY <1>0, <2>4
  <2> QED BY <1>2, <2>3, <2>4, <2>5 DEF RunWrite, campaign, mirror, queue, counts
<1>3. CASE run' = [run EXCEPT !.lost = @ \cup {v}, !.at[v] = change[v]] /\ UNCHANGED <<shopify, excused>>
  <2>1. run' = [run EXCEPT !.done = run.done, !.lost = run.lost \cup {v}, !.at[v] = change[v]]
    BY <1>0, <1>3 DEF Runs
  <2>2. /\ run'.stage = run.stage /\ run'.to = run.to /\ run'.wants = run.wants /\ run'.event = run.event
        /\ run'.done = run.done /\ run'.lost = run.lost \cup {v}
        /\ run'.at = [run.at EXCEPT ![v] = change[v]]
    BY <1>1, <2>1
  <2>3. run'.at[v] = change[v] /\ \A w \in Variants : w # v => run'.at[w] = run.at[w]
    BY <1>0, <2>2
  <2> QED BY <1>3, <2>2, <2>3 DEF RunWrite, shopify, campaign, mirror, queue, counts
<1> QED BY <1>2, <1>3 DEF RunWrite

-----------------------------------------------------------------------------
(* Deliveries.  The newest change of a price waits, is in hand, or was handled last;
   nothing the mirror, a run or a history says is of a later one; a delivery is
   of a price some run wrote and was excused for, or of one that a merchant can
   set; and until a run closes what it wrote over, its write is the last. *)

AtWork == run.stage \in {"write", "final", "close"}

Numbers == \A v \in Variants : /\ seen[v] <= change[v] /\ excused[v] <= change[v]
                               /\ AtWork => run.at[v] <= change[v]
Waiting == \A v \in Variants :
    /\ \A read \in sent[v] : /\ read.change <= change[v]
                             /\ read.change = change[v] => read.price = live[v]
    /\ sent[v] # {} => \E read \in sent[v] : read.change = change[v]
InTurn  == \A v \in Variants : InHook(v) =>
    /\ hook.read.change <= change[v]
    /\ hook.read.change = change[v] => hook.read.price = live[v]
    /\ sent[v] = {} => hook.read.change = change[v]
Kind(v, read) == IF read.by = "run" THEN excused[v] >= read.change ELSE read.price \in Edits \cup {"sale"}
Kinds   == \A v \in Variants : (\A read \in sent[v] : Kind(v, read)) /\ (InHook(v) => Kind(v, hook.read))
Written == \A v \in Variants : AtWork /\ v \in run.done => excused[v] = change[v]

Delivered == Numbers /\ Waiting /\ InTurn /\ Kinds /\ Written

LEMMA DeliveredInit == Init => Delivered
<1> SUFFICES ASSUME Init PROVE Delivered
  OBVIOUS
<1>1. Numbers
  BY DEF Init, Numbers, AtWork, NoRun
<1>2. Waiting /\ InTurn /\ Kinds
  BY DEF Init, Waiting, InTurn, Kinds, InHook, NoHook
<1>3. Written
  BY DEF Init, Written, AtWork, NoRun
<1> QED BY <1>1, <1>2, <1>3 DEF Delivered

(* A change of a price, and its delivery. *)
LEMMA SoldDelivers ==
  ASSUME TypeOK, Delivered, NEW v \in Variants, NEW price, NEW by \in {"edit", "run"},
         Sold(v, price, by), hook' = hook, by = "edit" => price \in Edits \cup {"sale"}
  PROVE  /\ Waiting' /\ InTurn' /\ Kinds'
         /\ change'[v] = change[v] + 1 /\ \A w \in Variants : w # v => change'[w] = change[w]
         /\ \A w \in Variants : excused'[w] <= change'[w] /\ seen[w] <= change'[w]
         /\ \A w \in Variants : w # v => excused'[w] = excused[w]
         /\ by = "run" => excused'[v] = change'[v]
<1> DEFINE new == [price |-> price, change |-> change[v] + 1, by |-> by]
<1>0. /\ change \in [Variants -> Nat] /\ live \in [Variants -> Prices] /\ excused \in [Variants -> Nat]
      /\ seen \in [Variants -> Nat] /\ sent \in [Variants -> SUBSET Reads]
  BY DEF TypeOK
<1>1. /\ change'[v] = change[v] + 1 /\ live'[v] = price /\ sent'[v] = sent[v] \cup {new}
      /\ \A w \in Variants : w # v => change'[w] = change[w] /\ live'[w] = live[w] /\ sent'[w] = sent[w]
      /\ new.price = price /\ new.change = change[v] + 1 /\ new.by = by
  BY <1>0 DEF Sold
<1>2. /\ \A w \in Variants : w # v => excused'[w] = excused[w]
      /\ excused'[v] = IF by = "run" THEN change[v] + 1 ELSE excused[v]
  BY <1>0 DEF Sold
<1>3. \A w \in Variants : excused[w] <= change[w] /\ seen[w] <= change[w] /\ excused[w] \in Nat /\ change[w] \in Nat
  BY <1>0 DEF Delivered, Numbers
<1>4. \A w \in Variants : \A read \in sent[w] : read.change \in Nat /\ read.change <= change[w]
  BY SentTypes DEF Delivered, Waiting
<1> HIDE DEF new
<1>5. Waiting'
  <2>1. ASSUME NEW w \in Variants, w # v
        PROVE  /\ \A read \in sent'[w] : /\ read.change <= change'[w]
                                         /\ read.change = change'[w] => read.price = live'[w]
               /\ sent'[w] # {} => \E read \in sent'[w] : read.change = change'[w]
    BY <1>1, <2>1 DEF Delivered, Waiting
  <2>2. \A read \in sent'[v] : /\ read.change <= change'[v]
                               /\ read.change = change'[v] => read.price = live'[v]
    BY <1>1, <1>3, <1>4
  <2>3. \E read \in sent'[v] : read.change = change'[v]
    BY <1>1
  <2> QED BY <2>1, <2>2, <2>3 DEF Waiting
<1>6. InTurn'
  <2>1. ASSUME NEW w \in Variants, InHook(w)
        PROVE  /\ hook.read.change <= change'[w]
               /\ hook.read.change = change'[w] => hook.read.price = live'[w]
               /\ sent'[w] = {} => hook.read.change = change'[w]
    <3>1. hook.read.change \in Nat
      BY HookTypes
    <3> QED BY <1>1, <1>3, <2>1, <3>1 DEF Delivered, InTurn
  <2> QED BY <2>1 DEF InTurn, InHook
<1>7. Kinds'
  <2>1. \A w \in Variants : excused'[w] >= excused[w]
    BY <1>2, <1>3
  <2>2. ASSUME NEW w \in Variants, NEW read, Kind(w, read), read.change \in Nat PROVE Kind(w, read)'
    BY <1>2, <1>3, <2>1, <2>2 DEF Kind
  <2>3. ASSUME NEW w \in Variants, NEW read \in sent'[w] PROVE Kind(w, read)'
    <3>1. CASE read \in sent[w]
      BY <1>4, <2>2, <3>1 DEF Delivered, Kinds
    <3>2. CASE w = v /\ read = new
      BY <1>1, <1>2, <1>3, <3>2 DEF Kind
    <3> QED BY <1>1, <2>3, <3>1, <3>2
  <2>4. ASSUME NEW w \in Variants, InHook(w) PROVE Kind(w, hook.read)'
    BY <2>2, <2>4, HookTypes DEF Delivered, Kinds
  <2>5. \A w \in Variants : InHook(w)' <=> InHook(w)
    BY DEF InHook
  <2> QED BY <2>3, <2>4, <2>5 DEF Kinds
<1>8. \A w \in Variants : excused'[w] <= change'[w] /\ seen[w] <= change'[w]
  <2>1. ASSUME NEW w \in Variants PROVE seen[w] \in Nat
    BY <1>0
  <2> QED BY <1>1, <1>2, <1>3, <2>1
<1> QED BY <1>1, <1>2, <1>5, <1>6, <1>7, <1>8

(* A step that changes no price, no delivery and no history. *)
LEMMA DeliveredStays ==
  ASSUME TypeOK, Delivered, UNCHANGED <<live, change, sent, excused>>,
         \A v \in Variants : seen'[v] <= change[v],
         \A v \in Variants : InHook(v)' => InHook(v) /\ hook'.read = hook.read,
         \/ AtWork /\ run'.at = run.at /\ run'.done = run.done
         \/ run'.done = {} /\ \A v \in Variants : run'.at[v] = 0
         \/ ~AtWork'
  PROVE  Delivered'
<1>1. Numbers'
  BY DEF Delivered, Numbers, TypeOK
<1>2. Waiting' /\ InTurn' /\ Kinds'
  BY DEF Delivered, Waiting, InTurn, Kinds, Kind
<1>3. Written'
  BY DEF Delivered, Written
<1> QED BY <1>1, <1>2, <1>3 DEF Delivered

LEMMA DeliveredMerchant == ASSUME "close" \notin Weak, TypeOK, Delivered, Merchant PROVE Delivered'
<1> USE DEF campaign, shopify, mirror, queue, history, counts
<1>1. ASSUME NEW v \in Variants, NEW price \in Edits \cup {"sale"}, Edit(v, price) PROVE Delivered'
  <2>1. Sold(v, price, "edit") /\ hook' = hook /\ run' = run /\ seen' = seen /\ ~(AtWork /\ v \in run.done)
    BY <1>1 DEF Edit, AtWork
  <2>2. /\ Waiting' /\ InTurn' /\ Kinds'
        /\ change'[v] = change[v] + 1 /\ \A w \in Variants : w # v => change'[w] = change[w]
        /\ \A w \in Variants : excused'[w] <= change'[w] /\ seen[w] <= change'[w]
        /\ \A w \in Variants : w # v => excused'[w] = excused[w]
    BY <2>1, SoldDelivers
  <2>3. Numbers'
    <3>1. ASSUME NEW w \in Variants, AtWork' PROVE run'.at[w] <= change'[w]
      <4>1. run.at[w] <= change[w] /\ run.at[w] \in Nat /\ change[w] \in Nat
        BY <2>1, <3>1, RunTypes DEF Delivered, Numbers, AtWork, TypeOK
      <4> QED BY <2>1, <2>2, <4>1
    <3> QED BY <2>1, <2>2, <3>1 DEF Numbers
  <2>4. Written'
    BY <2>1, <2>2 DEF Delivered, Written, AtWork
  <2> QED BY <2>2, <2>3, <2>4 DEF Delivered
<1>2. ASSUME NEW v \in Variants, Expire(v) PROVE Delivered'
  BY <1>2, DeliveredStays DEF Expire, Delivered, Numbers, AtWork, InHook
<1>3. ASSUME NEW v \in Variants, Sync(v) PROVE Delivered'
  <2>1. \A w \in Variants : seen'[w] <= change[w]
    BY <1>3 DEF Sync, Delivered, Numbers, TypeOK
  <2> QED BY <1>3, <2>1, DeliveredStays DEF Sync, AtWork, InHook
<1> QED BY <1>1, <1>2, <1>3 DEF Merchant

LEMMA DeliveredTake ==
  ASSUME TypeOK, Delivered, NEW v \in Variants, NEW read \in sent[v], Take(v, read)
  PROVE  Delivered'
<1> USE DEF campaign, mirror, queue, counts
<1>0. /\ read.change \in Nat /\ read.change <= change[v] /\ Kind(v, read)
      /\ read.change = change[v] => read.price = live[v]
      /\ change \in [Variants -> Nat] /\ excused \in [Variants -> Nat] /\ sent \in [Variants -> SUBSET Reads]
  BY SentTypes DEF Delivered, Waiting, Kinds, TypeOK
<1>1. PICK stage \in {"none", "mirror", "find"} :
          hook' = [stage |-> stage, variant |-> v, read |-> read, event |-> 0]
  BY DEF Take
<1>2. /\ UNCHANGED <<live, change, seen, run>> /\ hook.stage = "none"
      /\ sent'[v] = {d \in sent[v] : d.change > read.change}
      /\ \A w \in Variants : w # v => sent'[w] = sent[w]
  BY <1>0 DEF Take, AtHook
<1>3. \A w \in Variants : excused[w] <= excused'[w] /\ excused'[w] <= change[w] /\ excused'[w] \in Nat
  <2>1. \A w \in Variants : excused[w] <= change[w]
    BY DEF Delivered, Numbers
  <2>2. CASE excused' = excused
    BY <1>0, <2>1, <2>2
  <2>3. CASE excused' = [excused EXCEPT ![v] = IF @ < read.change THEN read.change ELSE @]
    BY <1>0, <2>1, <2>3
  <2> QED BY <2>2, <2>3 DEF Take, Excused
<1>4. Numbers'
  BY <1>2, <1>3 DEF Delivered, Numbers, AtWork
<1>5. \A w \in Variants : \A d \in sent'[w] : d \in sent[w] /\ d.change \in Nat /\ d.change <= change[w]
  BY <1>0, <1>2, SentTypes DEF Delivered, Waiting
<1>6. Waiting'
  <2>1. sent'[v] # {} => \E d \in sent'[v] : d.change = change[v]
    <3> SUFFICES ASSUME NEW c \in sent'[v] PROVE \E d \in sent'[v] : d.change = change[v]
      OBVIOUS
    <3>1. c \in sent[v] /\ c.change > read.change /\ c.change <= change[v] /\ c.change \in Nat
      BY <1>2, <1>5
    <3>2. PICK d \in sent[v] : d.change = change[v]
      BY <3>1 DEF Delivered, Waiting
    <3> QED BY <1>0, <1>2, <3>1, <3>2
  <2> QED BY <1>2, <1>5, <2>1 DEF Delivered, Waiting
<1>7. InTurn'
  <2>1. sent'[v] = {} => read.change = change[v]
    <3>1. PICK d \in sent[v] : d.change = change[v]
      BY DEF Delivered, Waiting
    <3> QED BY <1>0, <1>2, <3>1
  <2> QED BY <1>0, <1>1, <1>2, <2>1 DEF InTurn, InHook
<1>8. Kinds'
  <2>1. ASSUME NEW w \in Variants, NEW d, Kind(w, d), d.change \in Nat PROVE Kind(w, d)'
    BY <1>0, <1>3, <2>1 DEF Kind
  <2> QED BY <1>0, <1>1, <1>5, <2>1 DEF Delivered, Kinds, InHook
<1>9. Written'
  BY <1>0, <1>2, <1>3 DEF Delivered, Written, AtWork
<1> QED BY <1>4, <1>6, <1>7, <1>8, <1>9 DEF Delivered

(* A delivery put back waits again. *)
LEMMA DeliveredPutBack ==
  ASSUME TypeOK, Delivered, hook.stage # "none", PutBackDelivery,
         UNCHANGED <<live, change, seen, excused, run>>
  PROVE  Delivered'
<1>0. hook.variant \in Variants /\ hook.read \in Reads /\ hook.read.change \in Nat /\ InHook(hook.variant)
  BY HookTypes DEF InHook
<1>1. /\ sent'[hook.variant] = sent[hook.variant] \cup {hook.read}
      /\ \A w \in Variants : w # hook.variant => sent'[w] = sent[w]
      /\ hook'.stage = "none"
  BY <1>0 DEF PutBackDelivery, HookTo, TypeOK, Hooks
<1>2. Numbers' /\ Written'
  BY DEF Delivered, Numbers, Written, AtWork
<1>3. InTurn'
  BY <1>1 DEF InTurn, InHook
<1>4. Waiting'
  <2>1. sent[hook.variant] = {} => hook.read.change = change[hook.variant]
    BY <1>0 DEF Delivered, InTurn
  <2> QED BY <1>0, <1>1, <2>1 DEF Delivered, Waiting, InTurn
<1>5. Kinds'
  BY <1>0, <1>1 DEF Delivered, Kinds, Kind, InHook
<1> QED BY <1>2, <1>3, <1>4, <1>5 DEF Delivered

LEMMA DeliveredHook ==
  ASSUME TypeOK, Delivered, Find \/ Update \/ Create \/ HoldLook \/ Hold \/ Mirror \/ HookDies
  PROVE  Delivered'
<1> USE DEF campaign, shopify, mirror, queue, history, counts
<1>0. /\ hook.stage # "none" /\ hook'.read = hook.read /\ hook'.variant = hook.variant
      /\ UNCHANGED <<live, change, run>>
  BY HookSteps
<1>1. hook.variant \in Variants /\ hook.read.change \in Nat /\ InHook(hook.variant)
  BY <1>0, HookTypes DEF InHook
<1>2. /\ \A v \in Variants : InHook(v)' => InHook(v) /\ hook'.read = hook.read
      /\ \A v \in Variants : seen[v] <= change[v]
      /\ AtWork => run'.at = run.at /\ run'.done = run.done
      /\ ~AtWork => ~AtWork'
  BY <1>0 DEF InHook, Delivered, Numbers, AtWork
<1>3. CASE Update \/ Create \/ HoldLook
  BY <1>0, <1>2, <1>3, DeliveredStays DEF Update, Create, HoldLook
<1>4. CASE Mirror
  <2>1. \A v \in Variants : seen'[v] <= change[v]
    BY <1>1, <1>2, <1>4 DEF Mirror, Delivered, InTurn, TypeOK
  <2> QED BY <1>0, <1>2, <1>4, <2>1, DeliveredStays DEF Mirror
<1>5. CASE HookDies
  BY <1>0, <1>5, DeliveredPutBack DEF HookDies
<1>6. CASE Hold
  <2>1. CASE MayMove("HELD")
    BY <1>0, <1>2, <1>6, <2>1, DeliveredStays DEF Hold
  <2>2. CASE ~MayMove("HELD")
    BY <1>0, <1>6, <2>2, DeliveredPutBack DEF Hold
  <2> QED BY <2>1, <2>2
<1>7. CASE Find
  <2>1. \A w \in Variants : excused[w] <= excused'[w] /\ excused'[w] <= change[w] /\ excused'[w] \in Nat
    <3>1. /\ \A w \in Variants : excused[w] <= change[w]
          /\ excused \in [Variants -> Nat] /\ hook.read.change <= change[hook.variant]
      BY <1>1 DEF Delivered, Numbers, InTurn, TypeOK
    <3>2. CASE excused' = excused
      BY <3>1, <3>2
    <3>3. CASE excused' = [excused EXCEPT ![hook.variant] = IF @ < hook.read.change THEN hook.read.change ELSE @]
      BY <1>1, <3>1, <3>3
    <3> QED BY <1>7, <3>2, <3>3 DEF Find, Excused
  <2>2. UNCHANGED <<sent, seen>>
    BY <1>7 DEF Find
  <2>3. Numbers'
    BY <1>0, <2>1, <2>2 DEF Delivered, Numbers, AtWork
  <2>4. Waiting' /\ InTurn'
    BY <1>0, <1>2, <2>2 DEF Delivered, Waiting, InTurn
  <2>5. Kinds'
    <3>1. ASSUME NEW w \in Variants, NEW d, Kind(w, d), d.change \in Nat PROVE Kind(w, d)'
      <4>1. excused[w] \in Nat
        BY DEF TypeOK
      <4> QED BY <2>1, <3>1, <4>1 DEF Kind
    <3> QED BY <1>1, <1>2, <2>2, <3>1, SentTypes DEF Delivered, Kinds
  <2>6. Written'
    <3>1. excused \in [Variants -> Nat] /\ change \in [Variants -> Nat]
      BY DEF TypeOK
    <3> QED BY <1>0, <2>1, <3>1 DEF Delivered, Written, AtWork
  <2> QED BY <2>3, <2>4, <2>5, <2>6 DEF Delivered
<1> QED BY <1>3, <1>4, <1>5, <1>6, <1>7

LEMMA DeliveredRun == ASSUME TypeOK, Delivered, Run PROVE Delivered'
<1> USE DEF campaign, shopify, mirror, queue, history, counts
<1>1. ASSUME Apply \/ Revert \/ \E e \in Ids : PutBack(e) PROVE Delivered'
  <2>1. /\ run'.done = {} /\ run'.at = [v \in Variants |-> 0]
        /\ UNCHANGED <<live, change, sent, excused, hook, seen>>
    BY <1>1, RunBegins
  <2> QED BY <2>1, DeliveredStays DEF Delivered, Numbers, InHook
<1>2. ASSUME NEW v \in Variants, RunWrite(v) PROVE Delivered'
  <2>1. /\ run.stage = "write" /\ run'.stage = "write" /\ v \notin run.done
        /\ run'.done \subseteq run.done \cup {v} /\ seen' = seen /\ hook' = hook
        /\ \A w \in Variants : w # v => run'.at[w] = run.at[w]
        /\ \/ Sold(v, run.to[v], "run") /\ run'.at[v] = change[v] + 1
           \/ UNCHANGED <<live, change, sent, excused>> /\ run'.at[v] = change[v] /\ v \notin run'.done
    BY <1>2, RunWrites
  <2>2. AtWork /\ change \in [Variants -> Nat] /\ run.at \in [Variants -> Nat]
    BY <2>1, RunTypes DEF AtWork, TypeOK
  <2>3. CASE Sold(v, run.to[v], "run") /\ run'.at[v] = change[v] + 1
    <3>1. /\ Waiting' /\ InTurn' /\ Kinds'
          /\ change'[v] = change[v] + 1 /\ \A w \in Variants : w # v => change'[w] = change[w]
          /\ \A w \in Variants : excused'[w] <= change'[w] /\ seen[w] <= change'[w]
          /\ \A w \in Variants : w # v => excused'[w] = excused[w]
          /\ excused'[v] = change'[v]
      BY <2>1, <2>3, SoldDelivers
    <3>2. Numbers'
      BY <2>1, <2>2, <2>3, <3>1 DEF Delivered, Numbers
    <3>3. Written'
      BY <2>1, <2>2, <3>1 DEF Delivered, Written
    <3> QED BY <3>1, <3>2, <3>3 DEF Delivered
  <2>4. CASE UNCHANGED <<live, change, sent, excused>> /\ run'.at[v] = change[v] /\ v \notin run'.done
    <3>1. Numbers'
      BY <2>1, <2>2, <2>4 DEF Delivered, Numbers
    <3>2. Waiting' /\ InTurn' /\ Kinds'
      BY <2>1, <2>4 DEF Delivered, Waiting, InTurn, Kinds, Kind, InHook
    <3>3. Written'
      BY <2>1, <2>2, <2>4 DEF Delivered, Written
    <3> QED BY <3>1, <3>2, <3>3 DEF Delivered
  <2> QED BY <2>1, <2>3, <2>4
<1>3. ASSUME RunSettle \/ RunFinal \/ RunClose \/ RunMark \/ RunCount \/ RunRelease PROVE Delivered'
  <2>1. run'.at = run.at /\ run'.done = run.done /\ UNCHANGED <<live, change, sent, hook, excused>>
    BY <1>3, RunSteps
  <2>2. AtWork \/ ~AtWork'
    BY <1>3 DEF RunSettle, RunFinal, RunClose, RunMark, RunCount, RunRelease, RunTo, AtWork, TypeOK, Runs
  <2>3. \A v \in Variants : seen'[v] <= change[v]
    <3>1. CASE RunSettle
      BY <3>1, RunTypes DEF RunSettle, Delivered, Numbers, AtWork
    <3> QED BY <1>3, <3>1 DEF RunFinal, RunClose, RunMark, RunCount, RunRelease, Delivered, Numbers
  <2> QED BY <2>1, <2>2, <2>3, DeliveredStays DEF InHook
<1> QED BY <1>1, <1>2, <1>3 DEF Run

LEMMA DeliveredDecision == ASSUME TypeOK, Delivered, NEW a \in Answerers, Decision(a) PROVE Delivered'
<1>1. UNCHANGED <<live, change, sent, excused, seen, hook, run>>
  BY DEF Decision, AnswerBegin, BatchBegin, AnswerAdopt, AnswerClose, BatchClaim, AnswerCount, AnswerRelease,
         AnswerDies, Stays, shopify, mirror, history
<1> QED BY <1>1 DEF Delivered, Numbers, Waiting, InTurn, Kinds, Kind, Written, InHook, AtWork

LEMMA DeliveredInductive == ASSUME "close" \notin Weak, TypeOK, Delivered, [Next]_vars PROVE Delivered'
<1>1. CASE UNCHANGED vars
  BY <1>1 DEF vars, Delivered, Numbers, Waiting, InTurn, Kinds, Kind, Written, InHook, AtWork
<1>2. CASE Webhook
  BY <1>2, DeliveredTake, DeliveredHook DEF Webhook
<1> QED BY <1>1, <1>2, DeliveredMerchant, DeliveredRun, DeliveredDecision DEF Next

-----------------------------------------------------------------------------
(* What is handled again.  A delivery the webhook has looked at is of a newer price than
   the mirror's, and no run has it announced but one still to settle; one that
   has recorded its event stays alone of its variant, looks the same again, and
   no run is at work until it is in the mirror; and the event it recorded stays
   open, and about that price, in its hand. *)

Calm == Weak \subseteq {"late", "release"}

HasEvent == hook.stage \in {"hold", "holding"} \/ (hook.stage = "mirror" /\ hook.event # 0)
Looked   == hook.stage \in {"find", "update", "create"} \/ HasEvent
            \/ (hook.stage = "mirror" /\ hook.variant \in again)

Fresh(v, read) == read.change >= seen[v] /\ surface[v] \notin {read.price, "unknown"}
Writing(v) == run.stage = "write" /\ v \in run.wants /\ (v \in run.done \cup run.lost => seen[v] <= run.at[v])

Unasked   == hook.stage \in {"find", "create"} => hook.event = 0
Recorded  == HasEvent => /\ hook.event \in Pending /\ events[hook.event].variant = hook.variant
                         /\ events[hook.event].observed = hook.read.price
HandFresh == Looked => /\ Fresh(hook.variant, hook.read)
                       /\ hook.read.price \in intents[hook.variant] => Writing(hook.variant)
Redone    == \A v \in again :
                /\ run.stage = "none"
                /\ \/ InHook(v) /\ Looked /\ sent[v] = {}
                   \/ ~InHook(v) /\ \E read \in sent[v] :
                                       sent[v] = {read} /\ Fresh(v, read) /\ read.price \notin intents[v]

Redoing == Unasked /\ Recorded /\ HandFresh /\ Redone

LEMMA RedoingInit == Init => Redoing
  BY DEF Init, Redoing, Unasked, Recorded, HandFresh, Redone, HasEvent, Looked, NoHook

(* A step that leaves alone what the webhook has in hand and what is to be handled again. *)
LEMMA RedoingStays ==
  ASSUME TypeOK, Redoing, UNCHANGED <<hook, again>>,
         \A v \in Variants : v \in again \/ InHook(v) => surface'[v] = surface[v] /\ seen'[v] = seen[v],
         \A v \in again : run'.stage = "none" /\ sent'[v] = sent[v] /\ intents'[v] \subseteq intents[v],
         Looked /\ hook.read.price \in intents'[hook.variant] => Writing(hook.variant)',
         HasEvent => events'[hook.event] = events[hook.event]
  PROVE  Redoing'
<1>0. again \subseteq Variants /\ hook.variant \in Variants /\ (Looked => InHook(hook.variant))
  BY HookTypes DEF TypeOK, Looked, HasEvent, InHook
<1>1. (HasEvent' <=> HasEvent) /\ (Looked' <=> Looked) /\ (\A v : InHook(v)' <=> InHook(v))
  BY DEF HasEvent, Looked, InHook
<1>2. Unasked'
  BY DEF Redoing, Unasked
<1>3. Recorded'
  BY <1>1 DEF Redoing, Recorded, Pending
<1>4. HandFresh'
  BY <1>0, <1>1 DEF Redoing, HandFresh, Fresh
<1>5. Redone'
  <2> SUFFICES ASSUME NEW v \in again
               PROVE  /\ run'.stage = "none"
                      /\ \/ InHook(v)' /\ Looked' /\ sent'[v] = {}
                         \/ ~InHook(v)' /\ \E read \in sent'[v] :
                               sent'[v] = {read} /\ Fresh(v, read)' /\ read.price \notin intents'[v]
    BY DEF Redone
  <2>1. CASE InHook(v) /\ Looked /\ sent[v] = {}
    BY <1>1, <2>1
  <2>2. CASE ~InHook(v) /\ \E read \in sent[v] :
                 sent[v] = {read} /\ Fresh(v, read) /\ read.price \notin intents[v]
    <3>1. PICK read \in sent[v] : sent[v] = {read} /\ Fresh(v, read) /\ read.price \notin intents[v]
      BY <2>2
    <3>2. Fresh(v, read)'
      BY <1>0, <3>1 DEF Fresh
    <3> QED BY <1>1, <2>2, <3>1, <3>2
  <2> QED BY <2>1, <2>2 DEF Redoing, Redone
<1> QED BY <1>2, <1>3, <1>4, <1>5 DEF Redoing

LEMMA RedoingMerchant == ASSUME Calm, TypeOK, Redoing, Merchant PROVE Redoing'
<1> USE DEF campaign, shopify, mirror, queue, history, counts
<1>0. again \subseteq Variants /\ hook.variant \in Variants
  BY HookTypes DEF TypeOK
<1>1. ASSUME NEW v \in Variants, NEW price \in Edits \cup {"sale"}, Edit(v, price) PROVE Redoing'
  <2>1. /\ UNCHANGED <<hook, again, surface, seen, intents, run, events>>
        /\ v \notin again /\ \A w \in Variants : w # v => sent'[w] = sent[w]
    BY <1>1 DEF Edit, Sold, Owed, Calm, TypeOK
  <2>2. \A w \in again : run.stage = "none" /\ sent'[w] = sent[w]
    BY <1>0, <2>1 DEF Redoing, Redone
  <2>3. Looked /\ hook.read.price \in intents[hook.variant] => Writing(hook.variant)'
    BY <2>1 DEF Redoing, HandFresh, Writing
  <2> QED BY <2>1, <2>2, <2>3, RedoingStays
<1>2. ASSUME NEW v \in Variants, Expire(v) PROVE Redoing'
  <2>1. UNCHANGED <<hook, again, surface, seen, run, events, sent>> /\ \A w \in Variants : intents'[w] \subseteq intents[w]
    BY <1>2 DEF Expire, TypeOK
  <2>2. \A w \in again : run.stage = "none"
    BY DEF Redoing, Redone
  <2>3. Looked /\ hook.read.price \in intents'[hook.variant] => Writing(hook.variant)'
    BY <1>0, <2>1 DEF Redoing, HandFresh, Writing
  <2> QED BY <1>0, <2>1, <2>2, <2>3, RedoingStays
<1>3. ASSUME NEW v \in Variants, Sync(v) PROVE Redoing'
  <2>1. /\ UNCHANGED <<hook, again, run, events, sent, intents>> /\ sent[v] = {} /\ ~InHook(v)
        /\ \A w \in Variants : w # v => surface'[w] = surface[w] /\ seen'[w] = seen[w]
    BY <1>3 DEF Sync, Calm, TypeOK
  <2>2. (\A w \in again : run.stage = "none") /\ v \notin again
    BY <2>1 DEF Redoing, Redone
  <2>3. Looked => InHook(hook.variant)
    BY DEF Looked, HasEvent, InHook
  <2>4. Looked /\ hook.read.price \in intents[hook.variant] => Writing(hook.variant)'
    BY <1>0, <2>1, <2>3 DEF Redoing, HandFresh, Writing
  <2> QED BY <2>1, <2>2, <2>4, RedoingStays
<1> QED BY <1>1, <1>2, <1>3 DEF Merchant

(* The event the webhook has recorded is resolved by nobody meanwhile. *)
LEMMA HeldStays ==
  ASSUME "answer" \notin Weak, TypeOK, HasEvent, hook.event \in Ids, Run \/ \E a \in Answerers : Decision(a)
  PROVE  events'[hook.event] = events[hook.event]
<1> USE DEF campaign, queue, Stays, HasEvent, NotBeingHeld
<1>1. ASSUME NEW a \in Answerers, Decision(a) PROVE events'[hook.event] = events[hook.event]
  <2>1. CASE AnswerClose(a)
    BY <2>1 DEF AnswerClose, TypeOK
  <2>2. CASE BatchClaim(a)
    <3> DEFINE C == answer[a].batch \cap Pending
    <3>1. hook.event \notin C /\ events' = [e \in Ids |-> IF e \in C THEN [events[e] EXCEPT !.resolution = answer[a].to]
                                                          ELSE events[e]]
      BY <2>2 DEF BatchClaim
    <3> QED BY <3>1 DEF TypeOK
  <2> QED BY <1>1, <2>1, <2>2 DEF Decision, AnswerBegin, BatchBegin, AnswerAdopt, AnswerCount, AnswerRelease, AnswerDies
<1>2. CASE RunClose
  <2>1. hook.event \notin Overwritten /\ events' = [e \in Ids |-> IF e \in Overwritten
            THEN [events[e] EXCEPT !.resolution = "REASSERTED"] ELSE events[e]]
    BY <1>2 DEF RunClose
  <2> QED BY <2>1 DEF TypeOK
<1>3. CASE RunMark
  BY <1>3 DEF RunMark, TypeOK
<1> QED BY <1>1, <1>2, <1>3 DEF Run, PutBack, Apply, Revert, RunWrite, RunSettle, RunFinal, RunCount, RunRelease

LEMMA RedoingDecision == ASSUME Calm, TypeOK, Redoing, NEW a \in Answerers, Decision(a) PROVE Redoing'
<1>1. UNCHANGED <<hook, again, surface, seen, run, sent, intents>>
  BY DEF Decision, AnswerBegin, BatchBegin, AnswerAdopt, AnswerClose, BatchClaim, AnswerCount, AnswerRelease,
         AnswerDies, Stays, shopify, mirror, history
<1>2. HasEvent => events'[hook.event] = events[hook.event]
  BY HeldStays DEF Calm, Redoing, Recorded, Pending
<1>3. (\A w \in again : run.stage = "none")
      /\ (Looked /\ hook.read.price \in intents[hook.variant] => Writing(hook.variant)')
  BY <1>1 DEF Redoing, Redone, HandFresh, Writing
<1> QED BY <1>1, <1>2, <1>3, RedoingStays

LEMMA RedoingRun == ASSUME Calm, TypeOK, Delivered, Redoing, Run PROVE Redoing'
<1> USE DEF campaign, shopify, mirror, queue, history, counts
<1>0. /\ HasEvent => events'[hook.event] = events[hook.event]
      /\ again \subseteq Variants /\ hook.variant \in Variants
      /\ \A v \in again : run.stage = "none"
      /\ Looked => InHook(hook.variant)
  BY HeldStays, HookTypes DEF Calm, TypeOK, Redoing, Redone, Recorded, Pending, Looked, HasEvent, InHook
<1>1. ASSUME Apply \/ Revert \/ \E e \in Ids : PutBack(e) PROVE Redoing'
  <2>1. /\ run.stage = "none" /\ run'.done = {} /\ run'.lost = {} /\ run'.stage \in {"write", "mark"}
        /\ \A v \in Variants : v \notin run'.wants => intents'[v] = intents[v]
        /\ \A v \in Variants : v \in run'.wants => intents'[v] = intents[v] \cup {run'.to[v]}
        /\ \A v \in Variants : ~Owed(v)
        /\ UNCHANGED <<hook, again, surface, seen, sent, events>>
    BY <1>1, RunBegins
  <2>2. again = {}
    BY <1>0, <2>1 DEF Owed, Calm
  <2>3. run'.stage = "write" \/ run'.wants = {}
    BY <1>1 DEF Apply, Revert, PutBack, Planned, NoRun
  <2>4. Looked /\ hook.read.price \in intents'[hook.variant] => Writing(hook.variant)'
    <3> SUFFICES ASSUME Looked, hook.read.price \in intents'[hook.variant] PROVE Writing(hook.variant)'
      OBVIOUS
    <3>1. hook.read.price \notin intents[hook.variant]
      BY <2>1 DEF Redoing, HandFresh, Writing
    <3>2. hook.variant \in run'.wants
      BY <1>0, <2>1, <3>1
    <3> QED BY <2>1, <2>3, <3>2 DEF Writing
  <2> QED BY <2>1, <2>2, <2>4, RedoingStays
<1>2. ASSUME NEW v \in Variants, RunWrite(v) PROVE Redoing'
  <2>1. /\ run.stage = "write" /\ run'.stage = "write" /\ run'.wants = run.wants
        /\ run'.done \subseteq run.done \cup {v} /\ run'.lost \subseteq run.lost \cup {v}
        /\ \A w \in Variants : w # v => run'.at[w] = run.at[w]
        /\ run'.at[v] \in {change[v], change[v] + 1}
        /\ UNCHANGED <<surface, seen, intents, hook, again, events>>
    BY <1>2, RunWrites
  <2>2. again = {} /\ seen[v] <= change[v] /\ seen[v] \in Nat /\ change[v] \in Nat
    BY <1>0, <2>1 DEF Delivered, Numbers, TypeOK
  <2>3. ASSUME NEW w \in Variants, Writing(w) PROVE Writing(w)'
    <3>1. CASE w = v
      BY <2>1, <2>2, <2>3, <3>1 DEF Writing
    <3>2. CASE w # v
      BY <2>1, <2>3, <3>2 DEF Writing
    <3> QED BY <3>1, <3>2
  <2>4. Looked /\ hook.read.price \in intents'[hook.variant] => Writing(hook.variant)'
    BY <1>0, <2>1, <2>3 DEF Redoing, HandFresh
  <2> QED BY <2>1, <2>2, <2>4, RedoingStays
<1>3. ASSUME RunSettle \/ RunFinal \/ RunClose \/ RunMark \/ RunCount \/ RunRelease PROVE Redoing'
  <2>1. UNCHANGED <<sent, intents, hook, again>>
    BY <1>3, RunSteps
  <2>2. again = {}
    BY <1>0, <1>3 DEF RunSettle, RunFinal, RunClose, RunMark, RunCount, RunRelease
  <2>3. CASE RunSettle
    <3> DEFINE wrote == run.done \cup run.lost
               mine == {v \in wrote : seen[v] <= run.at[v]}
    <3>1. /\ run.stage = "write" /\ run.wants = wrote /\ \A v \in mine : ~InHook(v)
          /\ \A v \in Variants : v \notin mine => surface'[v] = surface[v] /\ seen'[v] = seen[v]
      BY <2>3 DEF RunSettle, Calm
    <3>2. Writing(hook.variant) => hook.variant \in mine
      BY <3>1 DEF Writing
    <3>3. Looked => hook.read.price \notin intents[hook.variant]
      BY <1>0, <3>1, <3>2 DEF Redoing, HandFresh
    <3> HIDE DEF mine
    <3> QED BY <1>0, <2>1, <2>2, <3>1, <3>3, RedoingStays
  <2>4. CASE RunFinal \/ RunClose \/ RunMark \/ RunCount \/ RunRelease
    <3>1. UNCHANGED <<surface, seen>> /\ run.stage # "write"
      BY <2>4 DEF RunFinal, RunClose, RunMark, RunCount, RunRelease
    <3>2. Looked => hook.read.price \notin intents[hook.variant]
      BY <3>1 DEF Redoing, HandFresh, Writing
    <3> QED BY <1>0, <2>1, <2>2, <3>1, <3>2, RedoingStays
  <2> QED BY <1>3, <2>3, <2>4
<1> QED BY <1>1, <1>2, <1>3 DEF Run

LEMMA RedoingTake ==
  ASSUME Calm, TypeOK, Delivered, Redoing, NEW v \in Variants, NEW read \in sent[v], Take(v, read)
  PROVE  Redoing'
<1> USE DEF campaign, mirror, queue, counts
<1>0. again \subseteq Variants /\ sent \in [Variants -> SUBSET Reads] /\ hook.stage = "none"
  BY DEF TypeOK, Take, AtHook
<1>1. PICK stage \in {"none", "mirror", "find"} :
          /\ hook' = [stage |-> stage, variant |-> v, read |-> read, event |-> 0]
          /\ Fresh(v, read) /\ read.price \notin intents[v] => stage = "find"
          /\ stage = "find" => Fresh(v, read) /\ read.price \notin intents[v]
  <2>1. read.change \in Nat /\ seen[v] \in Nat
    BY SentTypes DEF TypeOK
  <2>2. PICK stage \in IF read.change < seen[v] THEN {"none"}
                       ELSE IF IsOurEcho(read, v) THEN {"none", "mirror"}
                       ELSE IF surface[v] \in {read.price, "unknown"} THEN {"mirror"}
                       ELSE {"find"} :
             hook' = [stage |-> stage, variant |-> v, read |-> read, event |-> 0]
    BY DEF Take
  <2>3. CASE read.change < seen[v]
    BY <2>1, <2>2, <2>3 DEF Fresh
  <2>4. CASE ~(read.change < seen[v]) /\ IsOurEcho(read, v)
    BY <2>1, <2>2, <2>4 DEF Fresh, IsOurEcho
  <2>5. CASE ~(read.change < seen[v]) /\ ~IsOurEcho(read, v)
    BY <2>1, <2>2, <2>5 DEF Fresh, IsOurEcho
  <2> QED BY <2>3, <2>4, <2>5
<1>2. /\ UNCHANGED <<surface, seen, intents, run, events>>
      /\ sent'[v] = {d \in sent[v] : d.change > read.change}
      /\ \A w \in Variants : w # v => sent'[w] = sent[w]
      /\ again' = IF stage = "none" THEN again \ {v} ELSE again
  BY <1>0, <1>1 DEF Take
<1>3. v \in again => stage = "find" /\ sent'[v] = {}
  <2> SUFFICES ASSUME v \in again PROVE stage = "find" /\ sent'[v] = {}
    OBVIOUS
  <2>1. PICK d \in sent[v] : sent[v] = {d} /\ Fresh(v, d) /\ d.price \notin intents[v]
    BY <1>0 DEF Redoing, Redone, InHook
  <2>2. d = read /\ read.change \in Nat
    BY <2>1, SentTypes
  <2> QED BY <1>1, <1>2, <2>1, <2>2
<1>4. Unasked' /\ Recorded'
  BY <1>1 DEF Unasked, Recorded, HasEvent
<1>5. HandFresh'
  <2>1. Looked' => stage = "find"
    BY <1>1, <1>2, <1>3 DEF Looked, HasEvent
  <2>2. stage = "find" => Fresh(v, read)' /\ read.price \notin intents'[v]
    BY <1>1, <1>2 DEF Fresh
  <2> QED BY <1>1, <2>1, <2>2 DEF HandFresh
<1>6. Redone'
  <2> SUFFICES ASSUME NEW w \in again'
               PROVE  /\ run.stage = "none"
                      /\ \/ InHook(w)' /\ Looked' /\ sent'[w] = {}
                         \/ ~InHook(w)' /\ \E d \in sent'[w] :
                               sent'[w] = {d} /\ Fresh(w, d)' /\ d.price \notin intents'[w]
    BY <1>2 DEF Redone
  <2>1. w \in again
    BY <1>2
  <2>2. CASE w = v
    BY <1>1, <1>2, <1>3, <2>1, <2>2 DEF Redoing, Redone, InHook, Looked
  <2>3. CASE w # v
    <3>1. run.stage = "none" /\ \E d \in sent[w] : sent[w] = {d} /\ Fresh(w, d) /\ d.price \notin intents[w]
      BY <1>0, <2>1 DEF Redoing, Redone, InHook
    <3>2. ~InHook(w)' /\ sent'[w] = sent[w] /\ \A d : Fresh(w, d) => Fresh(w, d)'
      BY <1>0, <1>1, <1>2, <2>1, <2>3 DEF InHook, Fresh
    <3> QED BY <1>2, <3>1, <3>2
  <2> QED BY <2>2, <2>3
<1> QED BY <1>4, <1>5, <1>6 DEF Redoing

(* The webhook goes on with what it has looked at. *)
LEMMA RedoingGoesOn ==
  ASSUME TypeOK, Redoing, UNCHANGED <<surface, seen, intents, run, sent, again>>,
         hook'.read = hook.read, hook'.variant = hook.variant, Looked' => Looked,
         hook'.stage # "none", hook.variant \in again => Looked',
         hook'.stage \in {"find", "create"} => hook'.event = 0, Recorded'
  PROVE  Redoing'
<1>1. hook.stage # "none" \/ hook.variant \notin again
  BY DEF Redoing, Redone, InHook, Looked, HasEvent
<1>2. HandFresh'
  BY DEF Redoing, HandFresh, Fresh, Writing
<1>3. Redone'
  <2> SUFFICES ASSUME NEW v \in again
               PROVE  /\ run.stage = "none"
                      /\ \/ InHook(v)' /\ Looked' /\ sent[v] = {}
                         \/ ~InHook(v)' /\ \E d \in sent[v] :
                               sent[v] = {d} /\ Fresh(v, d)' /\ d.price \notin intents[v]
    BY DEF Redone
  <2>1. CASE v = hook.variant
    BY <1>1, <2>1 DEF Redoing, Redone, InHook
  <2>2. CASE v # hook.variant
    <3>1. \A d : Fresh(v, d) => Fresh(v, d)'
      BY DEF Fresh
    <3> QED BY <2>2, <3>1 DEF Redoing, Redone, InHook
  <2> QED BY <2>1, <2>2
<1> QED BY <1>2, <1>3 DEF Redoing, Unasked

(* What is put back has recorded its event, and is as it was when it was looked at. *)
LEMMA RedoingPutBack ==
  ASSUME Calm, TypeOK, Redoing, hook.stage # "none", PutBackDelivery,
         UNCHANGED <<surface, seen, intents, run, events>>
  PROVE  Redoing'
<1>0. hook.variant \in Variants /\ InHook(hook.variant) /\ sent \in [Variants -> SUBSET Reads]
  BY HookTypes DEF InHook, TypeOK
<1>1. /\ sent' = [sent EXCEPT ![hook.variant] = @ \cup {hook.read}] /\ hook'.stage = "none"
      /\ again' = IF HasRecorded THEN again \cup {hook.variant} ELSE again
      /\ HasRecorded => sent[hook.variant] = {} /\ run.stage = "none"
  BY DEF PutBackDelivery, HookTo, Calm, TypeOK, Hooks
<1>2. Unasked' /\ Recorded' /\ HandFresh'
  BY <1>1 DEF Unasked, Recorded, HandFresh, Looked, HasEvent
<1>3. HasRecorded => Looked
  BY <1>0 DEF HasRecorded, HasEvent, Looked, Redoing, Redone
<1>4. Redone'
  <2> SUFFICES ASSUME NEW w \in again'
               PROVE  /\ run.stage = "none"
                      /\ ~InHook(w)' /\ \E d \in sent'[w] :
                               sent'[w] = {d} /\ Fresh(w, d)' /\ d.price \notin intents[w]
    BY <1>1 DEF Redone
  <2>0. ~InHook(w)'
    BY <1>1 DEF InHook
  <2>1. CASE w = hook.variant
    <3>1. HasRecorded
      BY <1>1, <2>1 DEF HasRecorded
    <3>2. run.stage = "none"
      BY <1>1, <3>1
    <3>3. Fresh(w, hook.read) /\ hook.read.price \notin intents[w]
      BY <1>3, <2>1, <3>1, <3>2 DEF Redoing, HandFresh, Writing
    <3>5. sent'[w] = {hook.read}
      BY <1>0, <1>1, <2>1, <3>1
    <3>6. \E d \in sent'[w] : sent'[w] = {d} /\ Fresh(w, d)' /\ d.price \notin intents[w]
      <4>1. PICK d : d = hook.read
        OBVIOUS
      <4>2. sent'[w] = {d} /\ d.price \notin intents[w] /\ d.change >= seen[w] /\ surface[w] \notin {d.price, "unknown"}
        BY <3>3, <3>5, <4>1 DEF Fresh
      <4> QED BY <4>2 DEF Fresh
    <3> QED BY <2>0, <3>2, <3>6
  <2>2. CASE w # hook.variant
    <3>1. w \in again
      BY <1>1, <2>2
    <3>2. run.stage = "none" /\ \E d \in sent[w] : sent[w] = {d} /\ Fresh(w, d) /\ d.price \notin intents[w]
      BY <2>2, <3>1 DEF Redoing, Redone, InHook
    <3>3. sent'[w] = sent[w] /\ \A d : Fresh(w, d) => Fresh(w, d)'
      BY <1>1, <2>2, <3>1 DEF Fresh, TypeOK
    <3> QED BY <2>0, <3>2, <3>3
  <2> QED BY <2>1, <2>2
<1> QED BY <1>2, <1>4 DEF Redoing

LEMMA RedoingHook ==
  ASSUME Calm, TypeOK, Hands, Redoing, Find \/ Update \/ Create \/ HoldLook \/ Hold \/ Mirror \/ HookDies
  PROVE  Redoing'
<1> USE DEF campaign, shopify, mirror, queue, history, counts, AtHook, HookTo
<1>0. /\ hook.stage # "none" /\ hook'.read = hook.read /\ hook'.variant = hook.variant /\ UNCHANGED <<run, intents>>
      /\ hook.variant \in Variants /\ InHook(hook.variant) /\ hook \in Hooks
  BY HookSteps, HookTypes DEF InHook, TypeOK
<1>1. hook.variant \in again => Looked
  BY <1>0 DEF Redoing, Redone
<1>2. CASE Find
  <2>1. /\ UNCHANGED <<surface, seen, sent, again>> /\ hook.stage = "find" /\ hook.event = 0
        /\ hook'.stage \in {"mirror", "create", "update"} /\ (hook'.stage # "update" => hook'.event = 0)
    BY <1>0, <1>2 DEF Find, Redoing, Unasked, Hooks
  <2>2. Recorded'
    BY <2>1 DEF Recorded, HasEvent
  <2>3. (Looked' => Looked) /\ (hook.variant \in again => Looked')
    BY <1>0, <2>1 DEF Looked, HasEvent
  <2> QED BY <1>0, <2>1, <2>2, <2>3, RedoingGoesOn
<1>3. CASE Update
  <2>1. /\ UNCHANGED <<surface, seen, sent, again>> /\ hook.stage = "update" /\ hook'.stage = "hold"
        /\ hook'.event = hook.event
    BY <1>0, <1>3 DEF Update, Hooks
  <2>2. Recorded'
    <3>1. hook.event \in Pending /\ hook.event \in Ids /\ events[hook.event].variant = hook.variant
      BY <2>1 DEF Hands, Updates, Pending
    <3>2. /\ events'[hook.event].resolution = events[hook.event].resolution
          /\ events'[hook.event].variant = events[hook.event].variant
          /\ events'[hook.event].observed = hook.read.price
      BY <1>3, <3>1 DEF Update, TypeOK, Events
    <3> QED BY <1>0, <2>1, <3>1, <3>2 DEF Recorded, Pending
  <2>3. Looked' /\ Looked
    BY <2>1 DEF Looked, HasEvent
  <2> QED BY <1>0, <2>1, <2>2, <2>3, RedoingGoesOn
<1>4. CASE Create
  <2>1. /\ UNCHANGED <<surface, seen, sent, again>> /\ hook.stage = "create" /\ hook'.stage = "hold"
        /\ hook'.event = made + 1 /\ made + 1 \in Ids
    BY <1>0, <1>4, BoundsAssumption DEF Create, Hooks, TypeOK
  <2>2. Recorded'
    BY <1>0, <1>4, <2>1 DEF Create, Recorded, Pending, TypeOK
  <2>3. Looked' /\ Looked
    BY <2>1 DEF Looked, HasEvent
  <2> QED BY <1>0, <2>1, <2>2, <2>3, RedoingGoesOn
<1>5. CASE HoldLook \/ (Hold /\ MayMove("HELD"))
  <2>1. /\ UNCHANGED <<surface, seen, sent, again, events>> /\ hook.stage \in {"hold", "holding"}
        /\ hook'.stage \in {"holding", "mirror"} /\ hook'.event = hook.event
    BY <1>0, <1>5 DEF HoldLook, Hold, Hooks
  <2>2. hook.event \in Pending /\ hook.event \in Ids
    BY <2>1 DEF Redoing, Recorded, HasEvent, Pending
  <2>3. Recorded'
    BY <1>0, <2>1 DEF Redoing, Recorded, HasEvent, Pending
  <2>4. Looked' /\ Looked
    BY <2>1, <2>2 DEF Looked, HasEvent
  <2> QED BY <1>0, <2>1, <2>3, <2>4, RedoingGoesOn
<1>6. CASE HookDies \/ (Hold /\ ~MayMove("HELD"))
  BY <1>0, <1>6, RedoingPutBack DEF HookDies, Hold
<1>7. CASE Mirror
  <2>1. /\ UNCHANGED <<sent, events>> /\ hook'.stage = "none" /\ again' = again \ {hook.variant}
        /\ \A w \in Variants : w # hook.variant => surface'[w] = surface[w] /\ seen'[w] = seen[w]
    BY <1>0, <1>7 DEF Mirror, TypeOK, Hooks
  <2>2. Unasked' /\ Recorded' /\ HandFresh'
    BY <2>1 DEF Unasked, Recorded, HandFresh, Looked, HasEvent
  <2>3. Redone'
    <3> SUFFICES ASSUME NEW w \in again, w # hook.variant
                 PROVE  /\ run.stage = "none"
                        /\ ~InHook(w)' /\ \E d \in sent[w] :
                                 sent[w] = {d} /\ Fresh(w, d)' /\ d.price \notin intents[w]
      BY <1>0, <2>1 DEF Redone
    <3>1. run.stage = "none" /\ \E d \in sent[w] : sent[w] = {d} /\ Fresh(w, d) /\ d.price \notin intents[w]
      BY DEF Redoing, Redone, InHook
    <3>2. w \in Variants /\ ~InHook(w)'
      BY <2>1 DEF TypeOK, InHook
    <3>3. \A d : Fresh(w, d) => Fresh(w, d)'
      BY <2>1, <3>2 DEF Fresh
    <3> QED BY <3>1, <3>2, <3>3
  <2> QED BY <2>2, <2>3 DEF Redoing
<1> QED BY <1>2, <1>3, <1>4, <1>5, <1>6, <1>7

LEMMA RedoingInductive ==
  ASSUME Calm, TypeOK, Hands, Delivered, Redoing, [Next]_vars PROVE Redoing'
<1>1. CASE UNCHANGED vars
  BY <1>1 DEF vars, Redoing, Unasked, Recorded, HandFresh, Redone, HasEvent, Looked, Fresh, Writing, InHook, Pending
<1>2. CASE Webhook
  BY <1>2, RedoingTake, RedoingHook DEF Webhook
<1> QED BY <1>1, <1>2, RedoingMerchant, RedoingRun, RedoingDecision DEF Next

-----------------------------------------------------------------------------
(* Who was asked.  A price needs no question if it is the campaign's, if a run wrote it or
   nobody had to be asked, or if it was kept before; for any other there is an event
   that was not answered by putting it back. *)

KeptBy(v, p) == \E e \in Ids : /\ events[e].variant = v /\ events[e].observed = p
                               /\ \/ events[e].resolution = "ADOPTED"
                                  \/ \E a \in Answerers : answer[a].stage = "adopted" /\ answer[a].event = e
Asked(v, p)   == \E e \in Ids : /\ events[e].variant = v /\ events[e].observed = p
                                /\ events[e].resolution \in {"PENDING", "ADOPTED", "IGNORED"}
Good(v, p, c) == p = "sale" \/ excused[v] >= c \/ KeptBy(v, p)

(* A single answer that has moved the baseline is going to keep the price. *)
Adopting == \A a \in Answerers : answer[a].stage = "adopted" => answer[a].to = "ADOPTED"

LEMMA AdoptingInductive == ASSUME TypeOK, Adopting, [Next]_vars PROVE Adopting'
<1> USE DEF campaign, shopify, mirror, queue, history, counts, Stays, Doing, Adopting
<1>1. ASSUME NEW a \in Answerers, Decision(a) PROVE Adopting'
  <2>1. \A b \in Answerers : answer'[b] = answer[b] \/ answer'[b].stage # "adopted"
                                                    \/ (answer'[b].to = answer[b].to /\ answer[b].to = "ADOPTED")
    BY <1>1 DEF Decision, AnswerBegin, BatchBegin, AnswerAdopt, AnswerClose, BatchClaim, AnswerCount, AnswerRelease,
                AnswerDies, TypeOK, Answers
  <2> QED BY <2>1
<1>2. CASE UNCHANGED answer
  BY <1>2
<1> QED BY <1>1, <1>2 DEF Next, vars, Merchant, Edit, Expire, Sync, Webhook, Take, Find, Update, Create, HoldLook, Hold,
          Mirror, HookDies, Run, PutBack, Apply, Revert, RunWrite, RunSettle, RunFinal, RunClose, RunMark, RunCount,
          RunRelease

(* Nobody is unexcused. *)
LEMMA ExcusedGrows ==
  ASSUME TypeOK, Delivered, [Next]_vars, NEW v \in Variants PROVE excused'[v] >= excused[v] /\ excused'[v] \in Nat
<1> USE DEF campaign, shopify, mirror, queue, history, counts, Stays
<1>0. /\ excused \in [Variants -> Nat] /\ change \in [Variants -> Nat] /\ excused[v] \in Nat /\ change[v] \in Nat
      /\ \A w \in Variants : excused[w] <= change[w]
  BY DEF TypeOK, Delivered, Numbers
<1>1. ASSUME NEW w \in Variants, NEW p, NEW by, Sold(w, p, by) PROVE excused'[v] >= excused[v] /\ excused'[v] \in Nat
  <2>1. change[w] \in Nat /\ excused[w] <= change[w]
    BY <1>0
  <2>2. CASE excused' = [excused EXCEPT ![w] = change[w] + 1]
    BY <1>0, <2>1, <2>2
  <2>3. CASE excused' = excused
    BY <1>0, <2>3
  <2> QED BY <1>1, <2>2, <2>3 DEF Sold
<1>2. ASSUME NEW w \in Variants, NEW read \in Reads, Excused(w, read)
      PROVE  excused'[v] >= excused[v] /\ excused'[v] \in Nat
  <2>1. read.change \in Nat
    BY DEF Reads
  <2> QED BY <1>0, <1>2, <2>1 DEF Excused
<1>3. CASE excused' = excused
  BY <1>0, <1>3
<1>4. CASE Merchant
  BY <1>1, <1>3, <1>4 DEF Merchant, Edit, Expire, Sync
<1>5. CASE Webhook
  <2>1. ASSUME NEW w \in Variants, NEW read \in sent[w], Take(w, read)
        PROVE  excused'[v] >= excused[v] /\ excused'[v] \in Nat
    BY <1>2, <1>3, <2>1, SentTypes DEF Take
  <2>2. CASE Find
    BY <1>2, <1>3, <2>2, HookTypes DEF Find
  <2> QED BY <1>3, <1>5, <2>1, <2>2 DEF Webhook, Update, Create, HoldLook, Hold, Mirror, HookDies
<1>6. CASE Run
  <2>1. ASSUME NEW w \in Variants, RunWrite(w) PROVE excused'[v] >= excused[v] /\ excused'[v] \in Nat
    BY <1>1, <1>3, <2>1 DEF RunWrite
  <2> QED BY <1>3, <1>6, <2>1 DEF Run, PutBack, Apply, Revert, RunSettle, RunFinal, RunClose, RunMark, RunCount,
                                  RunRelease
<1>7. ASSUME NEW a \in Answerers, Decision(a) PROVE excused'[v] >= excused[v] /\ excused'[v] \in Nat
  BY <1>3, <1>7 DEF Decision, AnswerBegin, BatchBegin, AnswerAdopt, AnswerClose, BatchClaim, AnswerCount, AnswerRelease,
                    AnswerDies
<1>8. CASE UNCHANGED vars
  BY <1>3, <1>8 DEF vars
<1> QED BY <1>4, <1>5, <1>6, <1>7, <1>8 DEF Next

(* What a step leaves of an event. *)
LEMMA EventsKeep ==
  ASSUME TypeOK, Hands, [Next]_vars, NEW e \in Ids, e # made + 1
  PROVE  /\ events'[e].variant = events[e].variant
         /\ events'[e].observed = events[e].observed \/ (Update /\ e = hook.event)
<1> USE DEF campaign, shopify, mirror, queue, history, counts, Stays
<1>1. CASE events' = events
  BY <1>1
<1>2. CASE Merchant
  BY <1>1, <1>2 DEF Merchant, Edit, Expire, Sync
<1>3. CASE Update
  <2>1. events'[e] = IF e = hook.event THEN [events[e] EXCEPT !.observed = hook.read.price, !.by = hook.read.by] ELSE events[e]
    BY <1>3 DEF Update, TypeOK
  <2>2. [events[e] EXCEPT !.observed = hook.read.price, !.by = hook.read.by].variant = events[e].variant
    BY DEF TypeOK, Events
  <2> QED BY <1>3, <2>1, <2>2
<1>4. CASE Create
  BY <1>4 DEF Create, TypeOK
<1>5. CASE Webhook
  BY <1>1, <1>3, <1>4, <1>5 DEF Webhook, Take, Find, HoldLook, Hold, Mirror, HookDies
<1>6. ASSUME NEW a \in Answerers, Decision(a)
      PROVE  events'[e].variant = events[e].variant /\ events'[e].observed = events[e].observed
  BY <1>6, DecisionsResolve DEF OnlyResolves
<1>7. CASE Run
  BY <1>1, <1>7, ClosingResolves DEF Run, PutBack, Apply, Revert, RunWrite, RunSettle, RunFinal, RunCount, RunRelease,
                                    OnlyResolves
<1>8. CASE UNCHANGED vars
  BY <1>1, <1>8 DEF vars
<1> QED BY <1>2, <1>5, <1>6, <1>7, <1>8 DEF Next

(* What was kept stays kept. *)
LEMMA KeptByStays ==
  ASSUME Calm, TypeOK, Hands, Adopting, [Next]_vars, NEW v \in Variants, NEW p, KeptBy(v, p) PROVE KeptBy(v, p)'
<1> USE DEF campaign, shopify, mirror, queue, history, counts, Stays
<1>1. PICK e \in Ids : /\ events[e].variant = v /\ events[e].observed = p
                       /\ \/ events[e].resolution = "ADOPTED"
                          \/ \E a \in Answerers : answer[a].stage = "adopted" /\ answer[a].event = e
  BY DEF KeptBy
<1>2. CASE events[e].resolution = "ADOPTED"
  <2>1. events'[e] = events[e]
    BY <1>2, ResolvedStands
  <2> QED BY <1>1, <1>2, <2>1 DEF KeptBy
<1>3. ASSUME NEW a \in Answerers, answer[a].stage = "adopted", answer[a].event = e PROVE KeptBy(v, p)'
  <2>1. e \in Pending /\ answer[a].to = "ADOPTED" /\ Answering(e)
    BY <1>3 DEF Hands, InHand, Reading, Adopting, Answering
  <2>2. e # made + 1
    <3>1. events[e].resolution = "PENDING" /\ made \in 0 .. MaxEvents
      BY <2>1 DEF Pending, TypeOK
    <3> QED BY <3>1 DEF Hands, Unmade
  <2>3. ~(Update /\ e = hook.event)
    BY <2>1 DEF Update, AtHook, Hands, Updates
  <2>4. events'[e].variant = v /\ events'[e].observed = p
    BY <1>1, <2>2, <2>3, EventsKeep
  <2>5. \/ answer'[a].stage = "adopted" /\ answer'[a].event = e
        \/ events'[e].resolution = "ADOPTED"
    <3>1. CASE answer'[a] = answer[a]
      BY <1>3, <3>1
    <3>2. CASE AnswerClose(a)
      <4>1. events' = [events EXCEPT ![e].resolution = "ADOPTED"]
        BY <1>3, <2>1, <3>2 DEF AnswerClose
      <4> QED BY <4>1 DEF TypeOK, Events
    <3>3. ASSUME NEW b \in Answerers, Decision(b), b # a PROVE answer'[a] = answer[a]
      BY <3>3 DEF Decision, AnswerBegin, BatchBegin, AnswerAdopt, AnswerClose, BatchClaim, AnswerCount, AnswerRelease,
                  AnswerDies, Doing, TypeOK
    <3>4. CASE Decision(a)
      BY <1>3, <3>2, <3>4 DEF Decision, AnswerBegin, BatchBegin, AnswerAdopt, BatchClaim, AnswerCount, AnswerRelease,
                              AnswerDies, Calm
    <3>5. CASE UNCHANGED answer
      BY <3>1, <3>5
    <3> QED BY <3>1, <3>3, <3>4, <3>5
          DEF Next, vars, Merchant, Edit, Expire, Sync, Webhook, Take, Find, Update, Create, HoldLook, Hold, Mirror, HookDies,
              Run, PutBack, Apply, Revert, RunWrite, RunSettle, RunFinal, RunClose, RunMark, RunCount, RunRelease
  <2> QED BY <2>4, <2>5 DEF KeptBy
<1> QED BY <1>1, <1>2, <1>3

LEMMA GoodStays ==
  ASSUME Calm, TypeOK, Hands, Delivered, Adopting, [Next]_vars, NEW v \in Variants, NEW p, NEW c \in Nat, Good(v, p, c)
  PROVE  Good(v, p, c)'
<1>1. CASE p = "sale"
  BY <1>1 DEF Good
<1>2. CASE excused[v] >= c
  <2>1. excused'[v] >= excused[v] /\ excused'[v] \in Nat /\ excused[v] \in Nat
    BY ExcusedGrows DEF TypeOK
  <2> QED BY <1>2, <2>1 DEF Good
<1>3. CASE KeptBy(v, p)
  BY <1>3, KeptByStays DEF Good
<1> QED BY <1>1, <1>2, <1>3 DEF Good

(* What was asked stays asked, until it is edited again or put back. *)
LEMMA AskedStays ==
  ASSUME TypeOK, Hands, [Next]_vars, NEW v, NEW p, Asked(v, p)
  PROVE  \/ Asked(v, p)'
         \/ Update /\ hook.variant = v
         \/ RunClose /\ v \in run.done
         \/ RunMark /\ events[run.event].variant = v
<1> USE DEF campaign, shopify, mirror, queue, history, counts, Stays
<1>1. PICK e \in Ids : /\ events[e].variant = v /\ events[e].observed = p
                       /\ events[e].resolution \in {"PENDING", "ADOPTED", "IGNORED"}
  BY DEF Asked
<1>2. CASE events[e].resolution # "PENDING"
  <2>1. events'[e] = events[e]
    BY <1>1, <1>2, ResolvedStands
  <2> QED BY <1>1, <2>1 DEF Asked
<1>3. CASE events[e].resolution = "PENDING"
  <2>1. e \in Pending /\ e # made + 1
    BY <1>3 DEF Hands, Unmade, Pending, TypeOK
  <2>2. CASE Update /\ e = hook.event
    BY <1>1, <2>2 DEF Update, AtHook, Hands, Updates
  <2>3. ASSUME events'[e].resolution \in {"PENDING", "ADOPTED", "IGNORED"}, ~(Update /\ e = hook.event) PROVE Asked(v, p)'
    BY <1>1, <2>1, <2>3, EventsKeep DEF Asked
  <2>4. CASE RunClose
    <3>1. CASE e \in Overwritten
      BY <1>1, <2>4, <3>1 DEF Overwritten
    <3>2. CASE e \notin Overwritten
      <4>1. events'[e] = events[e]
        BY <2>4, <3>2 DEF RunClose, TypeOK
      <4> QED BY <1>1, <4>1 DEF Asked
    <3> QED BY <3>1, <3>2
  <2>5. CASE RunMark
    <3>1. CASE e = run.event
      BY <1>1, <2>5, <3>1
    <3>2. CASE e # run.event
      <4>1. events'[e] = events[e]
        BY <2>5, <3>2 DEF RunMark, TypeOK
      <4> QED BY <1>1, <4>1 DEF Asked
    <3> QED BY <3>1, <3>2
  <2>6. ASSUME NEW a \in Answerers, Decision(a) PROVE events'[e].resolution \in {"PENDING", "ADOPTED", "IGNORED"}
    <3>1. answer[a].to \in {"ADOPTED", "IGNORED"} /\ events[e] \in Events
      BY DEF TypeOK, Answers
    <3>2. CASE AnswerClose(a)
      <4>1. events'[e] = events[e] \/ events'[e] = [events[e] EXCEPT !.resolution = answer[a].to]
        BY <3>2 DEF AnswerClose, TypeOK
      <4> QED BY <1>3, <3>1, <4>1 DEF Events
    <3>3. CASE BatchClaim(a)
      <4>1. events'[e] = events[e] \/ events'[e] = [events[e] EXCEPT !.resolution = answer[a].to]
        BY <3>3 DEF BatchClaim
      <4> QED BY <1>3, <3>1, <4>1 DEF Events
    <3> QED BY <1>3, <2>6, <3>2, <3>3 DEF Decision, AnswerBegin, BatchBegin, AnswerAdopt, AnswerCount, AnswerRelease,
                                            AnswerDies
  <2>7. CASE Update \/ Create
    <3>1. CASE Update
      <4>1. events'[e].resolution = "PENDING"
        BY <1>3, <3>1 DEF Update, TypeOK, Events
      <4> QED BY <2>2, <2>3, <4>1
    <3>2. CASE Create
      <4>1. events'[e] = events[e]
        BY <2>1, <3>2 DEF Create, TypeOK
      <4> QED BY <1>1, <4>1 DEF Asked
    <3> QED BY <2>7, <3>1, <3>2
  <2>8. CASE UNCHANGED events
    BY <1>1, <2>8 DEF Asked
  <2> QED BY <2>2, <2>3, <2>4, <2>5, <2>6, <2>7, <2>8
        DEF Next, vars, Merchant, Edit, Expire, Sync, Webhook, Take, Find, HoldLook, Hold, Mirror, HookDies,
            Run, PutBack, Apply, Revert, RunWrite, RunSettle, RunFinal, RunCount, RunRelease
<1> QED BY <1>2, <1>3

(* A put-back is about to mark the event of v, whose price the mirror already showed. *)
MarkOf(v) == run.stage = "mark" /\ events[run.event].variant = v

(* Nobody has to be asked about a price, or somebody was, and nothing is about to undo that. *)
Right(v, p, c) == Good(v, p, c) \/ (Asked(v, p) /\ ~MarkOf(v))

Bases     == \A v \in Variants : /\ baseline[v] = "base" \/ KeptBy(v, baseline[v])
                                 /\ \A p \in intents[v] : p \in {"sale", "base"} \/ KeptBy(v, p)
MarkAlone == run.stage = "mark" /\ HasEvent => hook.event # run.event
MirrorRight(v) == \/ surface[v] = "unknown" \/ Right(v, surface[v], seen[v])
                  \/ v \in again \/ (InHook(v) /\ HasEvent)
Mirrored  == \A v \in Variants : MirrorRight(v)
Mirroring == hook.stage = "mirror" /\ hook.event = 0 =>
                \/ Good(hook.variant, hook.read.price, hook.read.change)
                \/ /\ hook.read.price = surface[hook.variant]
                   /\ Right(hook.variant, hook.read.price, hook.read.change)
LiveRight(v) == sent[v] = {} /\ ~InHook(v) =>
                   \/ Good(v, live[v], change[v])
                   \/ surface[v] \in {live[v], "unknown"} /\ Right(v, live[v], change[v])
Handled   == \A v \in Variants : LiveRight(v)

Asking == Adopting /\ Bases /\ MarkAlone /\ Mirrored /\ Mirroring /\ Handled

LEMMA AskingInit == Init => Asking
<1> SUFFICES ASSUME Init PROVE Asking
  OBVIOUS
<1>1. Adopting /\ MarkAlone /\ Mirroring
  BY DEF Init, Adopting, Idle, MarkAlone, NoRun, Mirroring, NoHook
<1>2. Bases
  BY DEF Init, Bases
<1>3. Mirrored
  BY DEF Init, Mirrored, MirrorRight, Right, Good
<1>4. Handled
  BY DEF Init, Handled, LiveRight, Good
<1> QED BY <1>1, <1>2, <1>3, <1>4 DEF Asking

(* An echo needs no question. *)
LEMMA EchoIsGood ==
  ASSUME Bases, NEW v \in Variants, NEW read, Kind(v, read), read.price \in intents[v]
  PROVE  Good(v, read.price, read.change)
<1>1. read.price \in {"sale", "base"} \/ KeptBy(v, read.price)
  BY DEF Bases
<1>2. CASE read.price = "base"
  BY <1>2, EditsAssumption DEF Kind, Good
<1> QED BY <1>1, <1>2 DEF Good

LEMMA BasesInductive ==
  ASSUME Calm, TypeOK, Hands, Adopting, Bases, [Next]_vars PROVE Bases'
<1> USE DEF campaign, shopify, mirror, queue, history, counts, Stays
<1>1. ASSUME NEW v \in Variants, NEW p, p = baseline'[v] PROVE p = baseline[v] \/ KeptBy(v, p)'
  <2>1. CASE UNCHANGED baseline
    BY <1>1, <2>1
  <2>2. ASSUME NEW a \in Answerers, AnswerAdopt(a) PROVE p = baseline[v] \/ KeptBy(v, p)'
    <3>1. PICK e : e = answer[a].event
      OBVIOUS
    <3>2. e \in Ids /\ events[e].observed = answer[a].price /\ events[e].variant \in Variants
      BY <2>2, <3>1 DEF AnswerAdopt, Hands, InHand, Reading, Pending, TypeOK, Events
    <3>3. answer'[a].stage = "adopted" /\ answer'[a].event = e /\ events' = events
      BY <2>2, <3>1 DEF AnswerAdopt, Doing, TypeOK, Answers
    <3>4. baseline'[v] = IF v = events[e].variant THEN answer[a].price ELSE baseline[v]
      BY <2>2, <3>1 DEF AnswerAdopt, TypeOK
    <3> QED BY <1>1, <3>2, <3>3, <3>4 DEF KeptBy
  <2>3. ASSUME NEW a \in Answerers, BatchClaim(a) PROVE p = baseline[v] \/ KeptBy(v, p)'
    <3> DEFINE C == answer[a].batch \cap Pending
    <3>1. /\ baseline' = [w \in Variants |->
                            IF answer[a].to = "ADOPTED" /\ \E e \in C : events[e].variant = w
                            THEN events[CHOOSE e \in C : events[e].variant = w].observed
                            ELSE baseline[w]]
          /\ events' = [e \in Ids |-> IF e \in C THEN [events[e] EXCEPT !.resolution = answer[a].to] ELSE events[e]]
          /\ C \subseteq Ids
      BY <2>3 DEF BatchClaim, Pending
    <3> HIDE DEF C
    <3>2. CASE answer[a].to = "ADOPTED" /\ \E e \in C : events[e].variant = v
      <4>1. PICK e \in C : e = CHOOSE f \in C : events[f].variant = v
        BY <3>2
      <4>2. events[e].variant = v /\ p = events[e].observed
        BY <1>1, <3>1, <3>2, <4>1
      <4>3. e \in Ids /\ events'[e] = [events[e] EXCEPT !.resolution = "ADOPTED"]
        BY <3>1, <3>2
      <4>4. events'[e].variant = v /\ events'[e].observed = p /\ events'[e].resolution = "ADOPTED"
        BY <4>2, <4>3 DEF TypeOK, Events
      <4> QED BY <4>3, <4>4 DEF KeptBy
    <3> QED BY <1>1, <3>1, <3>2
  <2> QED BY <2>1, <2>2, <2>3
        DEF Next, vars, Merchant, Edit, Expire, Sync, Webhook, Take, Find, Update, Create, HoldLook, Hold, Mirror, HookDies,
            Decision, AnswerBegin, BatchBegin, AnswerClose, AnswerCount, AnswerRelease, AnswerDies,
            Run, PutBack, Apply, Revert, RunWrite, RunSettle, RunFinal, RunClose, RunMark, RunCount, RunRelease
<1>2. ASSUME NEW v \in Variants, NEW p \in intents'[v] PROVE p \in intents[v] \/ p \in {"sale", baseline[v]}
  <2>1. CASE Apply \/ Revert \/ \E e \in Ids : PutBack(e)
    BY <2>1, RunBegins
  <2>2. ASSUME NEW w \in Variants, Expire(w) PROVE p \in intents[v]
    BY <2>2 DEF Expire, TypeOK
  <2>3. CASE UNCHANGED intents
    BY <2>3
  <2> QED BY <2>1, <2>2, <2>3
        DEF Next, vars, Merchant, Edit, Sync, Webhook, Take, Find, Update, Create, HoldLook, Hold, Mirror, HookDies,
            Decision, AnswerBegin, BatchBegin, AnswerAdopt, AnswerClose, BatchClaim, AnswerCount, AnswerRelease, AnswerDies,
            Run, RunWrite, RunSettle, RunFinal, RunClose, RunMark, RunCount, RunRelease
<1>3. ASSUME NEW v \in Variants PROVE baseline'[v] = "base" \/ KeptBy(v, baseline[v])'
  <2>1. PICK p : p = baseline'[v]
    OBVIOUS
  <2>2. p = "base" \/ KeptBy(v, p)'
    <3>1. CASE p = baseline[v]
      BY <3>1, KeptByStays DEF Bases
    <3> QED BY <1>1, <2>1, <3>1
  <2> QED BY <2>1, <2>2 DEF KeptBy
<1>4. ASSUME NEW v \in Variants, NEW p \in intents'[v] PROVE p \in {"sale", "base"} \/ KeptBy(v, p)'
  <2>1. p \in {"sale", "base"} \/ KeptBy(v, p)
    BY <1>2, <1>4 DEF Bases
  <2> QED BY <2>1, KeptByStays
<1> QED BY <1>3, <1>4 DEF Bases

(* A put-back that finds its price in the mirror goes straight to its mark. *)
LEMMA MarkBegins ==
  ASSUME TypeOK, Hands, [Next]_vars, NEW v \in Variants, MarkOf(v)', ~MarkOf(v)
  PROVE  /\ surface[v] = "sale" /\ run.stage = "none" /\ run'.event \in Pending
         /\ "twice" \in Weak \/ NotBeingHeld(run'.event)
         /\ UNCHANGED <<surface, seen, live, change, sent, hook, again, events, excused>>
<1> USE DEF campaign, shopify, mirror, queue, history, counts, Stays
<1>1. CASE run' = run
  <2>1. run.event \in Pending /\ run.event \in Ids
    BY <1>1 DEF MarkOf, Hands, Marks, Pending
  <2>2. run.event # made + 1
    <3>1. events[run.event].resolution = "PENDING" /\ made \in 0 .. MaxEvents
      BY <2>1 DEF Pending, TypeOK
    <3> QED BY <2>1, <3>1 DEF Hands, Unmade
  <2>3. events'[run.event].variant = events[run.event].variant
    BY <2>1, <2>2, EventsKeep
  <2> QED BY <1>1, <2>3 DEF MarkOf
<1>2. ASSUME NEW e \in Ids, PutBack(e)
      PROVE  /\ surface[v] = "sale" /\ run.stage = "none" /\ run'.event \in Pending
             /\ "twice" \in Weak \/ NotBeingHeld(run'.event)
             /\ UNCHANGED <<surface, seen, live, change, sent, hook, again, events, excused>>
  <2> DEFINE wants == {events[e].variant} \cap Differing(AllSale)
  <2>1. /\ Planned(AllSale, wants, e, IF wants = {} THEN "mark" ELSE "write")
        /\ run.stage = "none" /\ e \in Pending /\ ("twice" \in Weak \/ NotBeingHeld(e))
        /\ UNCHANGED <<surface, seen, live, change, sent, hook, again, events, excused>>
    BY <1>2 DEF PutBack, Begins
  <2> HIDE DEF wants
  <2>2. run'.event = e /\ run'.stage = IF wants = {} THEN "mark" ELSE "write"
    BY <2>1 DEF Planned, NoRun
  <2>3. wants = {} /\ events[e].variant = v
    BY <2>1, <2>2 DEF MarkOf
  <2>4. surface[v] = "sale"
    BY <2>3 DEF wants, Differing, AllSale
  <2> QED BY <2>1, <2>2, <2>4
<1>3. run'.stage # "mark" \/ run' = run \/ \E e \in Ids : PutBack(e)
  <2>1. CASE Run
    <3>1. CASE Apply \/ Revert
      BY <3>1 DEF Apply, Revert, Planned, NoRun
    <3>2. ASSUME NEW w \in Variants, RunWrite(w) PROVE run'.stage # "mark"
      BY <3>2, RunWrites
    <3>3. CASE RunSettle \/ RunFinal \/ RunClose \/ RunMark \/ RunCount \/ RunRelease
      BY <3>3 DEF RunSettle, RunFinal, RunClose, RunMark, RunCount, RunRelease, RunTo, TypeOK, Runs
    <3> QED BY <2>1, <3>1, <3>2, <3>3 DEF Run
  <2>2. CASE UNCHANGED run
    BY <2>2
  <2> QED BY <2>1, <2>2
        DEF Next, vars, Merchant, Edit, Expire, Sync, Webhook, Take, Find, Update, Create, HoldLook, Hold, Mirror, HookDies,
            Decision, AnswerBegin, BatchBegin, AnswerAdopt, AnswerClose, BatchClaim, AnswerCount, AnswerRelease, AnswerDies
<1> QED BY <1>1, <1>2, <1>3 DEF MarkOf

LEMMA RightStays ==
  ASSUME Calm, TypeOK, Hands, Delivered, Adopting, [Next]_vars, NEW v \in Variants, NEW p, NEW c \in Nat, Right(v, p, c)
  PROVE  \/ Right(v, p, c)'
         \/ Update /\ hook.variant = v
         \/ RunClose /\ v \in run.done
         \/ MarkOf(v)' /\ ~MarkOf(v)
<1>1. CASE Good(v, p, c)
  BY <1>1, GoodStays DEF Right
<1>2. CASE Asked(v, p) /\ ~MarkOf(v)
  <2>1. RunMark => run.stage = "mark"
    BY DEF RunMark
  <2> QED BY <1>2, <2>1, AskedStays DEF Right, MarkOf
<1> QED BY <1>1, <1>2 DEF Right

(* What the webhook has an event for, no put-back is about to mark. *)
LEMMA NotMarked ==
  ASSUME TypeOK, Hands, Redoing, MarkAlone, HasEvent PROVE ~MarkOf(hook.variant) /\ Asked(hook.variant, hook.read.price)
<1>1. /\ hook.event \in Pending /\ hook.event \in Ids /\ events[hook.event].variant = hook.variant
      /\ events[hook.event].observed = hook.read.price
  BY DEF Redoing, Recorded, Pending
<1>2. ~MarkOf(hook.variant)
  BY <1>1 DEF MarkOf, MarkAlone, Hands, Marks, OneOpen
<1> QED BY <1>1, <1>2 DEF Asked, Pending

(* What is owed to the mirror stays owed until it is mirrored. *)
LEMMA OwedStays ==
  ASSUME Calm, TypeOK, Hands, Redoing, [Next]_vars, NEW v \in Variants, v \in again \/ (InHook(v) /\ HasEvent),
         ~(Mirror /\ hook.variant = v)
  PROVE  v \in again' \/ (InHook(v)' /\ HasEvent')
<1> USE DEF campaign, shopify, mirror, queue, history, counts, Stays
<1>1. CASE UNCHANGED <<hook, again>>
  BY <1>1 DEF InHook, HasEvent
<1>2. ASSUME NEW w \in Variants, NEW read \in sent[w], Take(w, read) PROVE v \in again'
  <2>1. v \in again /\ hook.stage = "none"
    BY <1>2 DEF Take, AtHook, InHook
  <2>2. CASE w = v
    <3>1. PICK d \in sent[v] : sent[v] = {d} /\ Fresh(v, d) /\ d.price \notin intents[v]
      BY <2>1 DEF Redoing, Redone, InHook
    <3>2. d = read /\ read.change \in Nat /\ seen[v] \in Nat
      BY <2>2, <3>1, SentTypes DEF TypeOK
    <3>3. hook'.stage = "find"
      BY <1>2, <2>2, <3>1, <3>2 DEF Take, Fresh, IsOurEcho
    <3> QED BY <1>2, <2>1, <3>3 DEF Take
  <2>3. CASE w # v
    BY <1>2, <2>1, <2>3 DEF Take
  <2> QED BY <2>2, <2>3
<1>3. CASE Find \/ Update \/ Create
  <2>1. again' = again /\ hook'.variant = hook.variant /\ ~HasEvent
    BY <1>3 DEF Find, Update, Create, AtHook, HookTo, HasEvent, TypeOK, Hooks
  <2> QED BY <2>1
<1>4. CASE HoldLook \/ (Hold /\ MayMove("HELD"))
  <2>1. again' = again /\ hook'.variant = hook.variant /\ hook'.event = hook.event /\ hook'.stage \in {"holding", "mirror"}
        /\ hook.stage \in {"hold", "holding"}
    BY <1>4 DEF HoldLook, Hold, AtHook, HookTo, TypeOK, Hooks
  <2>2. hook.event \in Ids
    BY <2>1 DEF HasEvent, Redoing, Recorded, Pending
  <2> QED BY <2>1, <2>2 DEF HasEvent, InHook
<1>5. CASE HookDies \/ (Hold /\ ~MayMove("HELD"))
  <2>1. PutBackDelivery
    BY <1>5 DEF HookDies, Hold
  <2> QED BY <2>1 DEF PutBackDelivery, HasRecorded, HasEvent, InHook
<1>6. CASE Mirror
  BY <1>6 DEF Mirror, InHook
<1> QED BY <1>1, <1>2, <1>3, <1>4, <1>5, <1>6
      DEF Next, vars, Merchant, Edit, Expire, Sync, Webhook, Sold,
          Decision, AnswerBegin, BatchBegin, AnswerAdopt, AnswerClose, BatchClaim, AnswerCount, AnswerRelease, AnswerDies,
          Run, PutBack, Apply, Revert, RunWrite, RunSettle, RunFinal, RunClose, RunMark, RunCount, RunRelease

LEMMA MarkAloneInductive ==
  ASSUME Calm, TypeOK, Hands, Redoing, MarkAlone, [Next]_vars PROVE MarkAlone'
<1> USE DEF campaign, shopify, mirror, queue, history, counts, Stays
<1> SUFFICES ASSUME run'.stage = "mark", HasEvent' PROVE hook'.event # run'.event
  BY DEF MarkAlone
<1>1. CASE run' = run
  <2>0. run.event \in Pending /\ run.event \in Ids
    BY <1>1 DEF Hands, Marks, Pending
  <2>1. CASE HasEvent /\ hook'.event = hook.event
    BY <1>1, <2>1 DEF MarkAlone
  <2>2. CASE Update
    <3>1. ~Marking(hook.event) /\ hook'.event = hook.event
      BY <2>2 DEF Update, AtHook, HookTo, Hands, Updates, TypeOK, Hooks
    <3> QED BY <1>1, <3>1 DEF Marking
  <2>3. CASE Create
    <3>1. hook'.event = made + 1 /\ made \in 0 .. MaxEvents
      BY <2>3, BoundsAssumption DEF Create, TypeOK, Hooks
    <3>2. run.event # made + 1
      BY <2>0, <3>1 DEF Hands, Unmade, Pending
    <3> QED BY <1>1, <3>1, <3>2
  <2>4. CASE UNCHANGED hook
    BY <2>1, <2>4 DEF HasEvent
  <2>5. CASE HoldLook \/ Hold
    <3>1. hook.stage \in {"hold", "holding"} /\ hook'.event = hook.event
      BY <2>5 DEF HoldLook, Hold, PutBackDelivery, AtHook, HookTo, TypeOK, Hooks
    <3> QED BY <2>1, <3>1 DEF HasEvent
  <2>6. CASE Find
    <3>1. hook'.stage = "mirror" => hook'.event = 0
      BY <2>6 DEF Find, AtHook, HookTo, Redoing, Unasked, TypeOK, Hooks
    <3>2. hook'.stage \in {"mirror", "create", "update"}
      BY <2>6 DEF Find, HookTo, TypeOK, Hooks
    <3> QED BY <3>1, <3>2 DEF HasEvent
  <2>7. CASE Mirror \/ HookDies
    BY <2>7 DEF Mirror, HookDies, PutBackDelivery, HookTo, HasEvent, TypeOK, Hooks
  <2>8. ASSUME NEW v \in Variants, NEW read \in sent[v], Take(v, read) PROVE ~HasEvent'
    BY <2>8 DEF Take, HasEvent
  <2> QED BY <2>2, <2>3, <2>4, <2>5, <2>6, <2>7, <2>8
        DEF Next, vars, Merchant, Edit, Expire, Sync, Webhook,
            Decision, AnswerBegin, BatchBegin, AnswerAdopt, AnswerClose, BatchClaim, AnswerCount, AnswerRelease, AnswerDies,
            Run, PutBack, Apply, Revert, RunWrite, RunSettle, RunFinal, RunClose, RunMark, RunCount, RunRelease
<1>2. CASE run' # run
  <2>1. PICK v : v = events'[run'.event].variant
    OBVIOUS
  <2>2. MarkOf(v)'
    BY <2>1 DEF MarkOf
  <2>3. \E e \in Ids : PutBack(e)
    <3>1. CASE Run
      <4>1. CASE Apply \/ Revert
        BY <4>1 DEF Apply, Revert, Planned, NoRun
      <4>2. ASSUME NEW w \in Variants, RunWrite(w) PROVE run'.stage # "mark"
        BY <4>2, RunWrites
      <4>3. CASE RunSettle \/ RunFinal \/ RunClose \/ RunMark \/ RunCount \/ RunRelease
        BY <4>3 DEF RunSettle, RunFinal, RunClose, RunMark, RunCount, RunRelease, RunTo, TypeOK, Runs
      <4> QED BY <3>1, <4>1, <4>2, <4>3 DEF Run
    <3> QED BY <1>2, <3>1
          DEF Next, vars, Merchant, Edit, Expire, Sync, Webhook, Take, Find, Update, Create, HoldLook, Hold, Mirror, HookDies,
              Decision, AnswerBegin, BatchBegin, AnswerAdopt, AnswerClose, BatchClaim, AnswerCount, AnswerRelease, AnswerDies
  <2>4. PICK e \in Ids : PutBack(e)
    BY <2>3
  <2>5. run'.event = e /\ hook' = hook /\ NotBeingHeld(e)
    BY <2>4 DEF PutBack, Planned, NoRun, Calm
  <2> QED BY <2>5 DEF NotBeingHeld, HasEvent, Calm
<1> QED BY <1>1, <1>2

(* A run that closes what it wrote over closes events about prices that needed no question. *)
LEMMA WrittenIsGood ==
  ASSUME TypeOK, Delivered, NEW v \in Variants, RunClose, v \in run.done, NEW c \in Nat, c <= change[v], NEW p
  PROVE  Good(v, p, c)'
<1>1. excused[v] = change[v] /\ excused' = excused
  BY DEF Delivered, Written, AtWork, RunClose, history
<1> QED BY <1>1 DEF Good

LEMMA MirroredInductive ==
  ASSUME Calm, TypeOK, TypeOK', Hands, Delivered, Redoing, Asking, [Next]_vars PROVE Mirrored'
<1> USE DEF campaign, shopify, mirror, queue, history, counts, Stays
<1> SUFFICES ASSUME NEW v \in Variants PROVE MirrorRight(v)'
  BY DEF Mirrored
<1>0. /\ MirrorRight(v) /\ seen[v] \in Nat /\ change[v] \in Nat /\ seen[v] <= change[v] /\ seen'[v] \in Nat
      /\ excused[v] \in Nat
  BY DEF Asking, Mirrored, Delivered, Numbers, TypeOK
<1>1. ASSUME surface'[v] = surface[v], seen'[v] = seen[v], ~(Mirror /\ hook.variant = v) PROVE MirrorRight(v)'
  <2>1. CASE surface[v] = "unknown"
    BY <1>1, <2>1 DEF MirrorRight
  <2>2. CASE v \in again \/ (InHook(v) /\ HasEvent)
    BY <1>1, <2>2, OwedStays DEF MirrorRight
  <2>3. CASE Right(v, surface[v], seen[v])
    <3>0. PICK p : p = surface[v]
      OBVIOUS
    <3>1. PICK c \in Nat : p = surface[v] /\ c = seen[v]
      BY <3>0, <1>0
    <3>2. Right(v, p, c)
      BY <2>3, <3>1
    <3>3. CASE Right(v, p, c)'
      <4>1. p = surface'[v] /\ c = seen'[v]
        BY <1>1, <3>1
      <4> QED BY <3>3, <4>1 DEF MirrorRight
    <3>4. CASE Update /\ hook.variant = v
      BY <3>4 DEF Update, HookTo, AtHook, MirrorRight, InHook, HasEvent, TypeOK, Hooks
    <3>5. CASE RunClose /\ v \in run.done
      <4>1. Good(v, p, c)'
        BY <1>0, <3>1, <3>5, WrittenIsGood
      <4> QED BY <3>3, <4>1 DEF Right
    <3>6. CASE MarkOf(v)' /\ ~MarkOf(v)
      BY <1>1, <3>6, MarkBegins DEF MirrorRight, Right, Good
    <3> QED BY <3>2, <3>3, <3>4, <3>5, <3>6, RightStays DEF Asking
  <2> QED BY <1>0, <2>1, <2>2, <2>3 DEF MirrorRight
<1>2. CASE Mirror
  <2>1. /\ surface' = [surface EXCEPT ![hook.variant] = hook.read.price] /\ hook.stage = "mirror"
        /\ seen' = [seen EXCEPT ![hook.variant] = hook.read.change]
        /\ UNCHANGED <<events, answer, run, excused>>
    BY <1>2 DEF Mirror, AtHook
  <2>2. CASE hook.variant # v
    BY <1>1, <2>1, <2>2 DEF TypeOK
  <2>3. CASE hook.variant = v
    <3>0. PICK p : p = hook.read.price
      OBVIOUS
    <3>1. PICK c \in Nat : p = hook.read.price /\ c = hook.read.change
      BY <3>0, HookTypes
    <3>2. Right(v, p, c)
      <4>1. CASE hook.event # 0
        BY <2>1, <2>3, <3>1, <4>1, NotMarked DEF HasEvent, Asking, Right
      <4>2. CASE hook.event = 0
        BY <2>1, <2>3, <3>1, <4>2 DEF Asking, Mirroring, Right
      <4> QED BY <4>1, <4>2
    <3>3. Right(v, p, c)'
      BY <2>1, <3>2 DEF Right, Good, KeptBy, Asked, MarkOf
    <3>4. surface'[v] = p /\ seen'[v] = c
      BY <2>1, <2>3, <3>1 DEF TypeOK
    <3> QED BY <3>3, <3>4 DEF MirrorRight
  <2> QED BY <2>2, <2>3
<1>3. ASSUME NEW w \in Variants, Sync(w) PROVE MirrorRight(v)'
  <2>1. /\ UNCHANGED <<events, answer, run, excused, hook>> /\ sent[w] = {} /\ ~InHook(w)
        /\ surface' = [surface EXCEPT ![w] = live[w]] /\ seen' = [seen EXCEPT ![w] = change[w]]
    BY <1>3 DEF Sync, Calm
  <2>2. CASE w # v
    <3>1. ~Mirror
      BY <2>1 DEF Mirror, AtHook, HookTo, TypeOK, Hooks
    <3> QED BY <1>1, <2>1, <2>2, <3>1 DEF TypeOK
  <2>3. CASE w = v
    <3>0. PICK p : p = live[v]
      OBVIOUS
    <3>1. PICK c \in Nat : p = live[v] /\ c = change[v]
      BY <3>0, <1>0
    <3>2. Right(v, p, c)
      BY <2>1, <2>3, <3>1 DEF Asking, Handled, LiveRight, Right
    <3>3. Right(v, p, c)'
      BY <2>1, <3>2 DEF Right, Good, KeptBy, Asked, MarkOf
    <3>4. surface'[v] = p /\ seen'[v] = c
      BY <2>1, <2>3, <3>1 DEF TypeOK
    <3> QED BY <3>3, <3>4 DEF MirrorRight
  <2> QED BY <2>2, <2>3
<1>4. CASE RunSettle
  <2> DEFINE mine == {w \in run.done \cup run.lost : seen[w] <= run.at[w]}
  <2>1. /\ surface'[v] = IF v \notin mine THEN surface[v] ELSE IF v \in run.done THEN run.to[v] ELSE "unknown"
        /\ seen'[v] = IF v \in mine THEN run.at[v] ELSE seen[v]
        /\ excused' = excused /\ hook' = hook /\ run.stage = "write"
    BY <1>4 DEF RunSettle
  <2>2. CASE v \notin mine
    <3>1. ~Mirror
      BY <2>1 DEF Mirror, AtHook, HookTo, TypeOK, Hooks
    <3> QED BY <1>1, <2>1, <2>2, <3>1
  <2>3. CASE v \in mine /\ v \in run.done
    <3>1. excused[v] = change[v] /\ run.at[v] <= change[v] /\ run.at[v] \in Nat
      BY <2>1, <2>3, RunTypes DEF Delivered, Written, Numbers, AtWork
    <3>2. excused'[v] >= seen'[v]
      BY <1>0, <2>1, <2>3, <3>1
    <3> QED BY <3>2 DEF MirrorRight, Right, Good
  <2>4. CASE v \in mine /\ v \notin run.done
    BY <2>1, <2>4 DEF MirrorRight
  <2> QED BY <2>2, <2>3, <2>4
<1>5. CASE UNCHANGED <<surface, seen>> /\ ~Mirror
  BY <1>1, <1>5
<1> QED BY <1>2, <1>3, <1>4, <1>5
      DEF Next, vars, Merchant, Edit, Expire, Webhook, Take, Find, Update, Create, HoldLook, Hold, HookDies,
          Decision, AnswerBegin, BatchBegin, AnswerAdopt, AnswerClose, BatchClaim, AnswerCount, AnswerRelease, AnswerDies,
          Run, PutBack, Apply, Revert, RunWrite, RunFinal, RunClose, RunMark, RunCount, RunRelease

(* What a delivery that is dropped or only mirrored is about. *)
LEMMA TakeIsRight ==
  ASSUME Calm, TypeOK, Hands, Delivered, Redoing, Asking, [Next]_vars,
         NEW v \in Variants, NEW read \in sent[v], Take(v, read), hook'.stage # "find",
         hook'.stage = "mirror" \/ sent'[v] = {}
  PROVE  \/ Good(v, read.price, read.change)'
         \/ hook'.stage = "mirror" /\ read.price = surface[v] /\ Right(v, read.price, read.change)'
<1> USE DEF campaign, mirror, queue, counts
<1>0. /\ read.change \in Nat /\ seen[v] \in Nat /\ change[v] \in Nat /\ excused[v] \in Nat /\ read.change <= change[v]
      /\ Kind(v, read) /\ seen[v] <= change[v]
      /\ sent \in [Variants -> SUBSET Reads] /\ excused \in [Variants -> Nat]
  BY SentTypes DEF Delivered, Waiting, Kinds, Numbers, TypeOK
<1>1. UNCHANGED <<surface, seen, run, events, answer>> /\ hook.stage = "none"
  BY DEF Take, AtHook
<1>2. ASSUME read.price \in intents[v] PROVE Good(v, read.price, read.change)'
  <2>1. Good(v, read.price, read.change)
    BY <1>0, <1>2, EchoIsGood DEF Asking
  <2> QED BY <1>0, <2>1, GoodStays DEF Asking
<1>3. CASE hook'.stage = "none"
  <2>1. read.change = change[v]
    <3>1. PICK d \in sent[v] : d.change = change[v]
      BY DEF Delivered, Waiting
    <3>2. sent'[v] = {r \in sent[v] : r.change > read.change}
      BY <1>0 DEF Take
    <3> QED BY <1>0, <1>3, <3>1, <3>2
  <2>2. read.price \in intents[v]
    <3>1. PICK stage \in IF read.change < seen[v] THEN {"none"}
                         ELSE IF IsOurEcho(read, v) THEN {"none", "mirror"}
                         ELSE IF surface[v] \in {read.price, "unknown"} THEN {"mirror"}
                         ELSE {"find"} :
               hook' = [stage |-> stage, variant |-> v, read |-> read, event |-> 0]
      BY DEF Take
    <3>2. ~(read.change < seen[v]) /\ stage = "none"
      BY <1>0, <1>3, <2>1, <3>1
    <3> QED BY <3>1, <3>2 DEF IsOurEcho
  <2> QED BY <1>2, <2>2
<1>4. CASE hook'.stage # "none" /\ read.price \notin intents[v]
  <2>1. read.change >= seen[v] /\ surface[v] \in {read.price, "unknown"}
    <3>1. PICK stage \in IF read.change < seen[v] THEN {"none"}
                         ELSE IF IsOurEcho(read, v) THEN {"none", "mirror"}
                         ELSE IF surface[v] \in {read.price, "unknown"} THEN {"mirror"}
                         ELSE {"find"} :
               hook' = [stage |-> stage, variant |-> v, read |-> read, event |-> 0]
      BY DEF Take
    <3>2. CASE read.change < seen[v]
      BY <1>4, <3>1, <3>2
    <3>3. CASE ~(read.change < seen[v])
      BY <1>0, <1>4, <3>1, <3>3 DEF IsOurEcho
    <3> QED BY <3>2, <3>3
  <2>2. ASSUME Excused(v, read) PROVE Good(v, read.price, read.change)'
    <3>1. excused'[v] >= read.change
      BY <1>0, <2>2 DEF Excused
    <3> QED BY <3>1 DEF Good
  <2>3. CASE surface[v] = "unknown"
    BY <2>1, <2>2, <2>3 DEF Take
  <2>4. CASE surface[v] = read.price /\ surface[v] # "unknown"
    <3>0. PICK p : p = read.price
      OBVIOUS
    <3>1. v \notin again
      <4> SUFFICES ASSUME v \in again PROVE FALSE
        OBVIOUS
      <4>1. PICK d \in sent[v] : sent[v] = {d} /\ Fresh(v, d)
        BY <1>1 DEF Redoing, Redone, InHook
      <4> QED BY <2>4, <4>1 DEF Fresh
    <3>2. Right(v, p, seen[v])
      BY <1>1, <2>4, <3>0, <3>1 DEF Asking, Mirrored, MirrorRight, InHook
    <3>3. CASE p = "sale" \/ KeptBy(v, p)
      <4>1. Good(v, p, read.change)
        BY <3>3 DEF Good
      <4> QED BY <1>0, <3>0, <4>1, GoodStays DEF Asking
    <3>4. CASE excused[v] >= seen[v]
      <4>1. CASE excused[v] > read.change
        <5>1. Good(v, p, read.change)
          BY <1>0, <4>1 DEF Good
        <5> QED BY <1>0, <3>0, <5>1, GoodStays DEF Asking
      <4>2. CASE ~(excused[v] > read.change)
        <5>1. excused[v] \in seen[v] .. read.change
          BY <1>0, <3>4, <4>2
        <5> QED BY <2>2, <2>4, <5>1 DEF Take
      <4> QED BY <4>1, <4>2
    <3>5. CASE Asked(v, p) /\ ~MarkOf(v)
      <4>1. Asked(v, p)' /\ ~MarkOf(v)'
        BY <1>1, <3>5 DEF Asked, MarkOf
      <4>2. hook'.stage = "mirror"
        BY <1>4 DEF Take
      <4> QED BY <2>4, <3>0, <4>1, <4>2 DEF Right
    <3> QED BY <3>2, <3>3, <3>4, <3>5 DEF Right, Good
  <2> QED BY <2>1, <2>3, <2>4
<1> QED BY <1>2, <1>3, <1>4

LEMMA MirroringInductive ==
  ASSUME Calm, TypeOK, Hands, Delivered, Redoing, Asking, [Next]_vars PROVE Mirroring'
<1> USE DEF campaign, shopify, mirror, queue, history, counts, Stays
<1> SUFFICES ASSUME hook'.stage = "mirror", hook'.event = 0 PROVE Mirroring'
  BY DEF Mirroring
<1>1. ASSUME NEW v \in Variants, NEW read \in sent[v], Take(v, read) PROVE Mirroring'
  <2>1. hook'.variant = v /\ hook'.read = read /\ surface' = surface
    BY <1>1 DEF Take
  <2>2. \/ Good(v, read.price, read.change)'
        \/ read.price = surface[v] /\ Right(v, read.price, read.change)'
    BY <1>1, TakeIsRight
  <2>3. PICK p, c : p = read.price /\ c = read.change
    OBVIOUS
  <2> QED BY <2>1, <2>2, <2>3 DEF Mirroring
<1>2. CASE Find
  <2>1. hook'.read = hook.read /\ hook'.variant = hook.variant /\ hook.read.change \in Nat /\ hook.variant \in Variants
    BY <1>2, HookSteps, HookTypes
  <2>2. Excused(hook.variant, hook.read)
    BY <1>2 DEF Find, HookTo, TypeOK, Hooks
  <2>3. excused'[hook.variant] >= hook.read.change
    <3>1. excused \in [Variants -> Nat]
      BY DEF TypeOK
    <3> QED BY <2>1, <2>2, <3>1 DEF Excused
  <2> QED BY <2>1, <2>3 DEF Mirroring, Good
<1>3. ~(Update \/ Create \/ HoldLook \/ Hold \/ Mirror \/ HookDies)
  <2>1. ~(Update \/ Create \/ Mirror \/ HookDies)
    BY DEF Update, Create, Mirror, HookDies, PutBackDelivery, HookTo, TypeOK, Hooks
  <2>2. ASSUME HoldLook \/ Hold PROVE FALSE
    <3>1. hook.stage \in {"hold", "holding"} /\ hook'.event = hook.event
      BY <2>2 DEF HoldLook, Hold, PutBackDelivery, AtHook, HookTo, TypeOK, Hooks
    <3> QED BY <3>1 DEF Redoing, Recorded, HasEvent, Pending
  <2> QED BY <2>1, <2>2
<1>4. CASE UNCHANGED hook
  <2>00. PICK v \in Variants : v = hook.variant
    BY HookTypes
  <2>0. /\ v = hook.variant /\ InHook(v) /\ hook.read.change \in Nat /\ hook.read.change <= change[v]
    BY <1>4, <2>00, HookTypes DEF InHook, Delivered, InTurn
  <2>1. PICK p : p = hook.read.price
    OBVIOUS
  <2>2. PICK c \in Nat : c = hook.read.change
    BY <2>0
  <2>3. Good(v, p, c) \/ (p = surface[v] /\ Right(v, p, c))
    BY <1>4, <2>0, <2>1, <2>2 DEF Asking, Mirroring
  <2>4. surface'[v] = surface[v]
    <3>1. ASSUME NEW w \in Variants, Sync(w) PROVE surface'[v] = surface[v]
      BY <2>0, <3>1 DEF Sync, Calm, TypeOK
    <3>2. CASE RunSettle
      BY <2>0, <3>2 DEF RunSettle, Calm
    <3> QED BY <1>3, <3>1, <3>2
          DEF Next, vars, Merchant, Edit, Expire, Webhook, Take, Find,
              Decision, AnswerBegin, BatchBegin, AnswerAdopt, AnswerClose, BatchClaim, AnswerCount, AnswerRelease, AnswerDies,
              Run, PutBack, Apply, Revert, RunWrite, RunFinal, RunClose, RunMark, RunCount, RunRelease
  <2>5. Good(v, p, c)' \/ (p = surface[v] /\ Right(v, p, c)')
    <3>1. CASE Good(v, p, c)
      BY <2>0, <3>1, GoodStays DEF Asking
    <3>2. CASE p = surface[v] /\ Right(v, p, c)
      <4>1. Right(v, p, c)' \/ (RunClose /\ v \in run.done) \/ (MarkOf(v)' /\ ~MarkOf(v))
        BY <1>3, <2>0, <3>2, RightStays DEF Asking
      <4>2. CASE RunClose /\ v \in run.done
        BY <2>0, <2>2, <4>2, WrittenIsGood
      <4>3. CASE MarkOf(v)' /\ ~MarkOf(v)
        BY <2>0, <3>2, <4>3, MarkBegins DEF Good
      <4> QED BY <3>2, <4>1, <4>2, <4>3
    <3> QED BY <2>3, <3>1, <3>2
  <2>6. hook'.read.price = p /\ hook'.read.change = c /\ hook'.variant = v
    BY <1>4, <2>0, <2>1, <2>2
  <2>7. \/ Good(v, p, c)'
        \/ p = surface'[v] /\ Right(v, p, c)'
    BY <2>4, <2>5
  <2> QED BY <1>4, <2>6, <2>7 DEF Mirroring, Good, Right, KeptBy, Asked, MarkOf
<1> QED BY <1>1, <1>2, <1>3, <1>4
      DEF Next, vars, Merchant, Edit, Expire, Sync, Webhook,
          Decision, AnswerBegin, BatchBegin, AnswerAdopt, AnswerClose, BatchClaim, AnswerCount, AnswerRelease, AnswerDies,
          Run, PutBack, Apply, Revert, RunWrite, RunSettle, RunFinal, RunClose, RunMark, RunCount, RunRelease

(* With nothing of it under way, the live price stays right. *)
LEMMA LiveStays ==
  ASSUME Calm, TypeOK, Hands, Delivered, Redoing, Asking, [Next]_vars, NEW v \in Variants,
         sent[v] = {}, ~InHook(v), live'[v] = live[v], change'[v] = change[v],
         surface'[v] \in {surface[v], live[v], "unknown"} \/ excused'[v] >= change[v]
  PROVE  LiveRight(v)'
<1>0. PICK p : p = live[v]
  OBVIOUS
<1>1. PICK c \in Nat : c = change[v]
  BY DEF TypeOK
<1>2. Good(v, p, c) \/ (surface[v] \in {p, "unknown"} /\ Right(v, p, c))
  BY <1>0, <1>1 DEF Asking, Handled, LiveRight
<1>3. Good(v, p, c)' \/ (surface'[v] \in {p, "unknown"} /\ Right(v, p, c)')
  <2>1. CASE Good(v, p, c)
    BY <2>1, GoodStays DEF Asking
  <2>2. CASE excused'[v] >= change[v]
    BY <1>1, <2>2 DEF Good
  <2>3. CASE surface[v] \in {p, "unknown"} /\ Right(v, p, c) /\ surface'[v] \in {surface[v], live[v], "unknown"}
    <3>1. surface'[v] \in {p, "unknown"}
      BY <1>0, <2>3
    <3>2. CASE Update /\ hook.variant = v
      BY <3>2 DEF Update, AtHook, InHook
    <3>3. CASE RunClose /\ v \in run.done
      BY <1>1, <3>3, WrittenIsGood
    <3>4. CASE MarkOf(v)' /\ ~MarkOf(v)
      BY <2>3, <3>4, MarkBegins DEF Good
    <3> QED BY <2>3, <3>1, <3>2, <3>3, <3>4, RightStays DEF Asking
  <2> QED BY <1>2, <2>1, <2>2, <2>3
<1>4. p = live'[v] /\ c = change'[v]
  BY <1>0, <1>1
<1> QED BY <1>3, <1>4 DEF LiveRight

LEMMA HandledInductive ==
  ASSUME Calm, TypeOK, Hands, Delivered, Redoing, Asking, [Next]_vars PROVE Handled'
<1> USE DEF campaign, shopify, mirror, queue, history, counts, Stays
<1> SUFFICES ASSUME NEW v \in Variants, sent'[v] = {}, ~InHook(v)' PROVE LiveRight(v)'
  BY DEF Handled, LiveRight
<1>0. /\ sent \in [Variants -> SUBSET Reads] /\ live \in [Variants -> Prices] /\ change \in [Variants -> Nat]
      /\ surface \in [Variants -> Prices \cup {"unknown"}] /\ excused \in [Variants -> Nat]
  BY DEF TypeOK
<1>1. CASE UNCHANGED <<sent, live, change, surface, hook>>
  BY <1>1, LiveStays DEF InHook
<1>2. ASSUME NEW w \in Variants, NEW p, NEW by, Sold(w, p, by), UNCHANGED <<surface, hook>> PROVE LiveRight(v)'
  <2>1. w # v
    BY <1>0, <1>2 DEF Sold
  <2>2. sent'[v] = sent[v] /\ live'[v] = live[v] /\ change'[v] = change[v]
    BY <1>0, <1>2, <2>1 DEF Sold
  <2> QED BY <1>2, <2>2, LiveStays DEF InHook
<1>3. CASE Merchant
  <2>1. ASSUME NEW w \in Variants, NEW price \in Edits \cup {"sale"}, Edit(w, price) PROVE LiveRight(v)'
    BY <1>2, <2>1 DEF Edit
  <2>2. ASSUME NEW w \in Variants, Sync(w) PROVE LiveRight(v)'
    <3>1. UNCHANGED <<sent, live, change, hook>> /\ surface'[v] \in {surface[v], live[v]}
      BY <1>0, <2>2 DEF Sync
    <3> QED BY <3>1, LiveStays DEF InHook
  <2> QED BY <1>1, <1>3, <2>1, <2>2 DEF Merchant, Expire
<1>4. CASE Run
  <2>1. ASSUME NEW w \in Variants, RunWrite(w) PROVE LiveRight(v)'
    BY <1>1, <1>2, <2>1, RunWrites
  <2>2. CASE RunSettle
    <3> DEFINE mine == {w \in run.done \cup run.lost : seen[w] <= run.at[w]}
    <3>1. /\ surface'[v] = IF v \notin mine THEN surface[v] ELSE IF v \in run.done THEN run.to[v] ELSE "unknown"
          /\ UNCHANGED <<sent, live, change, hook, excused>> /\ run.stage = "write"
      BY <2>2 DEF RunSettle
    <3>2. v \in run.done => excused[v] = change[v]
      BY <3>1 DEF Delivered, Written, AtWork
    <3>3. v \in run.done => excused'[v] >= change[v]
      BY <1>0, <3>1, <3>2
    <3> HIDE DEF mine
    <3> QED BY <3>1, <3>3, LiveStays DEF InHook
  <2> QED BY <1>1, <1>4, <2>1, <2>2 DEF Run, PutBack, Apply, Revert, RunFinal, RunClose, RunMark, RunCount, RunRelease
<1>5. ASSUME NEW a \in Answerers, Decision(a) PROVE LiveRight(v)'
  BY <1>1, <1>5 DEF Decision, AnswerBegin, BatchBegin, AnswerAdopt, AnswerClose, BatchClaim, AnswerCount, AnswerRelease,
                    AnswerDies
<1>6. ASSUME NEW w \in Variants, NEW read \in sent[w], Take(w, read) PROVE LiveRight(v)'
  <2>1. CASE w # v
    <3>1. UNCHANGED <<live, change, surface>> /\ sent'[v] = sent[v] /\ hook.stage = "none"
      BY <1>0, <1>6, <2>1 DEF Take, AtHook
    <3> QED BY <3>1, LiveStays DEF InHook
  <2>2. CASE w = v
    <3>1. hook'.stage = "none"
      BY <1>6, <2>2 DEF Take, InHook
    <3>2. Good(v, read.price, read.change)'
      BY <1>6, <2>2, <3>1, TakeIsRight
    <3>3. read.change = change[v]
      <4>1. PICK d \in sent[v] : d.change = change[v]
        BY <1>6, <2>2 DEF Delivered, Waiting
      <4>2. read.change \in Nat /\ d.change \in Nat /\ read.change <= change[v]
        BY <2>2, SentTypes DEF Delivered, Waiting
      <4>3. sent'[v] = {r \in sent[v] : r.change > read.change}
        BY <1>0, <1>6, <2>2 DEF Take
      <4> QED BY <4>1, <4>2, <4>3
    <3>4. read.price = live[v]
      BY <2>2, <3>3 DEF Delivered, Waiting
    <3>5. live' = live /\ change' = change
      BY <1>6 DEF Take
    <3>6. PICK p, c : p = read.price /\ c = read.change
      OBVIOUS
    <3>7. Good(v, p, c)' /\ p = live'[v] /\ c = change'[v]
      BY <3>2, <3>3, <3>4, <3>5, <3>6
    <3> QED BY <3>7 DEF LiveRight
  <2> QED BY <2>1, <2>2
<1>7. CASE Find \/ Update \/ Create \/ HoldLook \/ Hold \/ Mirror \/ HookDies
  <2>0. /\ hook.stage # "none" /\ hook'.variant = hook.variant /\ UNCHANGED <<live, change>>
        /\ hook.variant \in Variants /\ hook.read \in Reads
    BY <1>7, HookSteps, HookTypes
  <2>1. CASE hook.variant # v
    <3>1. sent'[v] = sent[v] /\ surface'[v] = surface[v]
      BY <1>0, <1>7, <2>1 DEF Find, Update, Create, HoldLook, Hold, Mirror, HookDies, PutBackDelivery
    <3> QED BY <2>0, <2>1, <3>1, LiveStays DEF InHook
  <2>2. CASE hook.variant = v
    <3>1. hook'.stage = "none"
      BY <2>0, <2>2 DEF InHook
    <3>2. ~PutBackDelivery
      BY <1>0, <2>0, <2>2 DEF PutBackDelivery
    <3>3. Mirror
      BY <1>7, <3>1, <3>2 DEF Find, Update, Create, HoldLook, Hold, HookDies, HookTo, TypeOK, Hooks
    <3>4. PICK p : p = hook.read.price
      OBVIOUS
    <3>5. PICK c : c = hook.read.change
      OBVIOUS
    <3>6. p = live[v] /\ c = change[v]
      <4>1. InHook(v) /\ sent[v] = {}
        BY <2>0, <2>2, <3>3 DEF InHook, Mirror
      <4> QED BY <3>4, <3>5, <4>1 DEF Delivered, InTurn
    <3>7. Right(v, p, c)
      <4>1. CASE hook.event # 0
        BY <2>2, <3>3, <3>4, <4>1, NotMarked DEF Mirror, AtHook, HasEvent, Asking, Right
      <4>2. CASE hook.event = 0
        BY <2>2, <3>3, <3>4, <3>5, <4>2 DEF Mirror, AtHook, Asking, Mirroring, Right
      <4> QED BY <4>1, <4>2
    <3>8. Right(v, p, c)'
      BY <3>3, <3>7 DEF Mirror, Right, Good, KeptBy, Asked, MarkOf
    <3>9. surface'[v] = p
      BY <1>0, <2>2, <3>3, <3>4 DEF Mirror
    <3> QED BY <2>0, <3>6, <3>8, <3>9 DEF LiveRight
  <2> QED BY <2>1, <2>2
<1>8. CASE UNCHANGED vars
  BY <1>1, <1>8 DEF vars
<1> QED BY <1>3, <1>4, <1>5, <1>6, <1>7, <1>8 DEF Next, Webhook

LEMMA AskingInductive ==
  ASSUME Calm, TypeOK, TypeOK', Hands, Delivered, Redoing, Asking, [Next]_vars PROVE Asking'
  BY AdoptingInductive, BasesInductive, MarkAloneInductive, MirroredInductive, MirroringInductive, HandledInductive
     DEF Asking

LEMMA AskingIsEnough == ASSUME TypeOK, Hands, Delivered, Asking PROVE EveryEditIsAsked
<1> SUFFICES ASSUME Quiet, NEW v \in Variants
             PROVE  \/ live[v] = "sale" \/ excused[v] = change[v]
                    \/ \E e \in 1 .. made : /\ events[e].variant = v /\ events[e].observed = live[v]
                                            /\ events[e].resolution # "REASSERTED"
  BY DEF EveryEditIsAsked
<1>1. Good(v, live[v], change[v]) \/ Asked(v, live[v])
  BY DEF Quiet, InHook, Asking, Handled, LiveRight, Right
<1>2. excused[v] <= change[v] /\ excused[v] \in Nat /\ change[v] \in Nat
  BY DEF Delivered, Numbers, TypeOK
<1>3. \A e \in Ids : events[e].resolution # "NONE" => e \in 1 .. made
  BY DEF Hands, Unmade, TypeOK
<1>4. CASE KeptBy(v, live[v]) \/ Asked(v, live[v])
  <2>1. PICK e \in Ids : /\ events[e].variant = v /\ events[e].observed = live[v]
                         /\ events[e].resolution \in {"PENDING", "ADOPTED", "IGNORED"}
    BY <1>4 DEF KeptBy, Asked, Quiet
  <2> QED BY <1>3, <2>1
<1> QED BY <1>1, <1>2, <1>4 DEF Good

(* With its gaps closed, every edit is asked about: for any number of variants, edits, runs,
   decisions and deaths, once everything is handled the storefront shows the
   campaign's price, or one a run wrote, or one that needed no question, or one
   that an event put to the merchant. *)
THEOREM EveryEditIsAskedHolds == ASSUME Calm PROVE Spec => []EveryEditIsAsked
<1> DEFINE Inv == Hands /\ Delivered /\ Redoing /\ Asking
<1>1. Init => Inv
  BY HandsInit, DeliveredInit, RedoingInit, AskingInit
<1>2. TypeOK /\ TypeOK' /\ Inv /\ [Next]_vars => Inv'
  <2>1. NoGap /\ "close" \notin Weak
    BY DEF Calm, NoGap
  <2> QED BY <2>1, HandsInductive, DeliveredInductive, RedoingInductive, AskingInductive
<1>3. TypeOK /\ Inv => EveryEditIsAsked
  BY AskingIsEnough
<1> HIDE DEF Inv
<1> QED BY <1>1, <1>2, <1>3, TypeCorrect, PTL DEF Spec

-----------------------------------------------------------------------------
(* What a hold waits for.  Whoever resolves the last event of a held campaign counts, and
   whoever counts none releases it; and until a whole run moves the campaign, an open
   event that does not hold it is about to: its hold is under way, or its delivery is
   to be handled again. *)

Releasing == run.stage = "release" \/ \E a \in Answerers : answer[a].stage = "release"
Counting  == run.stage \in {"count", "release"} \/ \E a \in Answerers : answer[a].stage \in {"count", "release"}

DueToHold(e) ==
    \/ hook.stage \in {"hold", "holding"} /\ hook.event = e
    \/ /\ events[e].variant \in again
       /\ \/ ~InHook(events[e].variant)
          \/ hook.stage = "find"
          \/ hook.stage = "update" /\ hook.event = e

Counted        == status = "HELD" /\ Pending = {} => Counting
NotHeldClosing == run.stage = "close" /\ run.event = 0 => status # "HELD"
HoldingAlone   == hook.stage = "holding" => ~Releasing
Early          == wholes = 0 => /\ status \in Running /\ ~ending /\ run.stage # "final"
                                /\ run.stage \in {"write", "close"} => run.event # 0
Due            == wholes = 0 => \A e \in Pending : status = "HELD" \/ DueToHold(e)
DueAfter       == wholes = 0 /\ Releasing => \A e \in Pending : DueToHold(e)

Questions == Counted /\ NotHeldClosing /\ HoldingAlone /\ Early /\ Due /\ DueAfter

LEMMA QuestionsInit == Init => Questions
  BY DEF Init, Questions, Counted, NotHeldClosing, HoldingAlone, Early, Due, DueAfter, Pending, NoEvent, NoRun, NoHook

(* A release never leaves a campaign held. *)
LEMMA Released == ASSUME TypeOK, MoveIfLegal(heldFrom)
                  PROVE  status' # "HELD" /\ (status \in Running => status' \in Running)
  BY DEF MoveIfLegal, MayMove, Legal, TypeOK

(* What a step does to the open events, to who counts and to the campaign. *)
LEMMA PendingFrom == ASSUME TypeOK, Hands, [Next]_vars, NEW e \in Pending', e \notin Pending PROVE Create /\ e = made + 1
<1> USE DEF campaign, shopify, mirror, queue, history, counts, Stays
<1>0. e \in Ids /\ events'[e].resolution = "PENDING" /\ events[e].resolution # "PENDING"
  BY DEF Pending
<1>1. events' # events
  BY <1>0
<1>2. ~Update
  BY <1>0 DEF Update, TypeOK, Events, Hands, Updates, Pending, AtHook
<1>3. CASE Create
  BY <1>0, <1>3 DEF Create, TypeOK
<1>4. ASSUME NEW a \in Answerers, Decision(a) PROVE FALSE
  <2>0. answer[a].to \in Verdicts
    BY DEF TypeOK, Answers
  <2>1. CASE AnswerClose(a)
    BY <1>0, <2>0, <2>1 DEF AnswerClose, TypeOK, Events
  <2>2. CASE BatchClaim(a)
    <3>1. events'[e] = events[e] \/ events'[e] = [events[e] EXCEPT !.resolution = answer[a].to]
      BY <1>0, <2>2 DEF BatchClaim
    <3> QED BY <1>0, <2>0, <3>1 DEF TypeOK, Events
  <2> QED BY <1>1, <1>4, <2>1, <2>2 DEF Decision, AnswerBegin, BatchBegin, AnswerAdopt, AnswerCount, AnswerRelease, AnswerDies
<1>5. ~RunClose
  <2> SUFFICES ASSUME RunClose PROVE FALSE
    OBVIOUS
  <2>1. events'[e] = events[e] \/ events'[e] = [events[e] EXCEPT !.resolution = "REASSERTED"]
    BY <1>0 DEF RunClose
  <2> QED BY <1>0, <2>1 DEF TypeOK, Events
<1>6. ~RunMark
  BY <1>0 DEF RunMark, TypeOK, Events
<1> QED BY <1>1, <1>2, <1>3, <1>4, <1>5, <1>6
      DEF Next, vars, Merchant, Edit, Expire, Sync, Webhook, Take, Find, HoldLook, Hold, Mirror, HookDies,
          Run, PutBack, Apply, Revert, RunWrite, RunSettle, RunFinal, RunCount, RunRelease

(* Who counts goes on until it has. *)
LEMMA CountingStays ==
  ASSUME Calm, TypeOK, [Next]_vars, Counting
  PROVE  \/ Counting'
         \/ UNCHANGED <<status, events>> /\ ~ReleasesFrom
         \/ status' # "HELD"
<1> USE DEF campaign, shopify, mirror, queue, history, counts, Stays, Counting
<1>1. CASE run.stage \in {"count", "release"}
  <2>1. CASE RunCount
    <3>1. ReleasesFrom => run'.stage = "release"
      BY <2>1 DEF RunCount, RunTo, TypeOK, Runs
    <3> QED BY <2>1, <3>1 DEF RunCount
  <2>2. CASE RunRelease
    BY <2>2, Released DEF RunRelease
  <2>3. CASE UNCHANGED run
    BY <1>1, <2>3
  <2> QED BY <1>1, <2>1, <2>2, <2>3
        DEF Next, vars, Merchant, Edit, Expire, Sync, Webhook, Take, Find, Update, Create, HoldLook, Hold, Mirror, HookDies,
            Decision, AnswerBegin, BatchBegin, AnswerAdopt, AnswerClose, BatchClaim, AnswerCount, AnswerRelease, AnswerDies,
            Run, PutBack, Apply, Revert, Begins, RunWrite, RunSettle, RunFinal, RunClose, RunMark
<1>2. ASSUME NEW a \in Answerers, answer[a].stage \in {"count", "release"}
      PROVE  Counting' \/ (UNCHANGED <<status, events>> /\ ~ReleasesFrom) \/ status' # "HELD"
  <2>1. CASE AnswerCount(a)
    <3>1. ReleasesFrom => answer'[a].stage = "release"
      BY <2>1 DEF AnswerCount, Doing, TypeOK, Answers
    <3> QED BY <2>1, <3>1 DEF AnswerCount
  <2>2. CASE AnswerRelease(a)
    BY <2>2, Released DEF AnswerRelease
  <2>3. CASE answer'[a] = answer[a]
    BY <1>2, <2>3
  <2>4. ASSUME NEW b \in Answerers, Decision(b), b # a PROVE answer'[a] = answer[a]
    BY <2>4 DEF Decision, AnswerBegin, BatchBegin, AnswerAdopt, AnswerClose, BatchClaim, AnswerCount, AnswerRelease,
                AnswerDies, Doing, TypeOK
  <2>5. CASE Decision(a)
    BY <1>2, <2>1, <2>2, <2>5 DEF Decision, AnswerBegin, BatchBegin, AnswerAdopt, AnswerClose, BatchClaim, AnswerDies, Calm
  <2> QED BY <2>3, <2>4, <2>5
        DEF Next, vars, Merchant, Edit, Expire, Sync, Webhook, Take, Find, Update, Create, HoldLook, Hold, Mirror, HookDies,
            Run, PutBack, Apply, Revert, RunWrite, RunSettle, RunFinal, RunClose, RunMark, RunCount, RunRelease
<1> QED BY <1>1, <1>2

LEMMA CountedInductive ==
  ASSUME Calm, TypeOK, Hands, Redoing, Counted, NotHeldClosing, [Next]_vars PROVE Counted'
<1> USE DEF campaign, shopify, mirror, queue, history, counts, Stays
<1> SUFFICES ASSUME status' = "HELD", Pending' = {} PROVE Counting'
  BY DEF Counted
<1>0. CASE Counting
  <2>1. UNCHANGED events => Pending' = Pending
    BY DEF Pending
  <2> QED BY <1>0, <2>1, CountingStays DEF ReleasesFrom
<1>1. CASE status = "HELD" /\ UNCHANGED events
  BY <1>0, <1>1 DEF Counted, Pending
<1>2. CASE Hold
  <2>1. hook.event \in Pending /\ events' = events
    BY <1>2 DEF Hold, AtHook, Redoing, Recorded, HasEvent
  <2> QED BY <2>1 DEF Pending
<1>3. CASE Update \/ Create
  <2>1. Pending' # {}
    <3>1. CASE Update
      BY <3>1 DEF Update, AtHook, Hands, Updates, Pending, TypeOK, Events
    <3>2. CASE Create
      BY <3>2, BoundsAssumption DEF Create, Pending, TypeOK
    <3> QED BY <1>3, <3>1, <3>2
  <2> QED BY <2>1
<1>4. ASSUME NEW a \in Answerers, Decision(a) PROVE Counting'
  <2>1. CASE AnswerClose(a) \/ BatchClaim(a)
    BY <2>1 DEF AnswerClose, BatchClaim, Doing, Counting, TypeOK, Answers
  <2>2. CASE AnswerRelease(a)
    BY <2>2, Released DEF AnswerRelease
  <2> QED BY <1>1, <1>4, <2>1, <2>2 DEF Decision, AnswerBegin, BatchBegin, AnswerAdopt, AnswerCount, AnswerDies
<1>5. CASE RunClose
  <2>1. run.event # 0 /\ run.event \in Ids
    BY <1>5, RunTypes, BoundsAssumption DEF RunClose, NotHeldClosing
  <2>2. events'[run.event].resolution # "PENDING"
    BY <2>1 DEF Pending
  <2> QED BY <1>5, <2>1, <2>2 DEF RunClose, RunTo, Counting, TypeOK, Runs
<1>6. CASE RunMark
  BY <1>6 DEF RunMark, RunTo, Counting, TypeOK, Runs
<1>7. CASE RunRelease
  BY <1>7, Released DEF RunRelease
<1>8. CASE RunFinal
  BY <1>1, <1>8 DEF RunFinal, MoveIfLegal
<1>9. CASE Apply \/ Revert
  BY <1>9 DEF Apply, Revert
<1> QED BY <1>1, <1>2, <1>3, <1>4, <1>5, <1>6, <1>7, <1>8, <1>9
      DEF Next, vars, Merchant, Edit, Expire, Sync, Webhook, Take, Find, HoldLook, Mirror, HookDies,
          Run, PutBack, RunWrite, RunSettle, RunCount

LEMMA NotHeldClosingInductive == ASSUME Calm, TypeOK, NotHeldClosing, [Next]_vars PROVE NotHeldClosing'
<1> USE DEF campaign, shopify, mirror, queue, history, counts, Stays
<1> SUFFICES ASSUME run'.stage = "close", run'.event = 0 PROVE status' # "HELD"
  BY DEF NotHeldClosing
<1>1. CASE Run
  <2>1. CASE RunFinal
    BY <2>1 DEF RunFinal, RunTo, MoveIfLegal, TypeOK, Runs
  <2>2. CASE RunSettle
    BY <2>2 DEF RunSettle, RunTo, TypeOK, Runs
  <2>3. CASE RunClose \/ RunMark \/ RunCount \/ RunRelease
    BY <2>3 DEF RunClose, RunMark, RunCount, RunRelease, RunTo, TypeOK, Runs
  <2>4. CASE Apply \/ Revert \/ \E e \in Ids : PutBack(e)
    BY <2>4, RunBegins
  <2>5. ASSUME NEW v \in Variants, RunWrite(v) PROVE FALSE
    BY <2>5, RunWrites
  <2> QED BY <1>1, <2>1, <2>2, <2>3, <2>4, <2>5 DEF Run
<1>2. CASE Hold
  <2>1. run' = run
    BY <1>2 DEF Hold
  <2>2. status # "HELD" /\ ~(run.stage = "close" /\ run.event = 0)
    BY <1>2, <2>1 DEF NotHeldClosing, Hold, Calm
  <2> QED BY <2>1, <2>2
<1>3. ASSUME NEW a \in Answerers, AnswerRelease(a) PROVE status' # "HELD"
  BY <1>3, Released DEF AnswerRelease
<1>4. CASE UNCHANGED <<run, status>>
  BY <1>4 DEF NotHeldClosing
<1> QED BY <1>1, <1>2, <1>3, <1>4
      DEF Next, vars, Merchant, Edit, Expire, Sync, Webhook, Take, Find, Update, Create, HoldLook, Mirror, HookDies,
          Decision, AnswerBegin, BatchBegin, AnswerAdopt, AnswerClose, BatchClaim, AnswerCount, AnswerDies

LEMMA EarlyInductive == ASSUME TypeOK, Early, [Next]_vars PROVE Early'
<1> USE DEF campaign, shopify, mirror, queue, history, counts, Stays
<1> SUFFICES ASSUME wholes' = 0
             PROVE  /\ status' \in Running /\ ~ending' /\ run'.stage # "final"
                    /\ run'.stage \in {"write", "close"} => run'.event # 0
  BY DEF Early
<1>0. wholes \in Nat
  BY DEF TypeOK
<1>1. ~Apply /\ ~Revert
  BY <1>0 DEF Apply, Revert
<1>2. ASSUME NEW e \in Ids, PutBack(e)
      PROVE  /\ status' \in Running /\ ~ending' /\ run'.stage # "final"
             /\ run'.stage \in {"write", "close"} => run'.event # 0
  BY <1>2 DEF PutBack, Planned, NoRun, Early
<1>3. ASSUME NEW v \in Variants, RunWrite(v)
      PROVE  /\ status' \in Running /\ ~ending' /\ run'.stage # "final"
             /\ run'.stage \in {"write", "close"} => run'.event # 0
  BY <1>3, RunWrites DEF Early
<1>4. CASE RunSettle \/ RunFinal \/ RunClose \/ RunMark \/ RunCount \/ RunRelease
  <2>1. wholes' = wholes /\ run'.event = run.event
    BY <1>4, RunSteps
  <2>2. ~RunFinal
    BY <2>1 DEF RunFinal, Early
  <2>3. status' \in Running /\ ~ending'
    BY <1>4, <2>1, <2>2, Released DEF Early, RunSettle, RunClose, RunMark, RunCount, RunRelease
  <2>4. run'.stage # "final" /\ (run'.stage \in {"write", "close"} => run.event # 0)
    BY <1>4, <2>1, <2>2 DEF Early, RunSettle, RunClose, RunMark, RunCount, RunRelease, RunTo, TypeOK, Runs
  <2> QED BY <2>1, <2>3, <2>4
<1>5. ASSUME NEW a \in Answerers, Decision(a)
      PROVE  /\ status' \in Running /\ ~ending' /\ run' = run /\ wholes' = wholes
  <2>1. wholes' = wholes /\ run' = run /\ ending' = ending
    BY <1>5 DEF Decision, AnswerBegin, BatchBegin, AnswerAdopt, AnswerClose, BatchClaim, AnswerCount, AnswerRelease, AnswerDies
  <2>2. status' \in Running
    BY <1>5, <2>1, Released DEF Early, Decision, AnswerBegin, BatchBegin, AnswerAdopt, AnswerClose, BatchClaim, AnswerCount,
       AnswerRelease, AnswerDies
  <2> QED BY <2>1, <2>2 DEF Early
<1>6. CASE Hold
  BY <1>6 DEF Hold, MoveIfLegal, Early
<1>7. CASE UNCHANGED <<status, ending, run, wholes>>
  BY <1>7 DEF Early
<1> QED BY <1>1, <1>2, <1>3, <1>4, <1>5, <1>6, <1>7
      DEF Next, vars, Merchant, Edit, Expire, Sync, Webhook, Take, Find, Update, Create, HoldLook, Mirror, HookDies, Run, Early

(* Nobody releases a campaign with an open event. *)
LEMMA ReleasingFrom ==
  ASSUME TypeOK, [Next]_vars, Releasing', ~Releasing
  PROVE  Pending = {} /\ UNCHANGED <<hook, events, again, wholes, status>>
<1> USE DEF campaign, shopify, mirror, queue, history, counts, Stays
<1>1. CASE RunCount
  BY <1>1 DEF RunCount, RunTo, ReleasesFrom, Releasing, TypeOK, Runs
<1>2. ASSUME NEW a \in Answerers, AnswerCount(a)
      PROVE  Pending = {} /\ UNCHANGED <<hook, events, again, wholes, status>>
  BY <1>2 DEF AnswerCount, Doing, ReleasesFrom, Releasing, TypeOK, Answers
<1>3. ASSUME NEW a \in Answerers, Decision(a) PROVE AnswerCount(a)
  <2>1. run' = run
    BY <1>3 DEF Decision, AnswerBegin, BatchBegin, AnswerAdopt, AnswerClose, BatchClaim, AnswerCount, AnswerRelease, AnswerDies
  <2>2. PICK b \in Answerers : answer'[b].stage = "release" /\ answer[b].stage # "release"
    BY <2>1 DEF Releasing
  <2>3. \A c \in Answerers : c # a => answer'[c] = answer[c]
    BY <1>3 DEF Decision, AnswerBegin, BatchBegin, AnswerAdopt, AnswerClose, BatchClaim, AnswerCount, AnswerRelease, AnswerDies,
                Doing, TypeOK
  <2>4. answer'[a].stage = "release"
    BY <2>2, <2>3
  <2>5. ASSUME NEW e \in Ids, NEW to, AnswerBegin(a, e, to) PROVE FALSE
    BY <2>4, <2>5 DEF AnswerBegin, TypeOK
  <2>6. ASSUME NEW to, BatchBegin(a, to) PROVE FALSE
    BY <2>4, <2>6 DEF BatchBegin, TypeOK
  <2>7. ~(AnswerAdopt(a) \/ AnswerClose(a) \/ BatchClaim(a) \/ AnswerRelease(a) \/ AnswerDies(a))
    BY <2>4 DEF AnswerAdopt, AnswerClose, BatchClaim, AnswerRelease, AnswerDies, Doing, TypeOK, Answers
  <2> QED BY <1>3, <2>5, <2>6, <2>7 DEF Decision
<1>4. CASE Run
  <2>1. answer' = answer
    BY <1>4 DEF Run, PutBack, Apply, Revert, RunWrite, RunSettle, RunFinal, RunClose, RunMark, RunCount, RunRelease
  <2>2. run'.stage = "release" /\ run.stage # "release"
    BY <2>1 DEF Releasing
  <2>3. ~(Apply \/ Revert \/ \E e \in Ids : PutBack(e))
    BY <2>2, RunBegins
  <2>4. ~\E v \in Variants : RunWrite(v)
    BY <2>2, RunWrites
  <2>5. RunCount
    BY <1>4, <2>2, <2>3, <2>4 DEF Run, RunSettle, RunFinal, RunClose, RunMark, RunRelease, RunTo, TypeOK, Runs
  <2> QED BY <1>1, <2>5
<1>5. CASE UNCHANGED <<run, answer>>
  BY <1>5 DEF Releasing
<1> QED BY <1>2, <1>3, <1>4, <1>5
      DEF Next, vars, Merchant, Edit, Expire, Sync, Webhook, Take, Find, Update, Create, HoldLook, Hold, Mirror, HookDies

LEMMA HoldingAloneInductive ==
  ASSUME "release" \notin Weak, TypeOK, Redoing, HoldingAlone, [Next]_vars PROVE HoldingAlone'
<1> USE DEF campaign, shopify, mirror, queue, history, counts, Stays
<1> SUFFICES ASSUME hook'.stage = "holding", Releasing' PROVE FALSE
  BY DEF HoldingAlone
<1>1. CASE ~Releasing
  <2>1. Pending = {} /\ hook' = hook
    BY <1>1, ReleasingFrom
  <2> QED BY <2>1 DEF Redoing, Recorded, HasEvent
<1>2. CASE Releasing
  <2>1. hook.stage # "holding" /\ hook' # hook
    BY <1>2 DEF HoldingAlone
  <2>2. ~HoldLook
    BY <1>2 DEF HoldLook, NotReleasing, Releasing
  <2>3. ~(Find \/ Update \/ Create \/ Hold \/ Mirror \/ HookDies)
    BY <2>1 DEF Find, Update, Create, Hold, Mirror, HookDies, PutBackDelivery, HookTo, AtHook, TypeOK, Hooks
  <2>4. ASSUME NEW v \in Variants, NEW read \in sent[v], Take(v, read) PROVE FALSE
    BY <2>4 DEF Take
  <2> QED BY <2>1, <2>2, <2>3, <2>4
        DEF Next, vars, Merchant, Edit, Expire, Sync, Webhook, Sold,
            Decision, AnswerBegin, BatchBegin, AnswerAdopt, AnswerClose, BatchClaim, AnswerCount, AnswerRelease, AnswerDies,
            Run, PutBack, Apply, Revert, RunWrite, RunSettle, RunFinal, RunClose, RunMark, RunCount, RunRelease
<1> QED BY <1>1, <1>2

(* Until a whole run begins, the campaign is moved by a hold and by a release alone. *)
LEMMA EarlyMoves ==
  ASSUME TypeOK, Early, [Next]_vars, wholes' = 0
  PROVE  /\ wholes = 0
         /\ status' = status \/ (Hold /\ status' = "HELD") \/ Releasing
<1> USE DEF campaign, shopify, mirror, queue, history, counts, Stays
<1>0. wholes \in Nat
  BY DEF TypeOK
<1>1. ~Apply /\ ~Revert
  BY <1>0 DEF Apply, Revert
<1>2. wholes = 0
  BY <1>1 DEF Next, vars, Merchant, Edit, Expire, Sync, Webhook, Take, Find, Update, Create, HoldLook, Hold, Mirror, HookDies,
          Decision, AnswerBegin, BatchBegin, AnswerAdopt, AnswerClose, BatchClaim, AnswerCount, AnswerRelease, AnswerDies,
          Run, PutBack, RunWrite, RunSettle, RunFinal, RunClose, RunMark, RunCount, RunRelease
<1>3. ~RunFinal
  BY <1>2 DEF RunFinal, Early
<1>4. Hold => status' = "HELD"
  BY <1>2 DEF Early, Hold, MoveIfLegal, MayMove, Legal
<1>5. RunRelease \/ (\E a \in Answerers : AnswerRelease(a)) => Releasing
  BY DEF RunRelease, AnswerRelease, Releasing
<1> QED BY <1>1, <1>2, <1>3, <1>4, <1>5
      DEF Next, vars, Merchant, Edit, Expire, Sync, Webhook, Take, Find, Update, Create, HoldLook, Mirror, HookDies,
          Decision, AnswerBegin, BatchBegin, AnswerAdopt, AnswerClose, BatchClaim, AnswerCount, AnswerDies,
          Run, PutBack, RunWrite, RunSettle, RunClose, RunMark, RunCount

(* An event about to hold the campaign goes on to do so, until it does or is resolved. *)
LEMMA DueStays ==
  ASSUME Calm, TypeOK, Hands, Redoing, Early, [Next]_vars, wholes' = 0, NEW e \in Pending, DueToHold(e)
  PROVE  DueToHold(e)' \/ Hold \/ (HoldLook /\ status = "HELD")
<1> USE DEF campaign, shopify, mirror, queue, history, counts, Stays
<1>0. e \in Ids /\ e # made + 1
  BY DEF Hands, Unmade, Pending, TypeOK
<1>1. PICK v : v = events[e].variant
  OBVIOUS
<1>2. events'[e].variant = v
  BY <1>0, <1>1, EventsKeep
<1>3. v \in Variants
  BY <1>0, <1>1 DEF TypeOK, Events
<1>4. CASE UNCHANGED <<hook, again>>
  BY <1>1, <1>2, <1>4 DEF DueToHold, InHook
<1>5. ASSUME NEW w \in Variants, NEW read \in sent[w], Take(w, read) PROVE DueToHold(e)'
  <2>1. v \in again /\ hook.stage = "none"
    BY <1>1, <1>5 DEF Take, AtHook, DueToHold
  <2>2. CASE w = v
    <3>1. PICK d \in sent[v] : sent[v] = {d} /\ Fresh(v, d) /\ d.price \notin intents[v]
      BY <2>1 DEF Redoing, Redone, InHook
    <3>2. d = read /\ read.change \in Nat /\ seen[v] \in Nat
      BY <1>3, <2>2, <3>1, SentTypes DEF TypeOK
    <3>3. hook'.stage = "find"
      BY <1>5, <2>2, <3>1, <3>2 DEF Take, Fresh, IsOurEcho
    <3>4. v \in again'
      BY <1>5, <2>1, <3>3 DEF Take
    <3> QED BY <1>2, <3>3, <3>4 DEF DueToHold
  <2>3. CASE w # v
    <3>1. hook'.variant = w /\ v \in again'
      BY <1>5, <2>1, <2>3 DEF Take
    <3> QED BY <1>2, <2>3, <3>1 DEF DueToHold, InHook
  <2> QED BY <2>2, <2>3
<1>6. CASE Find
  <2>1. v \in again /\ again' = again /\ hook'.variant = hook.variant
    BY <1>1, <1>6, HookSteps DEF Find, AtHook, DueToHold
  <2>2. CASE hook.variant # v
    BY <1>2, <2>1, <2>2 DEF DueToHold, InHook
  <2>3. CASE hook.variant = v
    <3>1. Controls /\ e \in PendingOf(v)
      BY <1>1, EarlyMoves DEF Early, Controls, PendingOf
    <3>2. PICK f \in PendingOf(v) : hook' = [hook EXCEPT !.stage = "update", !.event = f]
      BY <1>6, <2>3, <3>1 DEF Find
    <3>3. f = e
      BY <1>1, <3>2 DEF PendingOf, Hands, OneOpen
    <3>4. hook'.stage = "update" /\ hook'.event = e
      BY <3>2, <3>3 DEF TypeOK, Hooks
    <3> QED BY <1>2, <2>1, <3>4 DEF DueToHold
  <2> QED BY <2>2, <2>3
<1>7. CASE Update
  <2>1. again' = again /\ hook'.variant = hook.variant /\ hook'.event = hook.event /\ hook'.stage = "hold" /\ hook.stage = "update"
    BY <1>7 DEF Update, AtHook, HookTo, TypeOK, Hooks
  <2> QED BY <1>1, <1>2, <2>1 DEF DueToHold, InHook
<1>8. CASE Create \/ Mirror
  <2>1. hook.stage \in {"create", "mirror"} /\ again \ {hook.variant} \subseteq again' /\ hook'.variant = hook.variant
    BY <1>8, HookSteps DEF Create, Mirror, AtHook
  <2>2. v \in again /\ hook.variant # v
    BY <1>1, <2>1 DEF DueToHold, InHook
  <2> QED BY <1>2, <2>1, <2>2 DEF DueToHold, InHook
<1>9. CASE HoldLook
  <2>1. again' = again /\ hook'.variant = hook.variant /\ hook'.event = hook.event /\ hook.stage = "hold"
        /\ hook'.stage = IF status \in {"ACTIVE", "PARTIAL"} THEN "holding" ELSE "mirror"
    BY <1>9 DEF HoldLook, AtHook, HookTo, TypeOK, Hooks
  <2>2. CASE status = "HELD"
    BY <1>9, <2>2
  <2>3. CASE status # "HELD"
    <3>1. hook'.stage = "holding"
      BY <2>1, <2>3, EarlyMoves DEF Early
    <3> QED BY <1>1, <1>2, <2>1, <3>1 DEF DueToHold, InHook
  <2> QED BY <2>2, <2>3
<1>10. CASE HookDies
  <2>1. hook'.stage = "none" /\ (HasRecorded => hook.variant \in again') /\ again \subseteq again'
    BY <1>10 DEF HookDies, PutBackDelivery, HookTo, TypeOK, Hooks
  <2>2. v \in again'
    <3>1. CASE v \in again
      BY <2>1, <3>1
    <3>2. CASE hook.stage \in {"hold", "holding"} /\ hook.event = e
      BY <1>1, <2>1, <3>2 DEF HasRecorded, Redoing, Recorded, HasEvent
    <3> QED BY <1>1, <3>1, <3>2 DEF DueToHold
  <2> QED BY <1>2, <2>1, <2>2 DEF DueToHold, InHook
<1> QED BY <1>4, <1>5, <1>6, <1>7, <1>8, <1>9, <1>10
      DEF Next, vars, Merchant, Edit, Expire, Sync, Webhook, Sold,
          Decision, AnswerBegin, BatchBegin, AnswerAdopt, AnswerClose, BatchClaim, AnswerCount, AnswerRelease, AnswerDies,
          Run, PutBack, Apply, Revert, RunWrite, RunSettle, RunFinal, RunClose, RunMark, RunCount, RunRelease

(* And so does one just made. *)
LEMMA CreatedIsDue ==
  ASSUME TypeOK, Hands, [Next]_vars, NEW e \in Pending', e \notin Pending PROVE DueToHold(e)'
<1>1. Create /\ e = made + 1
  BY PendingFrom
<1> QED BY <1>1 DEF Create, DueToHold, TypeOK, Hooks

LEMMA DueInductive ==
  ASSUME Calm, TypeOK, Hands, Redoing, Early, Due, DueAfter, [Next]_vars PROVE Due'
<1> SUFFICES ASSUME wholes' = 0, NEW e \in Pending', status' # "HELD" PROVE DueToHold(e)'
  BY DEF Due
<1>0. wholes = 0 /\ (status' = status \/ Releasing) /\ ~Hold
  BY EarlyMoves DEF Early, Hold, MoveIfLegal, MayMove, Legal
<1>1. CASE e \notin Pending
  BY <1>1, CreatedIsDue
<1>2. CASE e \in Pending
  <2>1. DueToHold(e)
    BY <1>0, <1>2 DEF Due, DueAfter
  <2>2. ~(HoldLook /\ status = "HELD")
    BY DEF HoldLook, campaign
  <2> QED BY <1>0, <1>2, <2>1, <2>2, DueStays
<1> QED BY <1>1, <1>2

LEMMA DueAfterInductive ==
  ASSUME Calm, "release" \notin Weak, TypeOK, Hands, Redoing, Early, HoldingAlone, DueAfter, [Next]_vars PROVE DueAfter'
<1> SUFFICES ASSUME wholes' = 0, Releasing', NEW e \in Pending' PROVE DueToHold(e)'
  BY DEF DueAfter
<1>1. CASE e \notin Pending
  BY <1>1, CreatedIsDue
<1>2. CASE e \in Pending
  <2>1. Releasing
    BY <1>2, ReleasingFrom
  <2>2. DueToHold(e)
    BY <1>2, <2>1, EarlyMoves DEF DueAfter
  <2>3. ~Hold /\ ~HoldLook
    BY <2>1 DEF Hold, HoldLook, AtHook, HoldingAlone, NotReleasing, Releasing
  <2> QED BY <1>2, <2>2, <2>3, DueStays
<1> QED BY <1>1, <1>2

LEMMA QuestionsInductive ==
  ASSUME Weak \subseteq {"late"}, TypeOK, Hands, Redoing, Questions, [Next]_vars PROVE Questions'
<1>1. Calm /\ "release" \notin Weak
  BY DEF Calm
<1> QED BY <1>1, CountedInductive, NotHeldClosingInductive, HoldingAloneInductive, EarlyInductive, DueInductive, DueAfterInductive
       DEF Questions

LEMMA QuestionsAreEnough == ASSUME TypeOK, Redoing, Questions PROVE HoldIsAQuestion
<1> SUFFICES ASSUME Quiet
             PROVE  /\ status = "HELD" => Pending # {}
                    /\ (wholes = 0 /\ Pending # {}) => status = "HELD"
  BY DEF HoldIsAQuestion
<1>1. ~Counting /\ hook.stage = "none"
  BY DEF Quiet, Counting
<1>2. again = {}
  BY <1>1 DEF Redoing, Redone, InHook, Quiet, TypeOK
<1>3. \A e : ~DueToHold(e)
  BY <1>1, <1>2 DEF DueToHold
<1> QED BY <1>1, <1>3 DEF Questions, Counted, Due

(* With its gaps closed, a held campaign waits for an answer, and is held by it: for any number
   of variants, edits, runs, decisions and deaths, once everything is handled a held
   campaign has an open event, and until a whole run has moved it, a
   campaign with an open event is held. *)
THEOREM HoldIsAQuestionHolds == ASSUME Weak \subseteq {"late"} PROVE Spec => []HoldIsAQuestion
<1> DEFINE Inv == Hands /\ Delivered /\ Redoing /\ Questions
<1>1. Init => Inv
  BY HandsInit, DeliveredInit, RedoingInit, QuestionsInit
<1>2. TypeOK /\ Inv /\ [Next]_vars => Inv'
  <2>1. NoGap /\ "close" \notin Weak /\ Calm
    BY DEF Calm, NoGap
  <2> QED BY <2>1, HandsInductive, DeliveredInductive, RedoingInductive, QuestionsInductive
<1>3. TypeOK /\ Inv => HoldIsAQuestion
  BY QuestionsAreEnough
<1> HIDE DEF Inv
<1> QED BY <1>1, <1>2, <1>3, TypeCorrect, PTL DEF Spec
=============================================================================
