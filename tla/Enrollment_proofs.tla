------------------------- MODULE Enrollment_proofs -------------------------
(* Proofs about Enrollment: types, that nothing that joins a running sale is
   forgotten beyond what `missed` says, and that no variant goes on sale once a
   revert has begun. *)
EXTENDS Enrollment, TLAPS

USE DEF Running, Claims, States, Kinds, Page, Stages

Steps  == {"idle", "claimed", "looked", "writing"}
Wholes == [by : Workers \cup {Page}, kind : Kinds, stage : Steps, from : States \ Claims, left : SUBSET Variants]
Drains == [stage : Stages, hand : SUBSET Variants]

LEMMA TypeInit == Init => TypeOK
<1> SUFFICES ASSUME Init PROVE TypeOK
  OBVIOUS
<1>1. NoRun \in Wholes
  BY DEF NoRun, Wholes, Steps
<1>2. Idle \in Drains
  BY DEF Idle, Drains
<1>3. edits \in 0 .. MaxEdits /\ presses \in 0 .. MaxPresses /\ troubles \in 0 .. MaxTroubles
  BY BoundsAssumption DEF Init
<1> QED BY <1>1, <1>2, <1>3 DEF Init, TypeOK, Wholes, Drains, Steps

(* What putting a worker's drain somewhere keeps. *)
LEMMA PutTyped ==
  ASSUME TypeOK, NEW w \in Workers, NEW s \in Stages, NEW h \in SUBSET Variants, Put(w, s, h)
  PROVE  drain' \in [Workers -> Drains]
<1>1. [stage |-> s, hand |-> h] \in Drains
  BY DEF Drains
<1> QED BY <1>1 DEF Put, TypeOK, Drains

LEMMA LetGoTyped ==
  ASSUME TypeOK, NEW vs \in SUBSET Variants, LetGo(vs) PROVE missed' \subseteq Variants
  BY DEF LetGo, TypeOK

LEMMA TroubleTyped == ASSUME TypeOK, Trouble PROVE troubles' \in 0 .. MaxTroubles
  BY BoundsAssumption DEF Trouble, TypeOK

(* The webhook's steps. *)
Hooking == \E v \in Variants : Deliver(v) \/ Decide(v) \/ Mark(v) \/ HookFails(v) \/ \E in \in BOOLEAN : Edit(v, in)

LEMMA TypeHook == TypeOK /\ Hooking => TypeOK'
<1> SUFFICES ASSUME TypeOK, NEW v \in Variants,
                    Deliver(v) \/ Decide(v) \/ Mark(v) \/ HookFails(v) \/ \E in \in BOOLEAN : Edit(v, in)
             PROVE  TypeOK'
  BY DEF Hooking
<1>1. ASSUME NEW in \in BOOLEAN, Edit(v, in) PROVE TypeOK'
  BY <1>1, BoundsAssumption DEF Edit, TypeOK, prices, runs
<1>2. CASE Deliver(v)
  BY <1>2 DEF Deliver, TypeOK, prices, runs
<1>3. CASE Decide(v)
  <2>1. missed' \subseteq Variants
    BY <1>3, LetGoTyped DEF Decide, TypeOK
  <2> QED BY <1>3, <2>1 DEF Decide, TypeOK, prices, runs
<1>4. CASE Mark(v)
  BY <1>4 DEF Mark, Append, TypeOK, prices, runs
<1>5. CASE HookFails(v)
  <2>1. missed' \subseteq Variants /\ troubles' \in 0 .. MaxTroubles
    BY <1>5, LetGoTyped, TroubleTyped DEF HookFails
  <2> QED BY <1>5, <2>1 DEF HookFails, TypeOK, prices, runs
<1> QED BY <1>1, <1>2, <1>3, <1>4, <1>5

(* The whole runs' steps. *)
Wholly == (\E kind \in Kinds, by \in Workers \cup {Page} : Press(by, kind)) \/ WholeStep \/ Refuse \/ StopPartWay

LEMMA GiveBackTyped == ASSUME TypeOK, GiveBack, troubles' \in 0 .. MaxTroubles PROVE TypeOK'
<1>1. NoRun \in Wholes
  BY DEF NoRun, Wholes, Steps
<1>2. whole.from \in States
  BY DEF TypeOK
<1> QED BY <1>1, <1>2 DEF GiveBack, TypeOK, Wholes, Steps, hooks, prices

LEMMA TypeWhole == TypeOK /\ Wholly => TypeOK'
<1> SUFFICES ASSUME TypeOK, Wholly PROVE TypeOK'
  OBVIOUS
<1>0. NoRun \in Wholes
  BY DEF NoRun, Wholes, Steps
<1>1. ASSUME NEW kind \in Kinds, NEW by \in Workers \cup {Page}, Press(by, kind) PROVE TypeOK'
  <2>1. status \in States \ Claims
    BY <1>1 DEF Press, Lawful
  <2>2. whole' \in Wholes
    BY <1>1, <2>1 DEF Press, Wholes, Steps
  <2> QED BY <1>1, <2>2, BoundsAssumption DEF Press, ClaimOf, TypeOK, Wholes, Steps, hooks, prices
<1>2. CASE StandDown
  BY <1>2, GiveBackTyped DEF StandDown, TypeOK
<1>3. CASE LookForScoped
  BY <1>3 DEF LookForScoped, TypeOK, hooks, prices
<1>4. CASE BeginApply
  BY <1>4 DEF BeginApply, TypeOK, hooks
<1>5. CASE BeginRevert
  BY <1>5 DEF BeginRevert, TypeOK, hooks
<1>6. ASSUME NEW v \in Variants, WriteWhole(v) PROVE TypeOK'
  BY <1>6 DEF WriteWhole, TypeOK
<1>7. CASE Finish
  <2>1. [Idle EXCEPT !.stage = "tail"] \in Drains
    BY DEF Idle, Drains
  <2>2. drain' \in [Workers -> Drains]
    BY <1>7, <2>1 DEF Finish, TypeOK, Drains
  <2> QED BY <1>0, <1>7, <2>2 DEF Finish, TypeOK, Wholes, Steps, Drains, hooks, prices
<1>8. CASE Refuse
  BY <1>8, GiveBackTyped, TroubleTyped DEF Refuse
<1>9. CASE StopPartWay
  BY <1>0, <1>9, TroubleTyped DEF StopPartWay, PartWay, TypeOK, Wholes, Steps, hooks, prices
<1> QED BY <1>1, <1>2, <1>3, <1>4, <1>5, <1>6, <1>7, <1>8, <1>9 DEF Wholly, WholeStep

LEMMA TypeDrain == ASSUME TypeOK, NEW w \in Workers, DrainStep(w) \/ Throw(w) PROVE TypeOK'
<1> USE DEF prices, runs, hooks
<1>0. drain[w].hand \in SUBSET Variants /\ {} \in SUBSET Variants
  BY DEF TypeOK
<1>1. CASE List(w)
  <2>1. drain' \in [Workers -> Drains]
    BY <1>0, <1>1, PutTyped DEF List
  <2> QED BY <1>1, <2>1 DEF List, TypeOK, Drains
<1>2. CASE Check(w)
  <2>1. drain' \in [Workers -> Drains]
    BY <1>0, <1>2, PutTyped DEF Check
  <2> QED BY <1>2, <2>1 DEF Check, TypeOK, Drains
<1>3. CASE Drop(w)
  <2>1. drain' \in [Workers -> Drains] /\ missed' \subseteq Variants
    BY <1>0, <1>3, PutTyped, LetGoTyped DEF Drop, TypeOK
  <2> QED BY <1>3, <2>1 DEF Drop, TypeOK, Drains
<1>4. CASE Client(w)
  <2>1. drain' \in [Workers -> Drains]
    BY <1>0, <1>4, PutTyped DEF Client
  <2>2. troubles' \in 0 .. MaxTroubles /\ marks' = marks
    BY <1>4, TroubleTyped DEF Client, NoClientKeeps, TypeOK
  <2> QED BY <1>4, <2>1, <2>2 DEF Client, TypeOK, Drains
<1>5. CASE ClaimEnrollment(w)
  <2>1. drain' \in [Workers -> Drains]
    BY <1>0, <1>5, PutTyped DEF ClaimEnrollment, TypeOK
  <2> QED BY <1>5, <2>1 DEF ClaimEnrollment, TypeOK, Drains
<1>6. CASE BeginScoped(w)
  <2>1. drain' \in [Workers -> Drains]
    BY <1>0, <1>6, PutTyped DEF BeginScoped
  <2> QED BY <1>6, <2>1 DEF BeginScoped, TypeOK, Drains
<1>7. CASE LookForHolder(w)
  <2>1. drain' \in [Workers -> Drains]
    BY <1>0, <1>7, PutTyped DEF LookForHolder
  <2>2. missed' \subseteq Variants /\ rows' \subseteq Variants
    BY <1>0, <1>7, LetGoTyped DEF LookForHolder, TypeOK
  <2> QED BY <1>7, <2>1, <2>2 DEF LookForHolder, TypeOK, Drains
<1>8. ASSUME NEW v \in Variants, WriteScoped(w, v) PROVE TypeOK'
  <2>1. drain' \in [Workers -> Drains]
    BY <1>0, <1>8, PutTyped DEF WriteScoped
  <2> QED BY <1>8, <2>1 DEF WriteScoped, TypeOK, Drains
<1>9. CASE EndScoped(w)
  <2>1. drain' \in [Workers -> Drains] /\ troubles' \in 0 .. MaxTroubles
    BY <1>0, <1>9, PutTyped, TroubleTyped DEF EndScoped, TypeOK
  <2> QED BY <1>9, <2>1 DEF EndScoped, TypeOK, Drains
<1>10. CASE Throw(w)
  <2>1. drain' \in [Workers -> Drains] /\ missed' \subseteq Variants /\ troubles' \in 0 .. MaxTroubles
    BY <1>0, <1>10, PutTyped, LetGoTyped, TroubleTyped DEF Throw
  <2> QED BY <1>10, <2>1 DEF Throw, TypeOK, Drains
<1> QED BY <1>1, <1>2, <1>3, <1>4, <1>5, <1>6, <1>7, <1>8, <1>9, <1>10 DEF DrainStep

LEMMA Split == Next <=> Hooking \/ Wholly \/ \E w \in Workers : DrainStep(w) \/ Throw(w)
  BY DEF Next, Hooking, Wholly

(* Every variable keeps its type. *)
THEOREM TypeCorrect == Spec => []TypeOK
<1>1. TypeOK /\ UNCHANGED vars => TypeOK'
  BY DEF vars, TypeOK
<1>2. TypeOK /\ [Next]_vars => TypeOK'
  BY <1>1, TypeHook, TypeWhole, TypeDrain, Split
<1> QED BY <1>2, TypeInit, PTL DEF Spec

-----------------------------------------------------------------------------
(* The invariant.  A drain has variants in hand only from its claim on, and a
   tick that runs a whole run is in no drain; a campaign's status is a claim exactly while a whole run has it, and says
   whether that run has a row yet; a scoped run that writes has its rows and no
   whole run beside it: whichever of the two looks second sees the other. *)
Alone == \A w \in Workers :
    drain[w].stage \in {"idle", "tail", "listed", "ranlisted", "dropping", "checked", "ready"} => drain[w].hand = {}

Bound ==
    /\ whole.stage = "idle" <=> status \notin Claims
    /\ whole.stage = "writing" => latest = whole.kind
    /\ latest = "APPLY" => /\ status \in Running \cup Claims
                           /\ whole.stage \in {"claimed", "looked"} => whole.from \in Running
    /\ latest = "none" => /\ status \notin Running
                          /\ whole.stage # "idle" => whole.from \notin Running

OneWriter == \A w \in Workers :
    drain[w].stage = "writing" => whole.stage \notin {"looked", "writing"} /\ drain[w].hand \subseteq rows

Remembered == latest = "APPLY" => \A v \in scope : v \in onSale \cup rows \cup missed \/ InHand(v)

Ticking == whole.stage # "idle" /\ whole.by \in Workers => drain[whole.by].stage = "idle"

Steady == TypeOK /\ Alone /\ Ticking /\ Bound /\ OneWriter

LEMMA SteadyInit == Init => Alone /\ Ticking /\ Bound /\ OneWriter /\ Remembered
  BY DEF Init, Alone, Ticking, Bound, OneWriter, Remembered, Idle, NoRun

(* A webhook's step leaves the drains, the runs and the ledger alone. *)
LEMMA HookSteady == Hooking => UNCHANGED <<status, latest, whole, rows, drain, onSale>>
  BY DEF Hooking, Deliver, Decide, Mark, HookFails, Edit, prices, runs

LEMMA WholeSteady == ASSUME Steady, Wholly PROVE Alone' /\ Ticking' /\ Bound' /\ OneWriter'
<1>0. ASSUME GiveBack, whole.stage \in {"claimed", "looked"} PROVE Alone' /\ Ticking' /\ Bound' /\ OneWriter'
  BY <1>0 DEF GiveBack, NoRun, Steady, TypeOK, Alone, Ticking, Bound, OneWriter, prices
<1>1. ASSUME NEW kind \in Kinds, NEW by \in Workers \cup {Page}, Press(by, kind) PROVE Alone' /\ Ticking' /\ Bound' /\ OneWriter'
  BY <1>1 DEF Press, Lawful, ClaimOf, Steady, TypeOK, Alone, Ticking, Bound, OneWriter, prices
<1>2. CASE LookForScoped
  BY <1>2 DEF LookForScoped, ScopedRuns, Steady, TypeOK, Alone, Ticking, Bound, OneWriter, prices
<1>3. CASE BeginApply
  BY <1>3 DEF BeginApply, Steady, TypeOK, Alone, Ticking, Bound, OneWriter
<1>4. CASE BeginRevert
  BY <1>4 DEF BeginRevert, Steady, TypeOK, Alone, Ticking, Bound, OneWriter
<1>5. ASSUME NEW v \in Variants, WriteWhole(v) PROVE Alone' /\ Ticking' /\ Bound' /\ OneWriter'
  BY <1>5 DEF WriteWhole, Steady, TypeOK, Alone, Ticking, Bound, OneWriter
<1>6. CASE Finish
  <2>1. \A w \in Workers : drain'[w] = drain[w] \/ drain'[w] = [Idle EXCEPT !.stage = "tail"]
    BY <1>6 DEF Finish, Steady, TypeOK
  <2> QED BY <1>6, <2>1 DEF Finish, NoRun, Idle, Steady, TypeOK, Alone, Ticking, Bound, OneWriter, prices
<1>7. CASE StopPartWay
  BY <1>7 DEF StopPartWay, PartWay, NoRun, Steady, TypeOK, Alone, Ticking, Bound, OneWriter, prices
<1> QED BY <1>0, <1>1, <1>2, <1>3, <1>4, <1>5, <1>6, <1>7 DEF Wholly, WholeStep, StandDown, Refuse

(* One worker's drain moves, and the others stay. *)
LEMMA PutMoves ==
  ASSUME TypeOK, NEW w \in Workers, NEW s, NEW h, Put(w, s, h)
  PROVE  /\ drain'[w] = [stage |-> s, hand |-> h]
         /\ \A x \in Workers \ {w} : drain'[x] = drain[x]
  BY DEF Put, TypeOK

LEMMA DrainSteady ==
  ASSUME Steady, NEW w \in Workers, DrainStep(w) \/ Throw(w) PROVE Alone' /\ Ticking' /\ Bound' /\ OneWriter'
<1>1. UNCHANGED <<status, latest, whole>> /\ rows \subseteq rows'
  BY DEF DrainStep, List, Check, Drop, Client, ClaimEnrollment, BeginScoped, LookForHolder, EndScoped,
         WriteScoped, Throw, prices, runs
<1>2. \A x \in Workers \ {w} : drain'[x] = drain[x]
  BY PutMoves DEF Steady, DrainStep, List, Check, Drop, Client, ClaimEnrollment, BeginScoped, LookForHolder,
                  EndScoped, WriteScoped, Throw
<1> DEFINE Moved == /\ drain'[w].stage \in {"idle", "listed", "ranlisted", "dropping", "checked", "ready"} => drain'[w].hand = {}
                    /\ drain'[w].stage # "tail"
                    /\ drain'[w].stage = "writing" => /\ whole.stage \notin {"looked", "writing"}
                                                      /\ drain'[w].hand \subseteq rows'
                    /\ whole.stage # "idle" => whole.by # w
<1>3. Moved
  <2>0. ASSUME NEW s, NEW h, Put(w, s, h) PROVE drain'[w].stage = s /\ drain'[w].hand = h
    BY <2>0 DEF Put, Steady, TypeOK
  <2>1. drain[w].stage # "idle" /\ whole.stage # "idle" => whole.by # w
    BY DEF Steady, Ticking
  <2>2. CASE List(w)
    BY <2>0, <2>1, <2>2 DEF List
  <2>3. CASE Check(w)
    BY <2>0, <2>1, <2>3 DEF Check
  <2>4. CASE Drop(w) \/ Client(w) \/ EndScoped(w) \/ Throw(w)
    BY <2>0, <2>1, <2>4 DEF Drop, Client, EndScoped, Throw
  <2>5. CASE ClaimEnrollment(w) \/ BeginScoped(w)
    BY <2>0, <2>1, <2>5 DEF ClaimEnrollment, BeginScoped
  <2>6. CASE LookForHolder(w)
    <3>1. status \notin Claims => whole.stage = "idle"
      BY DEF Steady, Bound
    <3> QED BY <2>0, <2>1, <2>6, <3>1 DEF LookForHolder
  <2>7. ASSUME NEW v \in Variants, WriteScoped(w, v) PROVE Moved
    BY <2>0, <2>1, <2>7 DEF WriteScoped, Steady, OneWriter
  <2> QED BY <2>2, <2>3, <2>4, <2>5, <2>6, <2>7 DEF DrainStep
<1>4. Alone'
  BY <1>2, <1>3 DEF Steady, Alone
<1>5. Bound'
  BY <1>1 DEF Steady, Bound
<1>6. OneWriter'
  BY <1>1, <1>2, <1>3 DEF Steady, OneWriter
<1>7. Ticking'
  BY <1>1, <1>2, <1>3 DEF Steady, Ticking
<1> QED BY <1>4, <1>5, <1>6, <1>7

THEOREM SteadyHolds == Spec => []Steady
<1>1. Init => Steady
  BY SteadyInit, TypeInit DEF Steady
<1>2. ASSUME Steady, TypeOK', [Next]_vars PROVE Steady'
  <2>1. CASE UNCHANGED vars
    BY <1>2, <2>1 DEF vars, Steady, Alone, Ticking, Bound, OneWriter
  <2>2. CASE Hooking
    BY <1>2, <2>2, HookSteady DEF Steady, Alone, Ticking, Bound, OneWriter
  <2>3. CASE Wholly
    BY <1>2, <2>3, WholeSteady DEF Steady
  <2>4. ASSUME NEW w \in Workers, DrainStep(w) \/ Throw(w) PROVE Steady'
    BY <1>2, <2>4, DrainSteady DEF Steady
  <2> QED BY <1>2, <2>1, <2>2, <2>3, <2>4, Split
<1> QED BY <1>1, <1>2, TypeCorrect, PTL DEF Spec

-----------------------------------------------------------------------------
(* What a step may not take from a variant that is remembered. *)
Known(v) == v \in onSale \cup rows \cup missed \/ InHand(v)

LEMMA LetGoRemembers ==
  ASSUME NEW vs, NEW v \in vs \cap scope, LetGo(vs), ~Ending
  PROVE  v \in missed' \/ v \in rows \cup onSale
  BY DEF LetGo

LEMMA LetGoGrows == ASSUME NEW vs, LetGo(vs) PROVE missed \subseteq missed'
  BY DEF LetGo

LEMMA HookRemembers == ASSUME Steady, Remembered, Hooking PROVE Remembered'
<1> SUFFICES ASSUME latest' = "APPLY", NEW v \in scope' PROVE Known(v)'
  BY DEF Remembered, Known
<1>1. UNCHANGED <<status, latest, whole, rows, drain, onSale>>
  BY HookSteady
<1>2. latest = "APPLY" /\ ~Ending /\ (v \in scope => Known(v)) /\ v \in Variants
  <2>1. scope' \subseteq Variants
    BY DEF Steady, TypeOK, Hooking, Deliver, Decide, Mark, HookFails, Edit
  <2> QED BY <1>1, <2>1 DEF Remembered, Known, Ending
<1>3. PICK x \in Variants : Deliver(x) \/ Decide(x) \/ Mark(x) \/ HookFails(x) \/ \E in \in BOOLEAN : Edit(x, in)
  BY DEF Hooking
<1>4. ASSUME NEW in \in BOOLEAN, Edit(x, in) PROVE Known(v)'
  BY <1>1, <1>2, <1>4 DEF Edit, Known, InHand
<1>5. CASE Deliver(x)
  BY <1>1, <1>2, <1>5 DEF Deliver, Known, InHand, Steady, TypeOK
<1>6. CASE Decide(x)
  <2>1. CASE v # x
    <3>1. missed \subseteq missed'
      BY <1>6, LetGoGrows DEF Decide
    <3> QED BY <1>1, <1>2, <1>6, <2>1, <3>1 DEF Decide, Known, InHand, Steady, TypeOK
  <2>2. CASE v = x /\ Joins(x)
    BY <1>1, <1>2, <1>6, <2>2 DEF Decide, Known, InHand, Steady, TypeOK
  <2>3. CASE v = x /\ ~Joins(x) /\ status \in Running
    BY <1>1, <1>2, <1>6, <2>3 DEF Decide, Joins, Known
  <2>4. CASE v = x /\ status \in Claims
    <3>1. LetGo({x}) /\ v \in {x} \cap scope
      BY <1>6, <2>4 DEF Decide
    <3> QED BY <1>1, <1>2, <3>1, LetGoRemembers DEF Known
  <2>5. status \in Running \cup Claims
    BY <1>2 DEF Steady, Bound
  <2> QED BY <2>1, <2>2, <2>3, <2>4, <2>5
<1>7. CASE Mark(x)
  BY <1>1, <1>2, <1>7 DEF Mark, Append, Known, InHand, Steady, TypeOK
<1>8. CASE HookFails(x)
  <2>1. missed \subseteq missed' /\ LetGo({x}) /\ scope' = scope
    BY <1>8, LetGoGrows DEF HookFails
  <2>2. CASE v = x
    BY <1>1, <1>2, <2>1, <2>2, LetGoRemembers DEF Known
  <2>3. CASE v # x
    BY <1>1, <1>2, <1>8, <2>1, <2>3 DEF HookFails, Known, InHand, Steady, TypeOK
  <2> QED BY <2>2, <2>3
<1> QED BY <1>3, <1>4, <1>5, <1>6, <1>7, <1>8

LEMMA WholeRemembers == ASSUME Steady, Remembered, Wholly PROVE Remembered'
<1> SUFFICES ASSUME latest' = "APPLY", NEW v \in scope' PROVE Known(v)'
  BY DEF Remembered, Known
<1>1. CASE BeginApply
  BY <1>1 DEF BeginApply, Known, hooks
<1>2. CASE BeginRevert
  BY <1>2 DEF BeginRevert
<1>3. ASSUME NEW x \in Variants, WriteWhole(x) PROVE Known(v)'
  <2>1. whole.kind = "APPLY" /\ latest = "APPLY"
    BY <1>3 DEF WriteWhole, Steady, Bound
  <2> QED BY <1>3, <2>1 DEF WriteWhole, Known, InHand, Remembered
<1>4. CASE Finish
  <2>1. ASSUME NEW w \in Workers, v \in drain[w].hand PROVE drain'[w] = drain[w]
    <3>1. drain[w].stage # "idle"
      BY <2>1 DEF Steady, Alone
    <3>2. whole.by # w
      BY <1>4, <3>1 DEF Finish, Steady, Ticking
    <3> QED BY <1>4, <3>2 DEF Finish, Steady, TypeOK
  <2> QED BY <1>4, <2>1 DEF Finish, Known, InHand, Remembered, hooks, prices
<1>5. CASE UNCHANGED <<latest, marks, drain, missed, hooks, prices>>
  BY <1>5 DEF Known, InHand, Remembered, hooks, prices
<1> QED BY <1>1, <1>2, <1>3, <1>4, <1>5
        DEF Wholly, WholeStep, Press, StandDown, LookForScoped, Refuse, StopPartWay, GiveBack

LEMMA DrainRemembers ==
  ASSUME Steady, Remembered, NEW w \in Workers, DrainStep(w) \/ Throw(w) PROVE Remembered'
<1> SUFFICES ASSUME latest' = "APPLY", NEW v \in scope' PROVE Known(v)'
  BY DEF Remembered, Known
<1>1. UNCHANGED <<status, latest, whole, scope, mail, hook>> /\ rows \subseteq rows' /\ onSale \subseteq onSale'
  BY DEF DrainStep, List, Check, Drop, Client, ClaimEnrollment, BeginScoped, LookForHolder, EndScoped,
         WriteScoped, Throw, hooks, prices, runs
<1>2. missed \subseteq missed'
  BY LetGoGrows DEF DrainStep, List, Check, Drop, Client, ClaimEnrollment, BeginScoped, LookForHolder, EndScoped,
                    WriteScoped, Throw
<1>3. latest = "APPLY" /\ ~Ending /\ v \in scope /\ Known(v) /\ v \in Variants
  BY <1>1 DEF Remembered, Known, Ending, Steady, TypeOK
<1>4. \A x \in Workers \ {w} : drain'[x] = drain[x]
  BY PutMoves DEF Steady, DrainStep, List, Check, Drop, Client, ClaimEnrollment, BeginScoped, LookForHolder,
                  EndScoped, WriteScoped, Throw
(* Only the mark and this worker's hand can lose it. *)
<1>5. CASE /\ v \in marks => v \in marks' \/ v \in drain'[w].hand \/ v \in missed' \cup rows' \cup onSale'
           /\ v \in drain[w].hand => v \in drain'[w].hand \/ v \in missed' \cup rows' \cup onSale'
  <2>1. v \in missed' \cup rows' \cup onSale' \/ v \in mail' \/ hook'[v] # "idle" \/ v \in marks'
          \/ \E x \in Workers : v \in drain'[x].hand
    BY <1>1, <1>2, <1>3, <1>4, <1>5 DEF Known, InHand
  <2> QED BY <2>1 DEF Known, InHand
<1> DEFINE Stays == /\ v \in marks => v \in marks' \/ v \in drain'[w].hand \/ v \in missed' \cup rows' \cup onSale'
                    /\ v \in drain[w].hand => v \in drain'[w].hand \/ v \in missed' \cup rows' \cup onSale'
<1>6. ASSUME NEW s, NEW h, Put(w, s, h) PROVE drain'[w].stage = s /\ drain'[w].hand = h
  BY <1>6 DEF Put, Steady, TypeOK
<1>7. drain[w].stage \in {"idle", "tail", "listed", "ranlisted", "dropping", "checked", "ready"} => drain[w].hand = {}
  BY DEF Steady, Alone
<1>8. ASSUME NEW vs, LetGo(vs), v \in vs PROVE v \in missed' \cup rows' \cup onSale'
  BY <1>1, <1>3, <1>8, LetGoRemembers
<1>9. Stays
  <2>1. CASE List(w) \/ Check(w) \/ Client(w)
    BY <1>7, <2>1 DEF List, Check, Client, NoClientKeeps
  <2>2. CASE Drop(w)
    BY <1>7, <1>8, <2>2 DEF Drop
  <2>3. CASE ClaimEnrollment(w)
    BY <1>6, <1>7, <2>3 DEF ClaimEnrollment
  <2>4. CASE Throw(w)
    BY <1>8, <2>4 DEF Throw
  <2>5. CASE BeginScoped(w)
    BY <1>3, <1>6, <2>5 DEF BeginScoped
  <2>6. CASE LookForHolder(w)
    BY <1>8, <2>6 DEF LookForHolder
  <2>7. ASSUME NEW x \in Variants, WriteScoped(w, x) PROVE Stays
    BY <1>6, <2>7 DEF WriteScoped
  <2>8. CASE EndScoped(w)
    BY <1>1, <2>8 DEF EndScoped, Steady, OneWriter
  <2> QED BY <2>1, <2>2, <2>3, <2>4, <2>5, <2>6, <2>7, <2>8 DEF DrainStep
<1> QED BY <1>5, <1>9

(* While a sale runs and nobody has asked to end it, the webhook, the drain and
   the runs forget no variant in its scope beyond what `missed` says. *)
THEOREM NothingForgottenHolds == Spec => []NothingForgotten
<1>1. Init => Remembered
  BY SteadyInit
<1>2. ASSUME Steady, Remembered, [Next]_vars PROVE Remembered'
  <2>1. CASE UNCHANGED vars
    BY <1>2, <2>1 DEF vars, Remembered, InHand
  <2>2. ASSUME NEW w \in Workers, DrainStep(w) \/ Throw(w) PROVE Remembered'
    BY <1>2, <2>2, DrainRemembers
  <2> QED BY <1>2, <2>1, <2>2, HookRemembers, WholeRemembers, Split
<1>3. Steady /\ Remembered => NothingForgotten
  BY DEF Steady, TypeOK, Bound, Remembered, NothingForgotten, Ending
<1> QED BY <1>1, <1>2, <1>3, SteadyHolds, PTL DEF Spec

-----------------------------------------------------------------------------
(* Unless a revert overtakes a drain, one that has looked for it still knows. *)
NotEnded == \A w \in Workers :
    drain[w].stage \in {"checked", "ready", "holding", "begun", "writing"} => latest # "REVERT"

LEMMA NotEndedStep == ASSUME ~Overtaken, Steady, NotEnded, [Next]_vars PROVE NotEnded'
<1>1. CASE UNCHANGED vars
  BY <1>1 DEF vars, NotEnded
<1>2. CASE Hooking
  BY <1>2, HookSteady DEF NotEnded
<1>3. CASE Wholly
  <2>1. CASE BeginRevert
    BY <2>1 DEF BeginRevert, Looked, Steady, OneWriter, NotEnded
  <2>2. CASE BeginApply
    BY <2>2 DEF BeginApply, NotEnded
  <2>3. CASE Finish
    <3>1. \A w \in Workers : drain'[w] = drain[w] \/ drain'[w].stage = "tail"
      BY <2>3 DEF Finish, Idle, Steady, TypeOK
    <3> QED BY <2>3, <3>1 DEF Finish, NotEnded
  <2>4. CASE UNCHANGED <<latest, drain>>
    BY <2>4 DEF NotEnded
  <2> QED BY <1>3, <2>1, <2>2, <2>3, <2>4
          DEF Wholly, WholeStep, Press, StandDown, LookForScoped, WriteWhole, Refuse, StopPartWay, GiveBack
<1>4. ASSUME NEW w \in Workers, DrainStep(w) \/ Throw(w) PROVE NotEnded'
  <2>1. latest' = latest
    BY <1>4 DEF DrainStep, List, Check, Drop, Client, ClaimEnrollment, BeginScoped, LookForHolder, EndScoped,
                WriteScoped, Throw, runs
  <2>2. \A x \in Workers \ {w} : drain'[x] = drain[x]
    BY <1>4, PutMoves DEF Steady, DrainStep, List, Check, Drop, Client, ClaimEnrollment, BeginScoped,
                          LookForHolder, EndScoped, WriteScoped, Throw
  <2>3. ASSUME NEW s, NEW h, Put(w, s, h) PROVE drain'[w].stage = s
    BY <2>3 DEF Put, Steady, TypeOK
  <2> DEFINE Later == {"checked", "ready", "holding", "begun", "writing"}
  <2>4. drain'[w].stage \in Later => drain[w].stage \in Later \/ latest # "REVERT"
    <3>1. CASE List(w)
      BY <2>3, <3>1 DEF List
    <3>2. CASE Check(w)
      BY <2>3, <3>2 DEF Check, Ending
    <3>3. CASE Drop(w)
      BY <2>3, <3>3 DEF Drop
    <3>4. CASE Client(w) \/ ClaimEnrollment(w) \/ BeginScoped(w) \/ LookForHolder(w) \/ EndScoped(w) \/ Throw(w)
      BY <3>4 DEF Client, ClaimEnrollment, BeginScoped, LookForHolder, EndScoped, Throw
    <3>5. ASSUME NEW v \in Variants, WriteScoped(w, v) PROVE drain[w].stage \in Later
      BY <3>5 DEF WriteScoped
    <3> QED BY <1>4, <3>1, <3>2, <3>3, <3>4, <3>5 DEF DrainStep
  <2> QED BY <2>1, <2>2, <2>4 DEF NotEnded
<1> QED BY <1>1, <1>2, <1>3, <1>4, Split

(* Once a revert has begun no variant goes on sale before the next apply, as long
   as none begins between a drain's look for it and its run's own. *)
THEOREM NoSaleAfterRevertHolds == ASSUME ~Overtaken PROVE Spec => NoSaleAfterRevert
<1> DEFINE NoSale == latest = "REVERT" => onSale' \subseteq onSale
<1>1. Init => NotEnded
  BY DEF Init, NotEnded, Idle
<1>2. Steady /\ NotEnded /\ [Next]_vars => NotEnded'
  BY NotEndedStep
<1>3. ASSUME Steady, NotEnded, [Next]_vars PROVE NoSale
  <2>1. ASSUME NEW v \in Variants, WriteWhole(v) PROVE NoSale
    BY <1>3, <2>1 DEF WriteWhole, Steady, Bound
  <2>2. ASSUME NEW w \in Workers, NEW v \in Variants, WriteScoped(w, v) PROVE NoSale
    BY <1>3, <2>2 DEF WriteScoped, NotEnded
  <2>3. ASSUME UNCHANGED onSale PROVE NoSale
    BY <2>3
  <2>4. CASE UNCHANGED vars \/ Hooking
    BY <2>3, <2>4, HookSteady DEF vars
  <2>5. CASE Wholly
    BY <2>1, <2>3, <2>5 DEF Wholly, WholeStep, Press, StandDown, LookForScoped, BeginApply, BeginRevert, Finish,
                            Refuse, StopPartWay, GiveBack, prices
  <2>6. ASSUME NEW w \in Workers, DrainStep(w) \/ Throw(w) PROVE NoSale
    BY <2>2, <2>3, <2>6 DEF DrainStep, List, Check, Drop, Client, ClaimEnrollment, BeginScoped, LookForHolder,
                            EndScoped, Throw, prices
  <2> QED BY <1>3, <2>4, <2>5, <2>6, Split
<1>4. Spec => [][NoSale]_vars
  <2>1. Steady /\ NotEnded /\ [Next]_vars => [NoSale]_vars
    BY <1>3
  <2> HIDE DEF NoSale
  <2> QED BY <1>1, <1>2, <2>1, SteadyHolds, PTL DEF Spec
<1> QED BY <1>4 DEF NoSaleAfterRevert
=============================================================================
