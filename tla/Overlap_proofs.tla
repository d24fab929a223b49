--------------------------- MODULE Overlap_proofs ---------------------------
(* Proofs about Overlap, for any campaigns, ranks, prices and bounds. *)
EXTENDS Overlap, TLAPS, FiniteSetTheorems, SequenceTheorems, WellFoundedInduction

----------------------------------------------------------------------------
(* The greatest of a set. *)

(* A finite set that is not empty has a member of greatest value. *)
LEMMA GreatestExists ==
    ASSUME NEW S, IsFiniteSet(S), S # {}, NEW f \in [S -> Int]
    PROVE  \E x \in S : \A y \in S : f[y] <= f[x]
  <1> DEFINE Above(x) == {z \in S : f[z] > f[x]}
             T == {Above(x) : x \in S}
  <1>1. T \subseteq FiniteSubsetsOf(S)
    <2> SUFFICES ASSUME NEW x \in S  PROVE Above(x) \in SUBSET S /\ IsFiniteSet(Above(x))
      BY DEF FiniteSubsetsOf
    <2> QED  BY FS_Subset
  <1>2. \E U \in T : \A V \in T : ~(<<V, U>> \in StrictSubsetOrdering(S))
    <2>1. PICK x \in S : TRUE  OBVIOUS
    <2>2. Above(x) \in T  OBVIOUS
    <2> HIDE DEF T
    <2> QED  BY <1>1, <2>2, FS_StrictSubsetOrderingWellFounded, WFMin
  <1>3. PICK x \in S : \A y \in S : ~(<<Above(y), Above(x)>> \in StrictSubsetOrdering(S))
    BY <1>2
  <1>4. ASSUME NEW y \in S, f[y] > f[x]  PROVE FALSE
    <2>1. f[x] \in Int /\ f[y] \in Int  OBVIOUS
    <2>2. y \in Above(x) /\ y \notin Above(y)  BY <2>1, <1>4
    <2>3. \A z \in S : f[z] \in Int  OBVIOUS
    <2>4. \A z \in Above(y) : z \in Above(x)  BY <2>1, <2>3, <1>4
    <2>5. Above(x) \in SUBSET S /\ Above(y) \in SUBSET S  OBVIOUS
    <2> HIDE DEF Above
    <2> QED  BY <1>3, <2>2, <2>4, <2>5 DEF StrictSubsetOrdering
  <1>5. \A y \in S : f[y] \in Int  OBVIOUS
  <1> QED  BY <1>4, <1>5

(* The greatest of a finite set of whole numbers. *)
LEMMA MaxIs ==
    ASSUME NEW S \in SUBSET Int, IsFiniteSet(S), S # {}
    PROVE  Max(S) \in S /\ \A y \in S : y <= Max(S)
  <1> DEFINE f == [x \in S |-> x]
  <1>1. f \in [S -> Int]  OBVIOUS
  <1>2. \E x \in S : \A y \in S : f[y] <= f[x]
    <2> HIDE DEF f
    <2> QED  BY <1>1, GreatestExists
  <1>3. \E x \in S : \A y \in S : x >= y  BY <1>2
  <1>4. Max(S) \in S /\ \A y \in S : Max(S) >= y  BY <1>3 DEF Max
  <1> QED  BY <1>4

(* It is known by being greatest. *)
LEMMA MaxIsThat ==
    ASSUME NEW S \in SUBSET Int, NEW m \in S, \A y \in S : y <= m
    PROVE  Max(S) = m
  <1>1. \A y \in S : m >= y  OBVIOUS
  <1>2. Max(S) \in S /\ \A y \in S : Max(S) >= y  BY <1>1 DEF Max
  <1>3. m \in Int /\ Max(S) \in Int /\ m <= Max(S) /\ Max(S) <= m  BY <1>2
  <1> QED  BY <1>3

(* The winner is one of the campaigns, and none of them outranks it. *)
LEMMA BestIs ==
    ASSUME NEW C \in SUBSET Campaigns, C # {}
    PROVE  Best(C) \in C /\ \A d \in C : Rank[d] <= Rank[Best(C)]
  <1> DEFINE f == [c \in C |-> Rank[c]]
  <1>1. f \in [C -> Int]  BY RankAssumption
  <1>2. IsFiniteSet(C)  BY CampaignsAssumption, FS_Subset
  <1>3. \E x \in C : \A y \in C : f[y] <= f[x]
    <2> HIDE DEF f
    <2> QED  BY <1>1, <1>2, GreatestExists
  <1>4. \E x \in C : \A y \in C : Rank[y] <= Rank[x]  BY <1>3
  <1> QED  BY <1>4 DEF Best

----------------------------------------------------------------------------
(* The ledger. *)

LEMMA LedgerIs ==
    ASSUME TypeOK
    PROVE  /\ Len(ledger) \in Nat /\ DOMAIN ledger = 1 .. Len(ledger)
           /\ IsFiniteSet(DOMAIN ledger)
           /\ \A i \in DOMAIN ledger : ledger[i] \in Row
           /\ \A c \in Campaigns : RunsOf(c) \subseteq DOMAIN ledger
           /\ Landed \subseteq DOMAIN ledger
  <1>1. ledger \in Seq(Row)  BY DEF TypeOK
  <1>2. Len(ledger) \in Nat /\ DOMAIN ledger = 1 .. Len(ledger)
    BY <1>1, LenProperties
  <1>3. \A i \in DOMAIN ledger : ledger[i] \in Row  BY <1>1, <1>2, ElementOfSeq
  <1>4. IsFiniteSet(1 .. Len(ledger))  BY <1>2, FS_Interval
  <1> QED  BY <1>2, <1>3, <1>4 DEF RunsOf, Landed

(* The newest of some of the ledger's runs, or none. *)
LEMMA LatestIs ==
    ASSUME TypeOK, NEW S \in SUBSET (DOMAIN ledger)
    PROVE  /\ Max({0} \cup S) \in {0} \cup S /\ Max({0} \cup S) \in 0 .. Len(ledger)
           /\ \A i \in S : i <= Max({0} \cup S)
           /\ (Max({0} \cup S) = 0) <=> (S = {})
           /\ S # {} => Max(S) \in S /\ Max(S) = Max({0} \cup S)
  <1>1. /\ Len(ledger) \in Nat /\ DOMAIN ledger = 1 .. Len(ledger)
        /\ IsFiniteSet(DOMAIN ledger)
    BY LedgerIs
  <1>2. IsFiniteSet(S)  BY <1>1, FS_Subset
  <1>3. IsFiniteSet({0} \cup S)
    <2>1. IsFiniteSet(S \cup {0})  BY <1>2, FS_AddElement
    <2>2. S \cup {0} = {0} \cup S  OBVIOUS
    <2> QED  BY <2>1, <2>2
  <1> DEFINE m == Max({0} \cup S)
  <1>4. {0} \cup S \in SUBSET Int /\ {0} \cup S # {}  BY <1>1
  <1>5. m \in {0} \cup S /\ \A y \in {0} \cup S : y <= m  BY <1>3, <1>4, MaxIs
  <1>6. \A i \in S : i \in Int /\ i > 0  BY <1>1
  <1>7. m = 0 <=> S = {}  BY <1>5, <1>6
  <1>8. ASSUME S # {}  PROVE Max(S) \in S /\ Max(S) = m
    <2>1. S \in SUBSET Int  BY <1>6
    <2>2. m \in S /\ \A y \in S : y <= m  BY <1>5, <1>7, <1>8
    <2> HIDE DEF m
    <2>3. Max(S) = m  BY <2>1, <2>2, MaxIsThat
    <2> QED  BY <2>2, <2>3
  <1>9. m \in 0 .. Len(ledger)  BY <1>1, <1>5
  <1> QED  BY <1>5, <1>7, <1>8, <1>9

(* Of a campaign's runs: the latest, the latest that ended it, and the newest landed. *)
LEMMA LastRunIs ==
    ASSUME TypeOK, NEW c \in Campaigns
    PROVE  /\ LastRun(c) \in 0 .. Len(ledger)
           /\ (LastRun(c) = 0) <=> (RunsOf(c) = {})
           /\ LastRun(c) # 0 => LastRun(c) \in RunsOf(c)
           /\ \A i \in RunsOf(c) : i <= LastRun(c)
           /\ LastEnd(c) \in 0 .. Len(ledger)
  <1>1. RunsOf(c) \in SUBSET (DOMAIN ledger)  BY LedgerIs
  <1> DEFINE E == {i \in RunsOf(c) : ledger[i].kind = "REVERT" /\ ledger[i].state = "COMPLETED"}
  <1>2. E \in SUBSET (DOMAIN ledger)  BY <1>1
  <1>3. LastEnd(c) = Max({0} \cup E)  BY DEF LastEnd
  <1> HIDE DEF E
  <1>4. Max({0} \cup E) \in 0 .. Len(ledger)  BY <1>2, LatestIs
  <1>5. /\ Max({0} \cup RunsOf(c)) \in {0} \cup RunsOf(c) /\ Max({0} \cup RunsOf(c)) \in 0 .. Len(ledger)
        /\ \A i \in RunsOf(c) : i <= Max({0} \cup RunsOf(c))
        /\ (Max({0} \cup RunsOf(c)) = 0) <=> (RunsOf(c) = {})
    BY <1>1, LatestIs
  <1> QED  BY <1>3, <1>4, <1>5 DEF LastRun

LEMMA NewestIs ==
    ASSUME TypeOK, Landed # {}
    PROVE  /\ Max(Landed) \in Landed /\ \A i \in Landed : i <= Max(Landed)
           /\ ledger[Max(Landed)] \in Row
  <1>1. Landed \in SUBSET (DOMAIN ledger) /\ \A i \in DOMAIN ledger : ledger[i] \in Row
    BY LedgerIs
  <1>2. /\ Max(Landed) \in Landed /\ Max(Landed) = Max({0} \cup Landed)
        /\ \A i \in Landed : i <= Max({0} \cup Landed)
    BY <1>1, LatestIs
  <1> QED  BY <1>1, <1>2

(* A run's row goes last. *)
LEMMA AppendedLedger ==
    ASSUME TypeOK, NEW r \in Row, ledger' = Append(ledger, r),
           r.out \notin Prices, r.state # "COMPLETED"
    PROVE  /\ ledger' \in Seq(Row) /\ Len(ledger') = Len(ledger) + 1
           /\ \A i \in DOMAIN ledger : ledger'[i] = ledger[i]
           /\ Len(ledger) + 1 \in DOMAIN ledger' /\ ledger'[Len(ledger) + 1] = r
           /\ Landed' = Landed
           /\ \A d \in Campaigns : LastEnd(d)' = LastEnd(d)
           /\ \A d \in Campaigns : d # r.camp => LastRun(d)' = LastRun(d)
           /\ RunsOf(r.camp)' = RunsOf(r.camp) \cup {Len(ledger) + 1}
           /\ LastRun(r.camp)' = Len(ledger) + 1
  <1> DEFINE n == Len(ledger) + 1
  <1>1. /\ ledger \in Seq(Row) /\ Len(ledger) \in Nat /\ DOMAIN ledger = 1 .. Len(ledger)
        /\ \A i \in DOMAIN ledger : ledger[i] \in Row
        /\ \A d \in Campaigns : RunsOf(d) \subseteq DOMAIN ledger
    BY LedgerIs DEF TypeOK
  <1>2. /\ ledger' \in Seq(Row) /\ Len(ledger') = n
        /\ \A i \in 1 .. Len(ledger) : ledger'[i] = ledger[i]
        /\ ledger'[n] = r
    BY <1>1
  <1>3. DOMAIN ledger' = 1 .. Len(ledger')  BY <1>2, LenProperties
  <1>4. DOMAIN ledger' = DOMAIN ledger \cup {n} /\ n \notin DOMAIN ledger
    BY <1>1, <1>2, <1>3
  <1>5. Landed' = Landed
    BY <1>1, <1>2, <1>4 DEF Landed
  <1>6. ASSUME NEW d \in Campaigns  PROVE LastEnd(d)' = LastEnd(d)
    <2>1. {i \in RunsOf(d) : ledger[i].kind = "REVERT" /\ ledger[i].state = "COMPLETED"}'
            = {i \in RunsOf(d) : ledger[i].kind = "REVERT" /\ ledger[i].state = "COMPLETED"}
      BY <1>1, <1>2, <1>4 DEF RunsOf
    <2> QED  BY <2>1 DEF LastEnd
  <1>7. ASSUME NEW d \in Campaigns, d # r.camp  PROVE LastRun(d)' = LastRun(d)
    <2>1. RunsOf(d)' = RunsOf(d)  BY <1>1, <1>2, <1>4, <1>7 DEF RunsOf
    <2> QED  BY <2>1 DEF LastRun
  <1>8. RunsOf(r.camp)' = RunsOf(r.camp) \cup {n}
    BY <1>1, <1>2, <1>4 DEF RunsOf
  <1>9. LastRun(r.camp)' = n
    <2> DEFINE S == {0} \cup RunsOf(r.camp) \cup {n}
    <2>1. r.camp \in Campaigns  BY DEF Row
    <2>2. S \in SUBSET Int /\ n \in S /\ \A i \in S : i <= n  BY <1>1, <2>1
    <2>3. LastRun(r.camp)' = Max(S)
      <3>1. ({0} \cup RunsOf(r.camp))' = S  BY <1>8
      <3> QED  BY <3>1 DEF LastRun
    <2> HIDE DEF S, n
    <2> QED  BY <2>2, <2>3, MaxIsThat
  <1> QED  BY <1>1, <1>2, <1>4, <1>5, <1>6, <1>7, <1>8, <1>9

(* The run under way, the ledger's last, writes its row. *)
LEMMA RewrittenLedger ==
    ASSUME TypeOK, Len(ledger) # 0, NEW r \in Row,
           ledger' = [ledger EXCEPT ![Len(ledger)] = r],
           r.camp = ledger[Len(ledger)].camp, r.kind = ledger[Len(ledger)].kind,
           ledger[Len(ledger)].out \notin Prices, ledger[Len(ledger)].state # "COMPLETED"
    PROVE  /\ ledger' \in Seq(Row) /\ DOMAIN ledger' = DOMAIN ledger
           /\ \A i \in DOMAIN ledger : ledger'[i] = IF i = Len(ledger) THEN r ELSE ledger[i]
           /\ Landed' = IF r.out \in Prices THEN Landed \cup {Len(ledger)} ELSE Landed
           /\ Len(ledger) \notin Landed
           /\ r.out \in Prices => Max(Landed)' = Len(ledger)
           /\ \A d \in Campaigns : RunsOf(d)' = RunsOf(d) /\ LastRun(d)' = LastRun(d)
           /\ \A d \in Campaigns :
                 d # r.camp \/ r.kind # "REVERT" \/ r.state # "COMPLETED" => LastEnd(d)' = LastEnd(d)
  <1> DEFINE n == Len(ledger)
  <1>1. /\ ledger \in Seq(Row) /\ Len(ledger) \in Nat /\ DOMAIN ledger = 1 .. Len(ledger)
        /\ \A i \in DOMAIN ledger : ledger[i] \in Row
        /\ Landed \subseteq DOMAIN ledger /\ n \in DOMAIN ledger
    BY LedgerIs DEF TypeOK
  <1>2. /\ ledger' \in Seq(Row) /\ Len(ledger') = Len(ledger)
        /\ \A i \in 1 .. Len(ledger) : ledger'[i] = IF i = n THEN r ELSE ledger[i]
    BY <1>1, ExceptSeq
  <1>3. DOMAIN ledger' = DOMAIN ledger  BY <1>1, <1>2, LenProperties
  <1>4. \A i \in DOMAIN ledger : ledger'[i] = IF i = n THEN r ELSE ledger[i]
    BY <1>1, <1>2
  <1>5. n \notin Landed /\ Landed' = IF r.out \in Prices THEN Landed \cup {n} ELSE Landed
    BY <1>3, <1>4 DEF Landed
  <1>6. ASSUME r.out \in Prices  PROVE Max(Landed)' = n
    <2> DEFINE S == Landed \cup {n}
    <2>1. S \in SUBSET Int /\ n \in S /\ \A i \in S : i <= n  BY <1>1
    <2>2. Max(Landed)' = Max(S)  BY <1>5, <1>6
    <2> HIDE DEF S
    <2> QED  BY <2>1, <2>2, MaxIsThat
  <1>7. ASSUME NEW d \in Campaigns  PROVE RunsOf(d)' = RunsOf(d)
    BY <1>3, <1>4 DEF RunsOf
  <1>8. ASSUME NEW d \in Campaigns  PROVE LastRun(d)' = LastRun(d)
    BY <1>7 DEF LastRun
  <1>9. ASSUME NEW d \in Campaigns, d # r.camp \/ r.kind # "REVERT" \/ r.state # "COMPLETED"
        PROVE  LastEnd(d)' = LastEnd(d)
    <2>1. {i \in RunsOf(d) : ledger[i].kind = "REVERT" /\ ledger[i].state = "COMPLETED"}'
            = {i \in RunsOf(d) : ledger[i].kind = "REVERT" /\ ledger[i].state = "COMPLETED"}
      BY <1>3, <1>4, <1>7, <1>9 DEF RunsOf
    <2> QED  BY <2>1 DEF LastEnd
  <1> QED  BY <1>2, <1>3, <1>4, <1>5, <1>6, <1>7, <1>8, <1>9

----------------------------------------------------------------------------
(* Type correctness. *)

(* The price planned is the highest of those that price the variant. *)
LEMMA WantIs ==
    ASSUME TypeOK, NEW c \in Campaigns
    PROVE  LET C == (Others(c) \cap scope) \cup (IF Reverts(c) THEN {} ELSE {c}) IN
             /\ Want(c) \in C \/ (C = {} /\ Want(c) = Base)
             /\ \A d \in C : Rank[d] <= RankOf(Want(c))
  <1> DEFINE C == (Others(c) \cap scope) \cup (IF Reverts(c) THEN {} ELSE {c})
  <1>1. C \in SUBSET Campaigns  BY DEF Others, Competing
  <1>2. Want(c) = Resolve(C)  BY DEF Want
  <1> HIDE DEF C
  <1>3. CASE C = {}  BY <1>2, <1>3 DEF Resolve, C
  <1>4. CASE C # {}
    <2>1. Want(c) = Best(C)  BY <1>2, <1>4 DEF Resolve
    <2>2. Best(C) \in C /\ \A d \in C : Rank[d] <= Rank[Best(C)]  BY <1>1, <1>4, BestIs
    <2>3. \A d \in C : Rank[d] <= RankOf(Want(c))  BY <1>1, <2>1, <2>2 DEF RankOf
    <2> QED  BY <2>1, <2>2, <2>3 DEF C
  <1> QED  BY <1>3, <1>4

LEMMA RowsIs ==
    ASSUME TypeOK, NEW c \in Campaigns, NEW keep \in BOOLEAN
    PROVE  Rows(c, keep) \in {Want(c), Kept, None} /\ Want(c) \in Campaigns \cup {Base}
           /\ (Rows(c, keep) = Kept => Reverts(c))
  <1>1. Want(c) \in Campaigns \cup {Base}
    BY WantIs DEF Others, Competing
  <1>2. Want(c) # Kept /\ None # Kept  BY <1>1, NamesAssumption DEF Prices, None, Kept
  <1> QED  BY <1>1, <1>2 DEF Rows

(* What a step leaves alone of a campaign that takes no part in it. *)
Unmoved(d) ==
    /\ status'[d] = status[d] /\ before'[d] = before[d] /\ work'[d] = work[d]
    /\ LastRun(d)' = LastRun(d)
    /\ LastRun(d) # 0 => ledger'[LastRun(d)] = ledger[LastRun(d)]

Planned(c) == work[c].stage = "planned"

LEMMA ClaimDoes ==
    ASSUME TypeOK, NEW c \in Campaigns, NEW kind \in Kinds, NEW resume \in BOOLEAN,
           Claim(c, kind, resume)
    PROVE  /\ work' \in [Campaigns -> Work] /\ before' \in [Campaigns -> Rest]
           /\ status' \in [Campaigns -> Rest \cup {"APPLYING", "REVERTING"}]
           /\ \A d \in Campaigns \ {c} : Unmoved(d)
           /\ work'[c].stage = "claimed" /\ work'[c].kind = kind /\ work'[c].resume = resume
           /\ before'[c] = status[c] /\ status'[c] \in {"APPLYING", "REVERTING"}
  <1> DEFINE w == [NoWork EXCEPT !.stage = "claimed", !.kind = kind, !.resume = resume]
  <1>1. NoWork \in Work  BY NamesAssumption DEF NoWork, Work, Kinds
  <1>2. w \in Work /\ w.stage = "claimed" /\ w.kind = kind /\ w.resume = resume
    BY <1>1 DEF Work
  <1>3. status[c] \in Rest  BY DEF Claim, From, Kinds, Rest
  <1>4. work' = [work EXCEPT ![c] = w]  BY DEF Claim
  <1> HIDE DEF w
  <1>5. \A d \in Campaigns \ {c} : Unmoved(d)
    BY <1>4 DEF Claim, TypeOK, Unmoved, LastRun, RunsOf
  <1> QED  BY <1>2, <1>3, <1>4, <1>5 DEF Claim, TypeOK

LEMMA PlanDoes ==
    ASSUME TypeOK, NEW c \in Campaigns, NEW keep \in BOOLEAN, Plan(c, keep)
    PROVE  LET n   == Len(ledger) + 1
               row == Rows(c, keep)
           IN /\ ledger' \in Seq(Row) /\ Len(ledger') = n
              /\ \A i \in DOMAIN ledger : ledger'[i] = ledger[i]
              /\ ledger'[n] = [camp |-> c, kind |-> work[c].kind, state |-> "EXECUTING",
                               out |-> IF row = Kept THEN Kept ELSE None]
              /\ n \in RunsOf(c)' /\ LastRun(c)' = n
              /\ Landed' = Landed /\ \A d \in Campaigns : LastEnd(d)' = LastEnd(d)
              /\ work' \in [Campaigns -> Work]
              /\ work'[c].stage = "planned" /\ work'[c].kind = work[c].kind /\ work'[c].row = n
              /\ work'[c].want = IF row = Kept THEN None ELSE row
              /\ \A d \in Campaigns \ {c} : Unmoved(d)
  <1> DEFINE n   == Len(ledger) + 1
             row == Rows(c, keep)
             out == IF row = Kept THEN Kept ELSE None
             want == IF row = Kept THEN None ELSE row
             r   == [camp |-> c, kind |-> work[c].kind, state |-> "EXECUTING", out |-> out]
             w   == [work[c] EXCEPT !.stage = "planned", !.row = n, !.want = want]
  <1>1. Len(ledger) \in Nat /\ ledger \in Seq(Row) /\ work[c] \in Work
    BY LedgerIs DEF TypeOK
  <1>2. row \in Campaigns \cup {Base, None, Kept}  BY RowsIs
  <1>3. /\ r \in Row /\ w \in Work
        /\ w.stage = "planned" /\ w.kind = work[c].kind /\ w.row = n /\ w.want = want
    <2>1. out \in {Kept, None} /\ want \in Prices \cup {None}  BY <1>2 DEF Prices
    <2>2. n \in Nat  BY <1>1
    <2> HIDE DEF out, want, n
    <2>3. r \in Row  BY <1>1, <2>1 DEF Row, Work
    <2> QED  BY <1>1, <2>1, <2>2, <2>3 DEF Work
  <1>4. r.out \notin Prices /\ r.state # "COMPLETED" /\ r.camp = c
    BY NamesAssumption
  <1>5. ledger' = Append(ledger, r)  BY DEF Plan
  <1>6. Len(ledger') = n  BY <1>1, <1>3, <1>5
  <1>7. work' = [work EXCEPT ![c] = w]
    <2>1. Len(ledger') = n  BY <1>6
    <2>2. work' = [work EXCEPT ![c].stage = "planned", ![c].row = n,
                               ![c].want = IF row = Kept THEN None ELSE row]
      BY <2>1 DEF Plan
    <2> QED  BY <1>1, <2>2 DEF TypeOK, Work
  <1> HIDE DEF r, w
  <1>8. /\ ledger' \in Seq(Row)
        /\ \A i \in DOMAIN ledger : ledger'[i] = ledger[i]
        /\ n \in DOMAIN ledger' /\ ledger'[n] = r
        /\ Landed' = Landed
        /\ \A d \in Campaigns : LastEnd(d)' = LastEnd(d)
        /\ \A d \in Campaigns : d # c => LastRun(d)' = LastRun(d)
        /\ n \in RunsOf(c)' /\ LastRun(c)' = n
    BY <1>3, <1>4, <1>5, AppendedLedger
  <1>9. ASSUME NEW d \in Campaigns \ {c}  PROVE Unmoved(d)
    <2>1. LastRun(d) # 0 => LastRun(d) \in DOMAIN ledger
      BY LastRunIs, LedgerIs
    <2>2. status' = status /\ before' = before  BY DEF Plan
    <2> QED  BY <1>7, <1>8, <2>1, <2>2 DEF Unmoved, TypeOK
  <1>10. work' \in [Campaigns -> Work] /\ work'[c] = w  BY <1>3, <1>7 DEF TypeOK
  <1> QED  BY <1>3, <1>6, <1>8, <1>9, <1>10 DEF r

(* A planned run's row is the ledger's last, and has nothing recorded but an edit kept. *)
RowInHand ==
    \A c \in Campaigns : Planned(c) =>
      /\ work[c].row = Len(ledger) /\ work[c].row \in RunsOf(c)
      /\ ledger[work[c].row].kind = work[c].kind /\ ledger[work[c].row].state = "EXECUTING"
      /\ \/ ledger[work[c].row].out = None
         \/ ledger[work[c].row].out = Kept /\ Reverts(c) /\ work[c].want = None

(* What the end of a planned run makes of its row, s and o its state and outcome. *)
Settles(c, s, o) ==
    /\ ledger' \in Seq(Row) /\ DOMAIN ledger' = DOMAIN ledger
    /\ \A i \in DOMAIN ledger : i # work[c].row => ledger'[i] = ledger[i]
    /\ ledger'[work[c].row] = [camp |-> c, kind |-> work[c].kind, state |-> s, out |-> o]
    /\ Landed' = IF o \in Prices THEN Landed \cup {work[c].row} ELSE Landed
    /\ work[c].row \notin Landed /\ \A i \in Landed : ledger'[i] = ledger[i]
    /\ o \in Prices => Max(Landed)' = work[c].row
    /\ LastRun(c) = work[c].row /\ LastRun(c)' = work[c].row /\ work[c].row # 0
    /\ \A d \in Campaigns : RunsOf(d)' = RunsOf(d)
    /\ \A d \in Campaigns : d # c \/ ~Reverts(c) \/ s # "COMPLETED" => LastEnd(d)' = LastEnd(d)
    /\ work' \in [Campaigns -> Work] /\ work'[c].stage = "idle"
    /\ status' \in [Campaigns -> Rest \cup {"APPLYING", "REVERTING"}]
    /\ \A d \in Campaigns \ {c} : Unmoved(d)

LEMMA SettlesIs ==
    ASSUME TypeOK, RowInHand, NEW c \in Campaigns, Planned(c), NEW r,
           NEW s \in {"COMPLETED", "PARTIAL", "FAILED"}, NEW o \in Prices \cup {None, Kept},
           r = [ledger[work[c].row] EXCEPT !.state = s, !.out = o],
           ledger' = [ledger EXCEPT ![work[c].row] = r],
           NEW t \in Rest, status' = [status EXCEPT ![c] = t],
           work' = [work EXCEPT ![c] = NoWork], before' = before
    PROVE  Settles(c, s, o)
  <1> DEFINE n == work[c].row
  <1>1. /\ Len(ledger) \in Nat /\ DOMAIN ledger = 1 .. Len(ledger)
        /\ \A i \in DOMAIN ledger : ledger[i] \in Row
        /\ \A d \in Campaigns : RunsOf(d) \subseteq DOMAIN ledger
        /\ Landed \subseteq DOMAIN ledger
    BY LedgerIs
  <1>2. /\ n = Len(ledger) /\ n \in RunsOf(c) /\ n \in DOMAIN ledger
        /\ ledger[n].kind = work[c].kind /\ ledger[n].state = "EXECUTING"
        /\ ledger[n].out \in {None, Kept} /\ ledger[n].camp = c
    BY <1>1 DEF RowInHand, RunsOf
  <1>3. ledger[n].out \notin Prices  BY <1>2, NamesAssumption
  <1>4. r \in Row /\ r = [camp |-> c, kind |-> work[c].kind, state |-> s, out |-> o]
    BY <1>1, <1>2 DEF Row
  <1>5. r.camp = ledger[n].camp /\ r.kind = ledger[n].kind /\ r.out = o /\ r.state = s
        /\ r.kind = work[c].kind /\ r.camp = c
    BY <1>2, <1>4
  <1>6. /\ ledger' \in Seq(Row) /\ DOMAIN ledger' = DOMAIN ledger
        /\ \A i \in DOMAIN ledger : ledger'[i] = IF i = n THEN r ELSE ledger[i]
        /\ Landed' = IF o \in Prices THEN Landed \cup {n} ELSE Landed
        /\ n \notin Landed
        /\ o \in Prices => Max(Landed)' = n
        /\ \A d \in Campaigns : RunsOf(d)' = RunsOf(d) /\ LastRun(d)' = LastRun(d)
        /\ \A d \in Campaigns :
              d # c \/ r.kind # "REVERT" \/ s # "COMPLETED" => LastEnd(d)' = LastEnd(d)
    <2>1. ledger' = [ledger EXCEPT ![Len(ledger)] = r] /\ Len(ledger) # 0  BY <1>1, <1>2
    <2>2. r \in Row /\ r.camp = ledger[Len(ledger)].camp /\ r.kind = ledger[Len(ledger)].kind
      BY <1>2, <1>4, <1>5
    <2>3. ledger[Len(ledger)].out \notin Prices /\ ledger[Len(ledger)].state # "COMPLETED"
      BY <1>2, <1>3
    <2>4. /\ ledger' \in Seq(Row) /\ DOMAIN ledger' = DOMAIN ledger
          /\ \A i \in DOMAIN ledger : ledger'[i] = IF i = Len(ledger) THEN r ELSE ledger[i]
          /\ Landed' = IF r.out \in Prices THEN Landed \cup {Len(ledger)} ELSE Landed
          /\ Len(ledger) \notin Landed
          /\ r.out \in Prices => Max(Landed)' = Len(ledger)
          /\ \A d \in Campaigns : RunsOf(d)' = RunsOf(d) /\ LastRun(d)' = LastRun(d)
          /\ \A d \in Campaigns :
                d # r.camp \/ r.kind # "REVERT" \/ r.state # "COMPLETED" => LastEnd(d)' = LastEnd(d)
      BY <2>1, <2>2, <2>3, RewrittenLedger
    <2> QED  BY <1>2, <1>5, <2>4
  <1>7. LastRun(c) = n
    <2>1. LastRun(c) \in 0 .. Len(ledger) /\ \A i \in RunsOf(c) : i <= LastRun(c)  BY LastRunIs
    <2> QED  BY <1>1, <1>2, <2>1
  <1>8. ASSUME NEW d \in Campaigns \ {c}  PROVE Unmoved(d)
    <2>1. LastRun(d) # 0 => LastRun(d) \in DOMAIN ledger /\ ledger[LastRun(d)].camp = d
      BY LastRunIs, LedgerIs DEF RunsOf
    <2>2. LastRun(d) # 0 => LastRun(d) # n  BY <1>2, <2>1
    <2> QED  BY <1>6, <2>1, <2>2 DEF Unmoved, TypeOK
  <1>9. NoWork \in Work /\ NoWork.stage = "idle"  BY NamesAssumption DEF NoWork, Work, Kinds
  <1>10. work' \in [Campaigns -> Work] /\ work'[c].stage = "idle"  BY <1>9 DEF TypeOK
  <1>11. status' \in [Campaigns -> Rest \cup {"APPLYING", "REVERTING"}]  BY DEF TypeOK
  <1>12. \A i \in Landed : ledger'[i] = ledger[i]  BY <1>1, <1>6
  <1>13. n # 0  BY <1>1, <1>2
  <1>14. r.kind # "REVERT" <=> ~Reverts(c)  BY <1>5 DEF Reverts
  <1> QED  BY <1>2, <1>4, <1>6, <1>7, <1>8, <1>10, <1>11, <1>12, <1>13, <1>14 DEF Settles

(* A planned run that is over. *)
LEMMA EndsDoes ==
    ASSUME TypeOK, RowInHand, NEW c \in Campaigns, Planned(c), NEW row \in Prices \cup {None},
           NEW clean \in BOOLEAN, Ends(c, row, clean), before' = before
    PROVE  /\ Settles(c, IF clean THEN "COMPLETED" ELSE "PARTIAL",
                      IF row = None THEN ledger[work[c].row].out ELSE row)
           /\ status'[c] = Outcome(c, clean)
  <1> DEFINE n == work[c].row
             s == IF clean THEN "COMPLETED" ELSE "PARTIAL"
             o == IF row = None THEN ledger[n].out ELSE row
             r == [ledger[n] EXCEPT !.state = s, !.out = o]
             t == Outcome(c, clean)
  <1>1. n \in DOMAIN ledger /\ ledger[n] \in Row  BY LedgerIs DEF RowInHand
  <1>2. s \in {"COMPLETED", "PARTIAL", "FAILED"} /\ o \in Prices \cup {None, Kept}  BY <1>1 DEF Row
  <1>3. t \in Rest  BY DEF Outcome, Rest
  <1>4. ledger' = [ledger EXCEPT ![n] = r]
    <2>1. ledger' = [ledger EXCEPT ![n].state = s, ![n].out = o]  BY DEF Ends
    <2> HIDE DEF s, o, n
    <2> QED  BY <1>1, <2>1 DEF Row
  <1>5. status' = [status EXCEPT ![c] = t] /\ work' = [work EXCEPT ![c] = NoWork]  BY DEF Ends
  <1>6. Settles(c, s, o)
    <2>1. r = [ledger[n] EXCEPT !.state = s, !.out = o]  OBVIOUS
    <2> HIDE DEF r, s, o, t
    <2> QED  BY <1>2, <1>3, <1>4, <1>5, <2>1, SettlesIs
  <1>7. status'[c] = t  BY <1>5 DEF TypeOK
  <1> QED  BY <1>6, <1>7

(* A run that stops before its first price. *)
LEMMA StopDoes ==
    ASSUME TypeOK, RowInHand, NEW c \in Campaigns, Stop(c)
    PROVE  /\ status'[c] = before[c] /\ before' = before
           /\ work' \in [Campaigns -> Work] /\ work'[c].stage = "idle"
           /\ status' \in [Campaigns -> Rest \cup {"APPLYING", "REVERTING"}]
           /\ \A d \in Campaigns \ {c} : Unmoved(d)
           /\ Planned(c) => Settles(c, "FAILED", ledger[work[c].row].out)
           /\ ~Planned(c) => ledger' = ledger
  <1>1. /\ status' = [status EXCEPT ![c] = before[c]] /\ before' = before
        /\ work' = [work EXCEPT ![c] = NoWork] /\ before[c] \in Rest
    BY DEF Stop, TypeOK
  <1>2. NoWork \in Work /\ NoWork.stage = "idle"  BY NamesAssumption DEF NoWork, Work, Kinds
  <1>3. /\ status'[c] = before[c]
        /\ work' \in [Campaigns -> Work] /\ work'[c].stage = "idle"
        /\ status' \in [Campaigns -> Rest \cup {"APPLYING", "REVERTING"}]
    BY <1>1, <1>2 DEF TypeOK
  <1>4. CASE Planned(c)
    <2> DEFINE n == work[c].row
               o == ledger[n].out
               r == [ledger[n] EXCEPT !.state = "FAILED", !.out = o]
    <2>1. n \in DOMAIN ledger /\ ledger[n] \in Row  BY <1>4, LedgerIs DEF RowInHand
    <2>2. o \in Prices \cup {None, Kept}  BY <2>1 DEF Row
    <2>3. ledger' = [ledger EXCEPT ![n] = r]
      <3>1. ledger' = [ledger EXCEPT ![n].state = "FAILED"]  BY <1>4 DEF Stop, Planned
      <3> HIDE DEF n
      <3> QED  BY <2>1, <3>1 DEF Row
    <2>4. Settles(c, "FAILED", o)
      <3>1. r = [ledger[n] EXCEPT !.state = "FAILED", !.out = o]  OBVIOUS
      <3> HIDE DEF r, o
      <3> QED  BY <1>1, <1>4, <2>2, <2>3, <3>1, SettlesIs
    <2> QED  BY <1>1, <1>3, <1>4, <2>4 DEF Settles
  <1>5. CASE ~Planned(c)
    <2>1. ledger' = ledger  BY <1>5 DEF Stop, Planned
    <2>2. \A d \in Campaigns \ {c} : Unmoved(d)
      BY <1>1, <2>1 DEF Unmoved, TypeOK, LastRun, RunsOf
    <2> QED  BY <1>1, <1>3, <1>5, <2>1, <2>2
  <1> QED  BY <1>4, <1>5

----------------------------------------------------------------------------
(* The inductive invariant. *)

Running       == {"ACTIVE", "HELD", "PARTIAL"}
LastOut(c)    == ledger[LastRun(c)].out
LandedLast(c) == LastRun(c) # 0 /\ LastOut(c) \in Prices

(* Where the campaign stands: its state, or the one its run was claimed from. *)
Stance(c) == IF AtWork(c) THEN before[c] ELSE status[c]

(* One run at a time, and a run that resumes has one to resume. *)
Claims ==
    /\ \A c \in Campaigns : AtWork(c) <=> status[c] \in {"APPLYING", "REVERTING"}
    /\ \A c, d \in Campaigns : AtWork(c) /\ AtWork(d) => c = d
    /\ \A c \in Campaigns :
         work[c].stage = "claimed" /\ work[c].resume =>
            before[c] = "PARTIAL" /\ ledger[LastRun(c)].kind = work[c].kind

(* An apply lands its own price, a revert never; nobody lands the merchant's. *)
OwnPrices ==
    \A i \in Landed :
      /\ ledger[i].out \notin Hands
      /\ IF ledger[i].kind = "APPLY" THEN ledger[i].out = ledger[i].camp
         ELSE ledger[i].out # ledger[i].camp

(* What a campaign's state says of its latest run. *)
Standing ==
    \A c \in Campaigns :
      /\ Stance(c) \in Running => LastRun(c) # 0
      /\ Stance(c) \in {"ACTIVE", "HELD"} => ~Ending(c) \/ Planned(c)
      /\ Stance(c) \in {"DRAFT", "COMPLETED"} => Ending(c) \/ ~LandedLast(c)

(* The mirror is behind on nothing but the merchant's edits. *)
Mirrored == live \in Hands \/ mirror \in {live, Unknown}

(* An open question is about the price that is up, and the edit to come is its own. *)
Asked ==
    event # None =>
      /\ live \in Hands /\ mirror \in Hands \cup {Unknown}
      /\ mirror \in {live, Unknown} \/ (AtRest /\ AskedOf \in {None, event})

HoldsAsked == \A c \in Campaigns : Stance(c) = "HELD" => event = c

(* The price a run is about to write: its own, or that of a campaign that is pricing and
   covers the variant; and the question it may close is its own. *)
Wants ==
    \A c \in Campaigns : Planned(c) /\ work[c].want # None =>
      /\ \/ work[c].want \in Others(c) \cap scope
         \/ Reverts(c) /\ work[c].want = Base
         \/ ~Reverts(c) /\ work[c].want = c /\ c \in scope
      /\ event \notin Others(c)
      /\ ~Reverts(c) => work[c].want = c

(* The campaigns whose price was put on the variant, or found there, for their sale. *)
Put(c) ==
    /\ ~Ending(c)
    /\ \/ Stance(c) \in {"ACTIVE", "HELD"}
       \/ status[c] \in {"PARTIAL", "APPLYING", "REVERTING"} /\ LandedLast(c)

(* None of them outranks the price that is up, nor the one about to be written. *)
Outranks == live \notin Hands => \A d \in scope : Put(d) => Rank[d] <= RankOf(live)

Outranking ==
    \A c \in Campaigns : Planned(c) =>
      IF work[c].want # None
      THEN \A d \in scope \ {c} : Put(d) => Rank[d] <= RankOf(work[c].want)
      ELSE Reverts(c) \/ live \in Hands \/ c \notin scope \/ Rank[c] <= RankOf(live)

(* The price that is up is of a campaign that runs. *)
Runs == live \in Campaigns => Stance(live) \in Running

(* Its revert will take it back: it covers the variant or finds the price in the ledger,
   and so a revert that plans no price has none up. *)
FoundAgain(c) ==
    \/ c \in scope
    \/ Wrote(c)
    \/ /\ Landed # {} /\ Newest.kind = "REVERT" /\ Newest.camp # c
       /\ Newest.out = c /\ Max(Landed) > LastEnd(c)

TakenBack ==
    \A c \in Campaigns : live = c =>
      /\ FoundAgain(c)
      /\ ~(Planned(c) /\ Reverts(c) /\ work[c].want = None)
      /\ ~(Ending(c) /\ LastOut(c) = Kept)

(* A campaign's price that the mirror has, and an edit replaced, is the newest landed. *)
Attributed == mirror \in Campaigns /\ live # mirror => Landed # {} /\ Newest.out = mirror

IInv ==
    /\ TypeOK /\ RowInHand /\ Claims /\ OwnPrices /\ Standing
    /\ Mirrored /\ Asked /\ HoldsAsked /\ Attributed
    /\ Wants /\ Outranks /\ Outranking /\ Runs /\ TakenBack

(* A campaign that a step leaves alone. *)
LEMMA UnmovedSame ==
    ASSUME NEW d \in Campaigns, Unmoved(d)
    PROVE  /\ AtWork(d)' <=> AtWork(d)
           /\ Planned(d)' <=> Planned(d)
           /\ Reverts(d)' <=> Reverts(d)
           /\ Stance(d)' = Stance(d)
           /\ Ending(d)' <=> Ending(d)
           /\ LandedLast(d)' <=> LandedLast(d)
           /\ Put(d)' <=> Put(d)
           /\ LastRun(d) # 0 => LastOut(d)' = LastOut(d)
  <1>1. /\ AtWork(d)' <=> AtWork(d)
        /\ Planned(d)' <=> Planned(d)
        /\ Reverts(d)' <=> Reverts(d)
    BY DEF Unmoved, AtWork, Planned, Reverts
  <1>2. Stance(d)' = Stance(d)  BY <1>1 DEF Unmoved, Stance
  <1>3. LastRun(d) # 0 => LastOut(d)' = LastOut(d)  BY DEF Unmoved, LastOut
  <1>4. Ending(d)' <=> Ending(d)  BY DEF Unmoved, Ending
  <1>5. LandedLast(d)' <=> LandedLast(d)  BY <1>3 DEF Unmoved, LandedLast
  <1>6. Put(d)' <=> Put(d)  BY <1>2, <1>4, <1>5 DEF Unmoved, Put
  <1> QED  BY <1>1, <1>2, <1>3, <1>4, <1>5, <1>6

(* A step that writes nothing to the ledger. *)
LEMMA LedgerSame ==
    ASSUME ledger' = ledger
    PROVE  /\ Landed' = Landed /\ Max(Landed)' = Max(Landed) /\ Newest' = Newest
           /\ \A d \in Campaigns :
                 /\ RunsOf(d)' = RunsOf(d) /\ LastRun(d)' = LastRun(d)
                 /\ LastEnd(d)' = LastEnd(d) /\ LastOut(d)' = LastOut(d)
                 /\ Ending(d)' <=> Ending(d)
                 /\ LandedLast(d)' <=> LandedLast(d)
                 /\ Wrote(d)' <=> Wrote(d)
  <1>1. Landed' = Landed /\ \A d \in Campaigns : RunsOf(d)' = RunsOf(d)  BY DEF Landed, RunsOf
  <1>2. Max(Landed)' = Max(Landed) /\ Newest' = Newest  BY <1>1 DEF Newest
  <1>3. \A d \in Campaigns : LastRun(d)' = LastRun(d)  BY <1>1 DEF LastRun
  <1>4. \A d \in Campaigns : LastOut(d)' = LastOut(d)  BY <1>3 DEF LastOut
  <1>5. ASSUME NEW d \in Campaigns
        PROVE  LastEnd(d)' = LastEnd(d) /\ (Wrote(d)' <=> Wrote(d))
    <2>1. LastEnd(d)' = LastEnd(d)  BY <1>1 DEF LastEnd
    <2> QED  BY <1>1, <2>1 DEF Wrote
  <1>6. \A d \in Campaigns : (Ending(d)' <=> Ending(d)) /\ (LandedLast(d)' <=> LandedLast(d))
    BY <1>3, <1>4 DEF Ending, LandedLast
  <1> QED  BY <1>1, <1>2, <1>3, <1>4, <1>5, <1>6

(* A step that changes no campaign either. *)
LEMMA QuietSame ==
    ASSUME UNCHANGED <<status, before, work, ledger>>
    PROVE  /\ Competing' = Competing
           /\ AtRest' <=> AtRest
           /\ \A d \in Campaigns : Unmoved(d) /\ Others(d)' = Others(d)
  <1>1. \A d \in Campaigns : Unmoved(d)  BY LedgerSame DEF Unmoved
  <1>2. Competing' = Competing  BY LedgerSame DEF Competing
  <1>3. \A d \in Campaigns : Others(d)' = Others(d)  BY <1>2 DEF Others
  <1>4. AtRest' <=> AtRest  BY DEF AtRest, AtWork
  <1> QED  BY <1>1, <1>2, <1>3, <1>4

(* So do a change of scope and an edit. *)
LEMMA QuietKeeps ==
    ASSUME IInv, UNCHANGED <<status, before, work, ledger, event>>
    PROVE  RowInHand' /\ Claims' /\ OwnPrices' /\ Standing' /\ HoldsAsked' /\ AskedOf' = AskedOf
  <1>1. /\ Landed' = Landed /\ Max(Landed)' = Max(Landed) /\ Competing' = Competing
        /\ \A d \in Campaigns : Unmoved(d)
    BY QuietSame, LedgerSame
  <1>2. \A d \in Campaigns :
          /\ AtWork(d)' <=> AtWork(d)
          /\ Planned(d)' <=> Planned(d)
          /\ Reverts(d)' <=> Reverts(d)
          /\ Stance(d)' = Stance(d)
          /\ Ending(d)' <=> Ending(d)
          /\ LandedLast(d)' <=> LandedLast(d)
          /\ LastRun(d)' = LastRun(d) /\ RunsOf(d)' = RunsOf(d)
    BY <1>1, UnmovedSame DEF Unmoved, RunsOf
  <1>3. RowInHand'  BY <1>2 DEF IInv, RowInHand
  <1>4. Claims'  BY <1>2 DEF IInv, Claims
  <1>5. OwnPrices'  BY <1>1 DEF IInv, OwnPrices
  <1>6. Standing'  BY <1>2 DEF IInv, Standing
  <1>7. HoldsAsked'  BY <1>2 DEF IInv, HoldsAsked
  <1>8. AskedOf' = AskedOf
    <2>1. Controlling' = Controlling  BY DEF Controlling
    <2>2. OfControlling' = OfControlling  BY <1>1, <2>1 DEF OfControlling
    <2>3. Newest' = Newest  BY <1>1 DEF Newest
    <2>4. Inheritor(Competing, Newest.out)' = Inheritor(Competing, Newest.out)
      BY <1>1, <2>3 DEF Inheritor
    <2>5. PricedBy' = PricedBy  BY <2>2, <2>3, <2>4 DEF PricedBy
    <2>6. PricedBy \in Controlling => (Ending(PricedBy)' <=> Ending(PricedBy))
      BY <1>2, <2>5 DEF Controlling
    <2> QED  BY <1>1, <2>1, <2>5, <2>6 DEF AskedOf
  <1> QED  BY <1>3, <1>4, <1>5, <1>6, <1>7, <1>8

LEMMA InitInv == Init => IInv
  <1> SUFFICES ASSUME Init  PROVE IInv
    OBVIOUS
  <1>1. TypeOK
    <2>1. NoWork \in Work  BY NamesAssumption DEF NoWork, Work, Kinds
    <2>2. ledger \in Seq(Row)  BY EmptySeq DEF Init
    <2> QED  BY <2>1, <2>2, BoundsAssumption DEF Init, TypeOK, Prices, Rest
  <1>2. /\ Landed = {} /\ \A c \in Campaigns : RunsOf(c) = {}
        /\ \A c \in Campaigns : work[c].stage = "idle" /\ status[c] = "DRAFT"
    <2>1. DOMAIN ledger = {}  BY DEF Init
    <2> QED  BY <2>1 DEF Init, Landed, RunsOf, NoWork
  <1>3. \A c \in Campaigns : LastRun(c) = 0  BY <1>1, <1>2, LastRunIs
  <1>4. \A c \in Campaigns : ~AtWork(c) /\ ~Planned(c) /\ Stance(c) = "DRAFT" /\ ~Put(c) /\ ~LandedLast(c)
    BY <1>2, <1>3 DEF AtWork, Planned, Stance, Put, LandedLast
  <1>5. live \notin Campaigns  BY NamesAssumption DEF Init
  <1>6. RowInHand /\ Claims /\ OwnPrices /\ Standing
    BY <1>2, <1>3, <1>4 DEF RowInHand, Claims, OwnPrices, Standing, Running
  <1>7. Mirrored /\ Asked /\ HoldsAsked /\ Attributed
    BY <1>4 DEF Init, Mirrored, Asked, HoldsAsked, Attributed
  <1>8. Wants /\ Outranks /\ Outranking /\ Runs /\ TakenBack
    BY <1>1, <1>4, <1>5 DEF TypeOK, Wants, Outranks, Outranking, Runs, TakenBack
  <1> QED  BY <1>1, <1>6, <1>7, <1>8 DEF IInv

(* An edit. *)
LEMMA EditInv ==
    ASSUME IInv, Weak = {}, NEW p \in Hands, Edit(p)
    PROVE  IInv'
  <1>1. /\ UNCHANGED <<status, before, work, ledger, event>> /\ UNCHANGED <<mirror, scope>>
        /\ live' = p /\ AtRest /\ Recorded /\ event \in {None, AskedOf}
    BY DEF Edit
  <1>2. TypeOK'
    BY BoundsAssumption DEF IInv, TypeOK, Edit, Prices
  <1>3. RowInHand' /\ Claims' /\ OwnPrices' /\ Standing' /\ HoldsAsked' /\ AskedOf' = AskedOf
    BY <1>1, QuietKeeps
  <1>4. /\ Landed' = Landed /\ Newest' = Newest
        /\ AtRest' /\ \A d \in Campaigns : Unmoved(d)
    BY <1>1, QuietSame, LedgerSame
  <1>5. \A d \in Campaigns : ~Planned(d)'
    BY <1>4 DEF AtRest, AtWork, Planned
  <1>6. Mirrored'  BY <1>1 DEF Mirrored
  <1>7. Asked'  BY <1>1, <1>3, <1>4 DEF IInv, Asked
  <1>8. Attributed'
    <2>1. CASE live \in Campaigns  BY <1>1, <1>4, <2>1, NamesAssumption DEF IInv, Attributed, Mirrored, Recorded, Newest
    <2>2. CASE live \notin Campaigns  BY <1>1, <1>4, <2>2 DEF IInv, Attributed
    <2> QED  BY <2>1, <2>2
  <1>9. p \notin Campaigns  BY NamesAssumption
  <1>10. Wants' /\ Outranks' /\ Outranking' /\ Runs' /\ TakenBack'
    BY <1>1, <1>5, <1>9 DEF Wants, Outranks, Outranking, Runs, TakenBack
  <1> QED  BY <1>2, <1>3, <1>6, <1>7, <1>8, <1>10 DEF IInv

(* Whether a campaign's price would be found again is in the rows that landed. *)
LEMMA FoundAgainKept ==
    ASSUME TypeOK, NEW c \in Campaigns, FoundAgain(c), c \in scope => c \in scope',
           Landed' = Landed, \A i \in Landed : ledger'[i] = ledger[i], LastEnd(c)' = LastEnd(c),
           RunsOf(c) \subseteq RunsOf(c)'
    PROVE  FoundAgain(c)'
  <1>1. CASE c \in scope  BY <1>1 DEF FoundAgain
  <1>2. CASE Wrote(c)
    <2>1. Wrote(c)'  BY <1>2 DEF Wrote
    <2> QED  BY <2>1 DEF FoundAgain
  <1>3. CASE Landed # {} /\ Newest.kind = "REVERT" /\ Newest.camp # c /\ Newest.out = c
             /\ Max(Landed) > LastEnd(c)
    <2>1. Max(Landed)' = Max(Landed) /\ Max(Landed) \in Landed  BY <1>3, NewestIs
    <2>2. Newest' = Newest  BY <2>1 DEF Newest
    <2> QED  BY <1>3, <2>1, <2>2 DEF FoundAgain
  <1> QED  BY <1>1, <1>2, <1>3 DEF FoundAgain

LEMMA FoundAgainQuiet ==
    ASSUME TypeOK, ledger' = ledger, NEW c \in Campaigns, FoundAgain(c), c \in scope => c \in scope'
    PROVE  FoundAgain(c)'
  <1>1. \A i \in Landed : ledger'[i] = ledger[i]  OBVIOUS
  <1> QED  BY <1>1, LedgerSame, FoundAgainKept

(* The product leaves a campaign's scope, and its price is on record. *)
LEMMA LeaveInv ==
    ASSUME IInv, Weak = {}, NEW c \in Campaigns, Leave(c)
    PROVE  IInv'
  <1>1. /\ UNCHANGED <<status, before, work, ledger, event>> /\ UNCHANGED <<live, mirror>>
        /\ scope' = scope \ {c} /\ AtRest /\ (live # c \/ Recorded)
    BY DEF Leave
  <1>2. TypeOK'
    BY BoundsAssumption DEF IInv, TypeOK, Leave
  <1>3. RowInHand' /\ Claims' /\ OwnPrices' /\ Standing' /\ HoldsAsked' /\ AskedOf' = AskedOf
    BY <1>1, QuietKeeps
  <1>4. /\ Landed' = Landed /\ Max(Landed)' = Max(Landed) /\ Newest' = Newest
        /\ AtRest' /\ \A d \in Campaigns : Unmoved(d)
    BY <1>1, QuietSame, LedgerSame
  <1>5. \A d \in Campaigns :
          /\ ~Planned(d)' /\ ~Planned(d) /\ (Put(d)' <=> Put(d)) /\ Stance(d)' = Stance(d)
          /\ Ending(d)' <=> Ending(d)
          /\ Ending(d) => LastOut(d)' = LastOut(d)
    BY <1>1, <1>4, UnmovedSame DEF AtRest, AtWork, Planned, Ending
  <1>6. Mirrored' /\ Asked' /\ Attributed'
    BY <1>1, <1>3, <1>4 DEF IInv, Mirrored, Asked, Attributed
  <1>7. Wants' /\ Outranks' /\ Outranking' /\ Runs'
    BY <1>1, <1>5 DEF IInv, TypeOK, Wants, Outranks, Outranking, Runs, RankOf
  <1>8. TakenBack'
    <2> SUFFICES ASSUME NEW d \in Campaigns, live = d  PROVE FoundAgain(d)'
      BY <1>1, <1>5 DEF IInv, TakenBack
    <2>1. FoundAgain(d)  BY DEF IInv, TakenBack
    <2>2. CASE d # c  BY <1>1, <2>1, <2>2, FoundAgainQuiet DEF IInv
    <2>3. CASE d = c
      <3> DEFINE m == Max(Landed)
      <3>1. Landed # {} /\ Newest.out = d /\ m > LastEnd(d)  BY <1>1, <2>3 DEF Recorded, Newest
      <3>2. m \in Landed /\ m \in DOMAIN ledger /\ Newest \in Row
        BY <3>1, NewestIs DEF IInv, Landed, Newest
      <3>3. CASE Newest.kind = "APPLY"
        <4>1. Newest.camp = d  BY <3>1, <3>2, <3>3 DEF IInv, OwnPrices, Newest
        <4>2. Wrote(d)  BY <3>1, <3>2, <3>3, <4>1 DEF Wrote, RunsOf, Newest
        <4>3. Wrote(d)'  BY <1>1, <4>2, LedgerSame
        <4> QED  BY <4>3 DEF FoundAgain
      <3>4. CASE Newest.kind # "APPLY"
        <4>1. Newest.kind = "REVERT"  BY <3>2, <3>4 DEF Row, Kinds
        <4>2. Newest.camp # d  BY <3>1, <3>2, <4>1 DEF IInv, OwnPrices, Newest
        <4>3. LastEnd(d)' = LastEnd(d)  BY <1>1, LedgerSame
        <4> QED  BY <1>4, <3>1, <4>1, <4>2, <4>3 DEF FoundAgain
      <3> QED  BY <3>3, <3>4
    <2> QED  BY <2>2, <2>3
  <1> QED  BY <1>2, <1>3, <1>6, <1>7, <1>8 DEF IInv

(* It enters that of a campaign before its sale. *)
LEMMA EnterInv ==
    ASSUME IInv, Weak = {}, NEW c \in Campaigns, Enter(c)
    PROVE  IInv'
  <1>1. /\ UNCHANGED <<status, before, work, ledger, event>> /\ UNCHANGED <<live, mirror>>
        /\ scope' = scope \cup {c} /\ status[c] \in {"DRAFT", "COMPLETED"}
    BY DEF Enter
  <1>2. TypeOK'
    BY BoundsAssumption DEF IInv, TypeOK, Enter
  <1>3. RowInHand' /\ Claims' /\ OwnPrices' /\ Standing' /\ HoldsAsked' /\ AskedOf' = AskedOf
    BY <1>1, QuietKeeps
  <1>4. /\ Landed' = Landed /\ Newest' = Newest /\ (AtRest' <=> AtRest)
        /\ \A d \in Campaigns : Unmoved(d) /\ Others(d)' = Others(d)
    BY <1>1, QuietSame, LedgerSame
  <1>5. \A d \in Campaigns :
          /\ Planned(d)' <=> Planned(d)
          /\ Reverts(d)' <=> Reverts(d)
          /\ Put(d)' <=> Put(d)
          /\ Stance(d)' = Stance(d)
          /\ Ending(d)' <=> Ending(d)
          /\ Ending(d) => LastOut(d)' = LastOut(d)
    BY <1>1, <1>4, UnmovedSame DEF Ending
  <1>6. ~AtWork(c) /\ ~Planned(c)  BY <1>1 DEF IInv, Claims, AtWork, Planned
  <1>7. ~Put(c)  BY <1>1, <1>6 DEF Put, Stance
  <1>8. Mirrored' /\ Asked' /\ Attributed'
    BY <1>1, <1>3, <1>4 DEF IInv, Mirrored, Asked, Attributed
  <1>9. Wants'  BY <1>1, <1>4, <1>5 DEF IInv, Wants
  <1>10. Outranks' /\ Runs'
    BY <1>1, <1>5, <1>7 DEF IInv, TypeOK, Outranks, Runs, RankOf
  <1>11. Outranking'
    <2> SUFFICES ASSUME NEW d \in Campaigns, Planned(d)
                 PROVE  IF work[d].want # None
                        THEN \A e \in scope' \ {d} : Put(e)' => Rank[e] <= RankOf(work[d].want)
                        ELSE Reverts(d) \/ live \in Hands \/ d \notin scope' \/ Rank[d] <= RankOf(live)
      BY <1>1, <1>5 DEF Outranking, RankOf
    <2>1. IF work[d].want # None
          THEN \A e \in scope \ {d} : Put(e) => Rank[e] <= RankOf(work[d].want)
          ELSE Reverts(d) \/ live \in Hands \/ d \notin scope \/ Rank[d] <= RankOf(live)
      BY DEF IInv, Outranking
    <2>2. d # c  BY <1>6
    <2>3. \A e \in scope' \ {d} : Put(e)' => e \in scope \ {d} /\ Put(e)
      BY <1>1, <1>5, <1>7 DEF IInv, TypeOK
    <2> QED  BY <1>1, <2>1, <2>2, <2>3
  <1>12. TakenBack'
    BY <1>1, <1>5, FoundAgainQuiet DEF IInv, TakenBack
  <1> QED  BY <1>2, <1>3, <1>8, <1>9, <1>10, <1>11, <1>12 DEF IInv

(* A campaign held or let go while nothing runs and a price of the merchant's is up. *)
LEMMA MovedAtRest ==
    ASSUME IInv, AtRest, live \in Hands, live' = live, scope' = scope,
           UNCHANGED <<before, work, ledger>>,
           NEW a \in Campaigns, NEW t \in Running, status[a] \in Running, ~Ending(a),
           status' = [status EXCEPT ![a] = t]
    PROVE  /\ RowInHand' /\ Claims' /\ OwnPrices' /\ Standing' /\ Mirrored'
           /\ Wants' /\ Outranks' /\ Outranking' /\ Runs' /\ TakenBack' /\ AtRest'
           /\ \A d \in Campaigns : Stance(d)' = IF d = a THEN t ELSE Stance(d)
           /\ Stance(a) = status[a]
           /\ status' \in [Campaigns -> Rest \cup {"APPLYING", "REVERTING"}]
  <1>1. /\ status \in [Campaigns -> Rest \cup {"APPLYING", "REVERTING"}]
        /\ status' \in [Campaigns -> Rest \cup {"APPLYING", "REVERTING"}]
        /\ \A d \in Campaigns : status'[d] = IF d = a THEN t ELSE status[d]
    BY DEF IInv, TypeOK, Running, Rest
  <1>2. AtRest' /\ \A d \in Campaigns : ~AtWork(d) /\ ~AtWork(d)' /\ ~Planned(d) /\ ~Planned(d)'
    BY DEF AtRest, AtWork, Planned
  <1>3. /\ \A d \in Campaigns : Stance(d)' = IF d = a THEN t ELSE Stance(d)
        /\ Stance(a) = status[a]
    BY <1>1, <1>2 DEF Stance
  <1>4. RowInHand'  BY <1>2 DEF RowInHand
  <1>5. Claims'
    <2>1. \A d \in Campaigns : status'[d] \notin {"APPLYING", "REVERTING"}
      BY <1>1, <1>2 DEF IInv, Claims, Running
    <2> QED  BY <1>2, <2>1 DEF Claims, AtWork
  <1>6. OwnPrices'  BY LedgerSame DEF IInv, OwnPrices
  <1>7. Standing'
    <2>1. \A d \in Campaigns : /\ LastRun(d)' = LastRun(d) /\ (Ending(d)' <=> Ending(d))
                               /\ LandedLast(d)' <=> LandedLast(d)
      BY LedgerSame
    <2> QED  BY <1>2, <1>3, <2>1 DEF IInv, Standing, Running
  <1>8. Mirrored'  BY DEF Mirrored
  <1>9. live \notin Campaigns  BY NamesAssumption
  <1>10. Wants' /\ Outranks' /\ Outranking' /\ Runs' /\ TakenBack'
    BY <1>2, <1>9 DEF Wants, Outranks, Outranking, Runs, TakenBack
  <1> QED  BY <1>1, <1>2, <1>3, <1>4, <1>5, <1>6, <1>7, <1>8, <1>10

(* A webhook. *)
LEMMA DeliverInv ==
    ASSUME IInv, Weak = {}, Deliver
    PROVE  IInv'
  <1>1. /\ AtRest /\ mirror # live /\ mirror' = live /\ live' = live /\ scope' = scope
        /\ UNCHANGED <<before, work, ledger>> /\ UNCHANGED counts
    BY DEF Deliver
  <1>2. live \in Prices /\ None \notin Campaigns  BY NamesAssumption DEF IInv, TypeOK, Prices
  <1>3. CASE Drifted /\ AskedOf # None
    <2> DEFINE a == AskedOf
    <2>1. a \in Campaigns /\ status[a] \in Running /\ ~Ending(a)
      BY <1>3 DEF AskedOf, Controlling, Running
    <2>2. mirror # Unknown /\ live \in Hands  BY <1>3 DEF Drifted
    <2>3. event \in {None, a}  BY <1>1, <1>3, <2>2 DEF IInv, Asked
    <2>4. event' = a  BY <1>3, <2>3 DEF Deliver
    <2>5. status' = [status EXCEPT ![a] = "HELD"]
      <3>1. HoldFor(a)  BY <1>3 DEF Deliver
      <3> QED  BY <2>1, <3>1 DEF HoldFor, Running, IInv, TypeOK
    <2> HIDE DEF a
    <2>6. "HELD" \in Running  BY DEF Running
    <2>7. /\ RowInHand' /\ Claims' /\ OwnPrices' /\ Standing' /\ Mirrored'
          /\ Wants' /\ Outranks' /\ Outranking' /\ Runs' /\ TakenBack' /\ AtRest'
          /\ \A d \in Campaigns : Stance(d)' = IF d = a THEN "HELD" ELSE Stance(d)
          /\ status' \in [Campaigns -> Rest \cup {"APPLYING", "REVERTING"}]
      BY <1>1, <2>1, <2>2, <2>5, <2>6, MovedAtRest
    <2>8. TypeOK'  BY <1>1, <2>1, <2>4, <2>7 DEF IInv, TypeOK, counts
    <2>9. Asked' /\ Attributed'  BY <1>1, <2>2 DEF Asked, Attributed
    <2>10. HoldsAsked'
      <3>1. \A d \in Campaigns : Stance(d) = "HELD" => event = d  BY DEF IInv, HoldsAsked
      <3> QED  BY <1>2, <2>3, <2>4, <2>7, <3>1 DEF HoldsAsked
    <2> QED  BY <2>7, <2>8, <2>9, <2>10 DEF IInv
  <1>4. CASE ~(Drifted /\ AskedOf # None)
    <2>1. UNCHANGED <<event, status>>  BY <1>4 DEF Deliver
    <2>2. RowInHand' /\ Claims' /\ OwnPrices' /\ Standing' /\ HoldsAsked'
      BY <1>1, <2>1, QuietKeeps
    <2>3. TypeOK'  BY <1>1, <1>2, <2>1 DEF IInv, TypeOK, counts
    <2>4. Mirrored' /\ Asked' /\ Attributed'
      BY <1>1, <2>1 DEF IInv, Mirrored, Asked, Attributed
    <2>5. \A d \in Campaigns : Unmoved(d) /\ Others(d)' = Others(d)  BY <1>1, <2>1, QuietSame
    <2>6. \A d \in Campaigns :
            /\ ~Planned(d)' /\ (Put(d)' <=> Put(d)) /\ Stance(d)' = Stance(d)
            /\ Ending(d)' <=> Ending(d)
            /\ LastOut(d)' = LastOut(d)
      BY <1>1, <2>5, UnmovedSame, LedgerSame DEF AtRest, AtWork, Planned
    <2>7. Wants' /\ Outranks' /\ Outranking' /\ Runs'
      BY <1>1, <2>6 DEF IInv, TypeOK, Wants, Outranks, Outranking, Runs, RankOf
    <2>8. TakenBack'  BY <1>1, <2>6, FoundAgainQuiet DEF IInv, TakenBack
    <2> QED  BY <2>2, <2>3, <2>4, <2>7, <2>8 DEF IInv
  <1> QED  BY <1>3, <1>4

(* An answer. *)
LEMMA AnswerInv ==
    ASSUME IInv, Weak = {}, Answer
    PROVE  IInv'
  <1>1. /\ AtRest /\ event # None /\ event' = None /\ live' = live /\ mirror' = mirror /\ scope' = scope
        /\ UNCHANGED <<before, work, ledger>> /\ UNCHANGED counts
    BY DEF Answer
  <1>2. event \in Campaigns /\ live \in Hands /\ mirror \in Hands \cup {Unknown}
    BY <1>1 DEF IInv, TypeOK, Asked
  <1>3. Asked' /\ Attributed'
    BY <1>1, <1>2, NamesAssumption DEF Asked, Attributed, Prices
  <1>4. CASE status[event] = "HELD"
    <2> DEFINE t == IF ledger[Max(Finished(event))].state = "PARTIAL" THEN "PARTIAL" ELSE "ACTIVE"
    <2>1. t \in Running /\ t # "HELD" /\ status' = [status EXCEPT ![event] = t]
      BY <1>4 DEF Running, Answer
    <2>2. Stance(event) = "HELD" /\ ~Planned(event)
      BY <1>1, <1>2, <1>4 DEF Stance, AtRest, AtWork, Planned
    <2>3. status[event] \in Running /\ ~Ending(event)
      BY <1>2, <1>4, <2>2 DEF IInv, Standing, Running
    <2> HIDE DEF t
    <2>4. /\ RowInHand' /\ Claims' /\ OwnPrices' /\ Standing' /\ Mirrored'
          /\ Wants' /\ Outranks' /\ Outranking' /\ Runs' /\ TakenBack' /\ AtRest'
          /\ \A d \in Campaigns : Stance(d)' = IF d = event THEN t ELSE Stance(d)
          /\ status' \in [Campaigns -> Rest \cup {"APPLYING", "REVERTING"}]
      BY <1>1, <1>2, <2>1, <2>3, MovedAtRest
    <2>5. TypeOK'  BY <1>1, <2>4 DEF IInv, TypeOK, counts
    <2>6. HoldsAsked'  BY <2>1, <2>4 DEF IInv, HoldsAsked
    <2> QED  BY <1>3, <2>4, <2>5, <2>6 DEF IInv
  <1>5. CASE status[event] # "HELD"
    <2>1. status' = status  BY <1>5 DEF Answer
    <2>2. /\ \A d \in Campaigns : Unmoved(d)
          /\ \A d \in Campaigns : ~Planned(d) /\ ~Planned(d)' /\ ~AtWork(d) /\ ~AtWork(d)'
      BY <1>1, <2>1, QuietSame DEF AtRest, AtWork, Planned
    <2>3. RowInHand' /\ Wants' /\ Outranking'  BY <2>2 DEF RowInHand, Wants, Outranking
    <2>4. Claims'  BY <2>1, <2>2 DEF IInv, Claims, AtWork
    <2>5. OwnPrices'  BY <1>1, LedgerSame DEF IInv, OwnPrices
    <2>6. \A d \in Campaigns :
            /\ Stance(d)' = Stance(d) /\ LastRun(d)' = LastRun(d) /\ (Ending(d)' <=> Ending(d))
            /\ LandedLast(d)' <=> LandedLast(d)
      BY <1>1, <2>2, UnmovedSame, LedgerSame
    <2>7. Standing'  BY <2>2, <2>6 DEF IInv, Standing
    <2>8. HoldsAsked'
      <3>1. \A d \in Campaigns : Stance(d) # "HELD"
        BY <1>5, <2>2 DEF IInv, HoldsAsked, Stance
      <3> QED  BY <2>6, <3>1 DEF HoldsAsked
    <2>9. TypeOK'  BY <1>1, <2>1 DEF IInv, TypeOK, counts
    <2>10. Mirrored' /\ Outranks' /\ Runs' /\ TakenBack'
      BY <1>1, <1>2, NamesAssumption DEF Mirrored, Outranks, Runs, TakenBack
    <2> QED  BY <1>3, <2>3, <2>4, <2>5, <2>7, <2>8, <2>9, <2>10 DEF IInv
  <1> QED  BY <1>4, <1>5

(* A run is claimed. *)
LEMMA ClaimInv ==
    ASSUME IInv, Weak = {}, NEW c \in Campaigns, NEW kind \in Kinds, NEW resume \in BOOLEAN,
           Claim(c, kind, resume)
    PROVE  IInv'
  <1>1. /\ AtRest /\ (event = None \/ mirror = live) /\ ledger' = ledger /\ runs' = runs + 1
        /\ runs < MaxRuns
        /\ resume => status[c] = "PARTIAL" /\ ledger[LastRun(c)].kind = kind
        /\ UNCHANGED <<live, mirror, scope, event, edits, moves, troubles>>
    BY DEF Claim
  <1>2. TypeOK  BY DEF IInv
  <1>3. /\ work' \in [Campaigns -> Work] /\ before' \in [Campaigns -> Rest]
        /\ status' \in [Campaigns -> Rest \cup {"APPLYING", "REVERTING"}]
        /\ \A d \in Campaigns \ {c} : Unmoved(d)
        /\ work'[c].stage = "claimed" /\ work'[c].kind = kind /\ work'[c].resume = resume
        /\ before'[c] = status[c] /\ status'[c] \in {"APPLYING", "REVERTING"}
    BY <1>2, ClaimDoes
  <1>4. \A d \in Campaigns : ~AtWork(d) /\ ~Planned(d)
    BY <1>1 DEF AtRest, AtWork, Planned
  <1>5. /\ AtWork(c)' /\ ~Planned(c)' /\ Stance(c)' = Stance(c) /\ Stance(c) = status[c]
    BY <1>3, <1>4 DEF AtWork, Planned, Stance
  <1>6. \A d \in Campaigns \ {c} :
          /\ ~AtWork(d)' /\ ~Planned(d)' /\ Stance(d)' = Stance(d)
          /\ (Put(d)' <=> Put(d)) /\ status'[d] = status[d]
    BY <1>3, <1>4, UnmovedSame DEF Unmoved
  <1>7. /\ Landed' = Landed /\ Newest' = Newest
        /\ \A d \in Campaigns :
              /\ LastRun(d)' = LastRun(d) /\ LastOut(d)' = LastOut(d)
              /\ Ending(d)' <=> Ending(d)
              /\ LandedLast(d)' <=> LandedLast(d)
    BY <1>1, LedgerSame
  <1>8. TypeOK'  BY <1>1, <1>3, BoundsAssumption DEF IInv, TypeOK
  <1>9. RowInHand' /\ Wants' /\ Outranking'
    BY <1>5, <1>6 DEF RowInHand, Wants, Outranking
  <1>10. Claims'
    <2>1. \A d \in Campaigns : AtWork(d)' <=> status'[d] \in {"APPLYING", "REVERTING"}
      BY <1>3, <1>4, <1>5, <1>6 DEF IInv, Claims
    <2>2. \A d \in Campaigns : work'[d].stage = "claimed" => d = c  BY <1>6 DEF AtWork
    <2> QED  BY <1>1, <1>3, <1>5, <1>6, <1>7, <2>1, <2>2 DEF Claims
  <1>11. OwnPrices'  BY <1>1, <1>7 DEF IInv, OwnPrices
  <1>12. \A d \in Campaigns : Stance(d)' = Stance(d)  BY <1>5, <1>6
  <1>13. Standing'  BY <1>4, <1>7, <1>12 DEF IInv, Standing
  <1>14. Mirrored' /\ Asked' /\ HoldsAsked' /\ Attributed'
    BY <1>1, <1>7, <1>12 DEF IInv, Mirrored, Asked, HoldsAsked, Attributed
  <1>15. Put(c)' => Put(c)
    <2>1. Stance(c) \in {"DRAFT", "COMPLETED"} => Ending(c) \/ ~LandedLast(c)
      BY DEF IInv, Standing
    <2>2. status[c] \in Rest  BY <1>4 DEF IInv, Claims, TypeOK
    <2> QED  BY <1>5, <1>7, <2>1, <2>2 DEF Put, Rest
  <1>16. Outranks' /\ Runs'
    BY <1>1, <1>2, <1>6, <1>12, <1>15 DEF IInv, TypeOK, Outranks, Runs, RankOf
  <1>17. TakenBack'
    BY <1>1, <1>2, <1>5, <1>6, <1>7, FoundAgainQuiet DEF IInv, TakenBack
  <1> QED  BY <1>8, <1>9, <1>10, <1>11, <1>13, <1>14, <1>16, <1>17 DEF IInv

(* A plan that finds nothing to put back has none of its campaign's prices before it. *)
LEMMA NothingToPutBack ==
    ASSUME IInv, NEW c \in Campaigns, work[c].stage = "claimed", Reverts(c), NEW keep \in BOOLEAN,
           keep => Shown(c) \in Hands, Rows(c, keep) \in {None, Kept}
    PROVE  live # c
  <1> SUFFICES ASSUME live = c  PROVE FALSE
    OBVIOUS
  <1>1. /\ FoundAgain(c) /\ ~(Ending(c) /\ LastOut(c) = Kept)
        /\ mirror \in {live, Unknown} /\ event = None /\ live \notin Hands
    BY NamesAssumption DEF IInv, TakenBack, Mirrored, Asked
  <1>2. Unknown \notin Prices /\ Base \notin Campaigns /\ None \notin Campaigns
    BY NamesAssumption DEF Prices
  <1>3. Want(c) \in Prices /\ Want(c) # c /\ Want(c) # None /\ Want(c) # Kept
    <2>1. Want(c) \in Others(c) \/ Want(c) = Base  BY WantIs DEF IInv
    <2> QED  BY <1>2, <2>1, NamesAssumption DEF Others, Competing, Prices
  <1>4. Shown(c) \in {live, mirror} /\ Shown(c) # Want(c)
    BY <1>1, <1>2, <1>3 DEF Shown
  <1>5. Shown(c) \notin Hands  BY <1>1, <1>2, <1>4 DEF Prices
  <1>6. ~Held(c)  BY <1>1, <1>2 DEF Held, Others, Competing
  <1>7. Candidate(c)
    <2>1. CASE c \in scope  BY <2>1 DEF Candidate
    <2>2. CASE Wrote(c)  BY <2>2 DEF Candidate, TakesBack
    <2>3. CASE Landed # {} /\ Newest.kind = "REVERT" /\ Newest.camp # c /\ Newest.out = c
               /\ Max(Landed) > LastEnd(c)
      <3>1. event \notin {c} \cup Competing  BY <1>1, <1>2 DEF Competing
      <3>2. Inheritor({c} \cup Competing, Newest.out) = c  BY <2>3, <3>1 DEF Inheritor
      <3> QED  BY <2>3, <3>2 DEF Candidate, TakesBack, Inherited
    <2> QED  BY <1>1, <2>1, <2>2, <2>3 DEF FoundAgain
  <1>8. Before(c) # Kept
    <2>1. CASE work[c].resume
      <3>1. before[c] = "PARTIAL" /\ ledger[LastRun(c)].kind = "REVERT"
        BY <2>1 DEF IInv, Claims, Reverts
      <3>2. LastRun(c) # 0  BY <3>1 DEF IInv, Standing, Stance, AtWork, Running
      <3> QED  BY <1>1, <2>1, <3>1, <3>2 DEF Ending, LastOut, Before
    <2>2. CASE ~work[c].resume  BY <2>2 DEF Before, None, Kept
    <2> QED  BY <2>1, <2>2
  <1>9. Rows(c, keep) = Want(c)  BY <1>4, <1>5, <1>6, <1>7, <1>8 DEF Rows
  <1> QED  BY <1>3, <1>9

(* An apply that has nothing to write is outranked, held off, or has no part in it. *)
LEMMA NothingToWrite ==
    ASSUME IInv, NEW c \in Campaigns, work[c].stage = "claimed", ~Reverts(c), NEW keep \in BOOLEAN,
           Rows(c, keep) = None
    PROVE  live \in Hands \/ c \notin scope \/ Rank[c] <= RankOf(live)
  <1>1. Unknown \notin Prices /\ Base \notin Campaigns /\ None \notin Campaigns
    BY NamesAssumption DEF Prices
  <1>2. /\ Want(c) \in Prices /\ Want(c) # None /\ Want(c) # Unknown
        /\ Rank[c] <= RankOf(Want(c))
    <2>1. Want(c) \in Others(c) \cup {c} /\ Rank[c] <= RankOf(Want(c))  BY WantIs DEF IInv
    <2> QED  BY <1>1, <2>1, NamesAssumption DEF Others, Competing, Prices
  <1>3. CASE ~Candidate(c)  BY <1>3 DEF Candidate
  <1>4. CASE Held(c)
    <2>1. event # None  BY <1>1, <1>4 DEF Held, Others, Competing
    <2> QED  BY <2>1 DEF IInv, Asked
  <1>5. CASE Shown(c) = Want(c)
    <2>1. mirror = Want(c)  BY <1>5 DEF Shown
    <2> QED  BY <1>2, <2>1 DEF IInv, Mirrored
  <1>6. CASE Before(c) \in Prices
    <2>1. work[c].resume  BY <1>6, NamesAssumption DEF Before
    <2>2. before[c] = "PARTIAL" /\ ledger[LastRun(c)].kind = work[c].kind
      BY <2>1 DEF IInv, Claims
    <2>3. AtWork(c) /\ status[c] \in {"APPLYING", "REVERTING"}  BY DEF IInv, Claims, AtWork
    <2>4. LastRun(c) # 0  BY <2>2, <2>3 DEF IInv, Standing, Stance, Running
    <2>5. ~Ending(c) /\ LandedLast(c)
      BY <1>6, <2>1, <2>2, <2>4 DEF Ending, Reverts, LandedLast, LastOut, Before
    <2> QED  BY <2>3, <2>5 DEF IInv, Outranks, Put
  <1> QED  BY <1>2, <1>3, <1>4, <1>5, <1>6 DEF Rows

(* A run is planned. *)
LEMMA PlanInv ==
    ASSUME IInv, Weak = {}, NEW c \in Campaigns, NEW keep \in BOOLEAN, Plan(c, keep)
    PROVE  IInv'
  <1> DEFINE n   == Len(ledger) + 1
             row == Rows(c, keep)
             out == IF row = Kept THEN Kept ELSE None
  <1>1. /\ work[c].stage = "claimed" /\ mirror' = Shown(c)
        /\ (keep => Reverts(c) /\ Shown(c) \in Hands) /\ (Reverts(c) \/ row \in {None, c})
        /\ UNCHANGED <<live, scope, status, before, event>> /\ UNCHANGED counts
    BY DEF Plan
  <1>2. TypeOK /\ AtWork(c) /\ ~Planned(c)  BY <1>1 DEF IInv, AtWork, Planned
  <1>3. /\ ledger' \in Seq(Row) /\ Len(ledger') = n
        /\ \A i \in DOMAIN ledger : ledger'[i] = ledger[i]
        /\ ledger'[n] = [camp |-> c, kind |-> work[c].kind, state |-> "EXECUTING", out |-> out]
        /\ n \in RunsOf(c)' /\ LastRun(c)' = n
        /\ Landed' = Landed /\ \A d \in Campaigns : LastEnd(d)' = LastEnd(d)
        /\ work' \in [Campaigns -> Work]
        /\ work'[c].stage = "planned" /\ work'[c].kind = work[c].kind /\ work'[c].row = n
        /\ work'[c].want = IF row = Kept THEN None ELSE row
        /\ \A d \in Campaigns \ {c} : Unmoved(d)
    BY <1>2, PlanDoes
  <1>4. \A d \in Campaigns \ {c} : ~AtWork(d)  BY <1>2 DEF IInv, Claims
  <1>5. \A d \in Campaigns \ {c} :
          /\ ~AtWork(d)' /\ ~Planned(d)' /\ Stance(d)' = Stance(d)
          /\ (Put(d)' <=> Put(d)) /\ (Ending(d)' <=> Ending(d)) /\ (LandedLast(d)' <=> LandedLast(d))
          /\ LastRun(d)' = LastRun(d) /\ (LastRun(d) # 0 => LastOut(d)' = LastOut(d))
    BY <1>3, <1>4, UnmovedSame DEF AtWork, Planned, Unmoved
  <1>6. Len(ledger) \in Nat /\ DOMAIN ledger = 1 .. Len(ledger) /\ Landed \subseteq DOMAIN ledger
    BY <1>2, LedgerIs
  <1>7. /\ AtWork(c)' /\ Planned(c)' /\ (Reverts(c)' <=> Reverts(c)) /\ Stance(c)' = Stance(c)
        /\ n # 0 /\ (Ending(c)' <=> Reverts(c)) /\ LastOut(c)' = out /\ ~LandedLast(c)'
    <2>1. AtWork(c)' /\ Planned(c)' /\ (Reverts(c)' <=> Reverts(c)) /\ n # 0
      BY <1>3, <1>6 DEF AtWork, Planned, Reverts
    <2>2. Stance(c)' = Stance(c)  BY <1>1, <1>2, <2>1 DEF Stance
    <2>3. LastOut(c)' = out /\ out \notin Prices
      BY <1>3, NamesAssumption DEF LastOut
    <2>4. Ending(c)' <=> Reverts(c)  BY <1>3, <2>1 DEF Ending, Reverts
    <2> QED  BY <2>1, <2>2, <2>3, <2>4 DEF LandedLast
  <1>8. TypeOK'
    <2>1. Shown(c) \in Prices \cup {Unknown}  BY DEF IInv, TypeOK, Shown
    <2> QED  BY <1>1, <1>3, <2>1 DEF IInv, TypeOK, counts
  <1>9. RowInHand'
    <2>1. row = Kept => Reverts(c)  BY <1>2, RowsIs
    <2> QED  BY <1>3, <1>5, <1>7, <2>1 DEF RowInHand
  <1>10. Claims'
    <2>1. \A d \in Campaigns : (AtWork(d)' <=> AtWork(d)) /\ work'[d].stage # "claimed"
      BY <1>2, <1>3, <1>4, <1>5, <1>7 DEF AtWork
    <2> QED  BY <1>1, <2>1 DEF IInv, Claims
  <1>11. OwnPrices'  BY <1>3, <1>6 DEF IInv, OwnPrices
  <1>12. Standing'
    <2>1. \A d \in Campaigns \ {c} : ~Planned(d)  BY <1>4 DEF AtWork, Planned
    <2> QED  BY <1>3, <1>5, <1>7, <2>1 DEF IInv, Standing
  <1>13. mirror' \in {live, mirror}  BY <1>1 DEF Shown
  <1>14. Mirrored' /\ HoldsAsked'
    BY <1>1, <1>5, <1>7, <1>13 DEF IInv, Mirrored, HoldsAsked
  <1>15. Asked'
    <2>1. ~AtRest  BY <1>2 DEF AtRest
    <2> QED  BY <1>1, <1>13, <2>1 DEF IInv, Asked
  <1>16. Attributed'
    <2>1. Landed # {} => Newest' = Newest  BY <1>2, <1>3, <1>6, NewestIs DEF Newest
    <2> QED  BY <1>1, <1>3, <1>13, <2>1 DEF IInv, Attributed
  <1>17. Others(c)' = Others(c)
    <2>1. \A d \in Campaigns \ {c} : d \in Competing' <=> d \in Competing  BY <1>1, <1>5 DEF Competing
    <2> QED  BY <2>1 DEF Others, Competing
  <1>18. row \in {Want(c), Kept, None} /\ Want(c) \in Campaigns \cup {Base} /\ Want(c) # Kept
         /\ Want(c) # None
    BY <1>2, RowsIs, NamesAssumption DEF Prices
  <1> DEFINE C == (Others(c) \cap scope) \cup (IF Reverts(c) THEN {} ELSE {c})
  <1>19. (Want(c) \in C \/ (C = {} /\ Want(c) = Base)) /\ \A d \in C : Rank[d] <= RankOf(Want(c))
    BY <1>2, WantIs
  <1>20. Wants'
    <2> SUFFICES ASSUME row = Want(c)
                 PROVE  /\ \/ Want(c) \in Others(c) \cap scope
                           \/ Reverts(c) /\ Want(c) = Base
                           \/ ~Reverts(c) /\ Want(c) = c /\ c \in scope
                        /\ event \notin Others(c)
                        /\ ~Reverts(c) => Want(c) = c
      BY <1>1, <1>3, <1>5, <1>7, <1>17, <1>18 DEF Wants
    <2>1. Candidate(c) /\ ~Held(c)  BY <1>18 DEF Rows
    <2>2. event \notin Others(c)  BY <2>1 DEF Held
    <2>3. ~Reverts(c) => Want(c) = c /\ c \in scope  BY <1>1, <1>18, <2>1 DEF Candidate
    <2> QED  BY <1>19, <2>2, <2>3
  <1>21. Put(c)' => Put(c)
    <2>1. Stance(c) \in {"ACTIVE", "HELD"} => ~Ending(c)  BY <1>2 DEF IInv, Standing
    <2> QED  BY <1>7, <2>1 DEF Put
  <1>22. Outranks' /\ Runs'
    BY <1>1, <1>2, <1>5, <1>7, <1>21 DEF IInv, TypeOK, Outranks, Runs, RankOf
  <1>23. Outranking'
    <2>1. CASE row = Want(c)
      <3>1. work'[c].want = Want(c) /\ Want(c) # None  BY <1>3, <1>18, <2>1
      <3>2. \A d \in scope \ {c} : Put(d) => d \in C
        <4> SUFFICES ASSUME NEW d \in scope \ {c}, Put(d)  PROVE d \in Competing
          BY DEF Others
        <4>1. d \in Campaigns /\ ~AtWork(d)  BY <1>2, <1>4 DEF TypeOK
        <4>2. status[d] \notin {"APPLYING", "REVERTING"} /\ Stance(d) = status[d]
          BY <4>1 DEF IInv, Claims, Stance
        <4> QED  BY <4>1, <4>2 DEF Put, Competing, Pricing
      <3> HIDE DEF C
      <3>3. \A d \in scope \ {c} : Put(d)' => Rank[d] <= RankOf(Want(c))
        BY <1>2, <1>5, <1>19, <3>2 DEF TypeOK
      <3> QED  BY <1>1, <1>5, <3>1, <3>3 DEF Outranking, RankOf
    <2>2. CASE row # Want(c)
      <3>1. work'[c].want = None /\ (~Reverts(c) => row = None)
        BY <1>2, <1>3, <1>18, <2>2, RowsIs
      <3>2. Reverts(c) \/ live \in Hands \/ c \notin scope \/ Rank[c] <= RankOf(live)
        BY <1>1, <3>1, NothingToWrite
      <3> QED  BY <1>1, <1>5, <1>7, <3>1, <3>2 DEF Outranking, RankOf
    <2> QED  BY <2>1, <2>2
  <1>24. TakenBack'
    <2> SUFFICES ASSUME NEW d \in Campaigns, live = d
                 PROVE  /\ FoundAgain(d)'
                        /\ ~(Planned(d)' /\ Reverts(d)' /\ work'[d].want = None)
                        /\ ~(Ending(d)' /\ LastOut(d)' = Kept)
      BY <1>1 DEF TakenBack
    <2>1. FoundAgain(d) /\ ~(Ending(d) /\ LastOut(d) = Kept)  BY DEF IInv, TakenBack
    <2>2. \A i \in RunsOf(d) : i \in RunsOf(d)'
      BY <1>3, <1>6, LenProperties DEF RunsOf
    <2>3. FoundAgain(d)'  BY <1>1, <1>2, <1>3, <1>6, <2>1, <2>2, FoundAgainKept
    <2>4. CASE d # c
      <3>1. Ending(d) => LastRun(d) # 0  BY DEF Ending
      <3> QED  BY <1>5, <2>1, <2>3, <2>4, <3>1
    <2>5. CASE d = c
      <3>1. ~(Reverts(c) /\ row \in {None, Kept})  BY <1>1, <2>5, NothingToPutBack
      <3>2. Kept # None  BY NamesAssumption DEF Kept, None
      <3> QED  BY <1>3, <1>7, <1>18, <2>3, <2>5, <3>1, <3>2
    <2> QED  BY <2>4, <2>5
  <1> QED  BY <1>8, <1>9, <1>10, <1>11, <1>12, <1>14, <1>15, <1>16, <1>20, <1>22, <1>23, <1>24 DEF IInv

(* A run that is over, one way or another: nothing is at work, and no other campaign, no
   other row has changed. *)
LEMMA Over ==
    ASSUME IInv, NEW c \in Campaigns, AtWork(c), before' = before,
           work' \in [Campaigns -> Work], work'[c].stage = "idle", status'[c] \in Rest,
           \A d \in Campaigns \ {c} : Unmoved(d)
    PROVE  /\ RowInHand' /\ Claims' /\ Wants' /\ Outranking' /\ AtRest'
           /\ Stance(c)' = status'[c] /\ ~Planned(c)'
           /\ mirror \in {live, Unknown} \/ event = None
           /\ \A d \in Campaigns \ {c} :
                 /\ ~AtWork(d) /\ ~Planned(d) /\ ~Planned(d)'
                 /\ Stance(d)' = Stance(d) /\ Stance(d) = status[d]
                 /\ (Put(d)' <=> Put(d)) /\ (Ending(d)' <=> Ending(d))
                 /\ (LandedLast(d)' <=> LandedLast(d)) /\ LastRun(d)' = LastRun(d)
                 /\ LastRun(d) # 0 => LastOut(d)' = LastOut(d)
  <1>1. \A d \in Campaigns \ {c} :
          /\ ~AtWork(d) /\ ~AtWork(d)' /\ ~Planned(d) /\ ~Planned(d)'
          /\ Stance(d)' = Stance(d) /\ Stance(d) = status[d] /\ status'[d] = status[d]
          /\ (Put(d)' <=> Put(d)) /\ (Ending(d)' <=> Ending(d))
          /\ (LandedLast(d)' <=> LandedLast(d)) /\ LastRun(d)' = LastRun(d)
          /\ LastRun(d) # 0 => LastOut(d)' = LastOut(d)
    <2>1. \A d \in Campaigns \ {c} : ~AtWork(d)  BY DEF IInv, Claims
    <2> QED  BY <2>1, UnmovedSame DEF AtWork, Planned, Stance, Unmoved
  <1>2. ~AtWork(c)' /\ ~Planned(c)' /\ Stance(c)' = status'[c]  BY DEF AtWork, Planned, Stance
  <1>3. \A d \in Campaigns : ~AtWork(d)' /\ ~Planned(d)'  BY <1>1, <1>2
  <1>4. RowInHand' /\ Wants' /\ Outranking' /\ AtRest'
    BY <1>3 DEF RowInHand, Wants, Outranking, AtRest
  <1>5. Claims'
    <2>1. \A d \in Campaigns : status'[d] \notin {"APPLYING", "REVERTING"}
      BY <1>1 DEF IInv, Claims, Rest
    <2> QED  BY <1>3, <2>1 DEF Claims, AtWork
  <1>6. mirror \in {live, Unknown} \/ event = None  BY DEF IInv, Asked, AtRest
  <1> QED  BY <1>1, <1>2, <1>4, <1>5, <1>6

(* It stops before its first price. *)
LEMMA StopInv ==
    ASSUME IInv, Weak = {}, NEW c \in Campaigns, Stop(c)
    PROVE  IInv'
  <1>1. /\ AtWork(c) /\ (Planned(c) => ~Reverts(c)) /\ troubles < MaxTroubles /\ troubles' = troubles + 1
        /\ UNCHANGED <<live, mirror, scope, before, event, runs, edits, moves>>
    BY DEF Stop, Trouble, Planned
  <1>2. TypeOK /\ RowInHand  BY DEF IInv
  <1>3. /\ status'[c] = before[c] /\ before' = before
        /\ work' \in [Campaigns -> Work] /\ work'[c].stage = "idle"
        /\ status' \in [Campaigns -> Rest \cup {"APPLYING", "REVERTING"}]
        /\ \A d \in Campaigns \ {c} : Unmoved(d)
        /\ Planned(c) => Settles(c, "FAILED", ledger[work[c].row].out)
        /\ ~Planned(c) => ledger' = ledger
    BY <1>2, StopDoes
  <1>4. before[c] \in Rest  BY <1>2 DEF TypeOK
  <1>5. /\ RowInHand' /\ Claims' /\ Wants' /\ Outranking' /\ AtRest'
        /\ Stance(c)' = status'[c] /\ ~Planned(c)'
        /\ mirror \in {live, Unknown} \/ event = None
        /\ \A d \in Campaigns \ {c} :
              /\ ~AtWork(d) /\ ~Planned(d) /\ ~Planned(d)'
              /\ Stance(d)' = Stance(d) /\ Stance(d) = status[d]
              /\ (Put(d)' <=> Put(d)) /\ (Ending(d)' <=> Ending(d))
              /\ (LandedLast(d)' <=> LandedLast(d)) /\ LastRun(d)' = LastRun(d)
              /\ LastRun(d) # 0 => LastOut(d)' = LastOut(d)
    BY <1>1, <1>3, <1>4, Over
  <1>6. Stance(c)' = Stance(c)  BY <1>1, <1>3, <1>5 DEF Stance
  <1>7. /\ ledger' \in Seq(Row) /\ Landed' = Landed /\ Landed \subseteq DOMAIN ledger
        /\ \A i \in Landed : ledger'[i] = ledger[i]
        /\ \A d \in Campaigns : LastEnd(d)' = LastEnd(d) /\ RunsOf(d)' = RunsOf(d)
        /\ LastRun(c)' = LastRun(c)
        /\ (Ending(c)' <=> Ending(c)) /\ (LandedLast(c)' <=> LandedLast(c))
        /\ (Ending(c) => LastOut(c)' = LastOut(c)) /\ (Planned(c) => ~Ending(c))
    <2>1. CASE ~Planned(c)  BY <1>2, <1>3, <2>1, LedgerSame, LedgerIs DEF TypeOK
    <2>2. CASE Planned(c)
      <3> DEFINE n == work[c].row
                 o == ledger[n].out
      <3>1. o = None /\ o \notin Prices /\ ledger[n].kind # "REVERT"
        <4>1. o = None /\ ledger[n].kind = work[c].kind  BY <1>1, <1>2, <2>2 DEF RowInHand
        <4> QED  BY <1>1, <2>2, <4>1, NamesAssumption DEF Reverts
      <3>2. Settles(c, "FAILED", o)  BY <1>3, <2>2
      <3> HIDE DEF o
      <3>3. /\ ledger' \in Seq(Row) /\ Landed' = Landed
            /\ \A i \in Landed : ledger'[i] = ledger[i]
            /\ \A d \in Campaigns : LastEnd(d)' = LastEnd(d) /\ RunsOf(d)' = RunsOf(d)
            /\ LastRun(c) = n /\ LastRun(c)' = n
            /\ ledger'[n] = [camp |-> c, kind |-> work[c].kind, state |-> "FAILED", out |-> o]
        BY <3>1, <3>2 DEF Settles
      <3>4. ~Ending(c) /\ ~Ending(c)'
        BY <1>1, <2>2, <3>1, <3>3 DEF Ending, Reverts
      <3>5. ~LandedLast(c) /\ ~LandedLast(c)'
        <4>1. LastOut(c) = o  BY <3>3 DEF LastOut, o
        <4>2. LastOut(c)' = o  BY <3>3 DEF LastOut
        <4> QED  BY <3>1, <4>1, <4>2 DEF LandedLast
      <3> QED  BY <1>2, <3>3, <3>4, <3>5, LedgerIs
    <2> QED  BY <2>1, <2>2
  <1>8. TypeOK'  BY <1>1, <1>3, <1>7, BoundsAssumption DEF IInv, TypeOK
  <1>9. OwnPrices'  BY <1>7 DEF IInv, OwnPrices
  <1>10. Standing'  BY <1>5, <1>6, <1>7 DEF IInv, Standing
  <1>11. Mirrored' /\ HoldsAsked'
    BY <1>1, <1>5, <1>6 DEF IInv, Mirrored, HoldsAsked
  <1>12. Asked'  BY <1>1, <1>5 DEF IInv, Asked
  <1>13. Attributed'
    <2>1. Landed # {} => Newest' = Newest  BY <1>2, <1>7, NewestIs DEF Newest
    <2> QED  BY <1>1, <1>7, <2>1 DEF IInv, Attributed
  <1>14. Put(c)' => Put(c)
    <2>1. status[c] \in {"APPLYING", "REVERTING"}  BY <1>1 DEF IInv, Claims
    <2> QED  BY <1>6, <1>7, <2>1 DEF Put
  <1>15. Outranks' /\ Runs'
    BY <1>1, <1>2, <1>5, <1>6, <1>14 DEF IInv, TypeOK, Outranks, Runs, RankOf
  <1>16. TakenBack'
    <2> SUFFICES ASSUME NEW d \in Campaigns, live = d
                 PROVE  FoundAgain(d)' /\ ~Planned(d)' /\ ~(Ending(d)' /\ LastOut(d)' = Kept)
      BY <1>1 DEF TakenBack
    <2>1. FoundAgain(d) /\ ~(Ending(d) /\ LastOut(d) = Kept)  BY DEF IInv, TakenBack
    <2>2. FoundAgain(d)'  BY <1>1, <1>2, <1>7, <2>1, FoundAgainKept
    <2>3. Ending(d) => LastRun(d) # 0  BY DEF Ending
    <2> QED  BY <1>5, <1>7, <2>1, <2>2, <2>3
  <1> QED  BY <1>5, <1>8, <1>9, <1>10, <1>11, <1>12, <1>13, <1>15, <1>16 DEF IInv

(* A planned run ends, with its row's outcome o. *)
LEMMA Ended ==
    ASSUME IInv, NEW c \in Campaigns, Planned(c), before' = before, NEW clean \in BOOLEAN,
           NEW o \in Prices \cup {None, Kept}, Settles(c, IF clean THEN "COMPLETED" ELSE "PARTIAL", o),
           status'[c] = Outcome(c, clean),
           o \in Prices => o \notin Hands /\ (o = c <=> ~Reverts(c))
    PROVE  /\ RowInHand' /\ Claims' /\ Wants' /\ Outranking' /\ AtRest'
           /\ Stance(c)' = status'[c] /\ ~Planned(c)'
           /\ mirror \in {live, Unknown} \/ event = None
           /\ \A d \in Campaigns \ {c} :
                 /\ ~AtWork(d) /\ ~Planned(d) /\ ~Planned(d)'
                 /\ Stance(d)' = Stance(d) /\ Stance(d) = status[d]
                 /\ (Put(d)' <=> Put(d)) /\ (Ending(d)' <=> Ending(d))
                 /\ (LandedLast(d)' <=> LandedLast(d)) /\ LastRun(d)' = LastRun(d)
                 /\ LastRun(d) # 0 => LastOut(d)' = LastOut(d)
           /\ OwnPrices' /\ Standing'
           /\ (Ending(c)' <=> Reverts(c)) /\ LastOut(c)' = o
           /\ (~Reverts(c) => status'[c] \in {"ACTIVE", "PARTIAL"})
           /\ ledger' \in Seq(Row)
           /\ status' \in [Campaigns -> Rest \cup {"APPLYING", "REVERTING"}]
           /\ work' \in [Campaigns -> Work]
  <1>1. AtWork(c) /\ TypeOK  BY DEF AtWork, Planned, IInv
  <1>2. /\ ledger' \in Seq(Row) /\ DOMAIN ledger' = DOMAIN ledger
        /\ ledger'[work[c].row].camp = c /\ ledger'[work[c].row].kind = work[c].kind
        /\ ledger'[work[c].row].out = o
        /\ Landed' = IF o \in Prices THEN Landed \cup {work[c].row} ELSE Landed
        /\ \A i \in Landed : ledger'[i] = ledger[i]
        /\ LastRun(c)' = work[c].row /\ work[c].row # 0
        /\ work' \in [Campaigns -> Work] /\ work'[c].stage = "idle"
        /\ status' \in [Campaigns -> Rest \cup {"APPLYING", "REVERTING"}]
        /\ \A d \in Campaigns \ {c} : Unmoved(d)
    BY DEF Settles
  <1>3. status'[c] \in Rest /\ (~Reverts(c) => status'[c] \in {"ACTIVE", "PARTIAL"})
        /\ (Reverts(c) => status'[c] \in {"COMPLETED", "PARTIAL"})
    BY DEF Outcome, Rest
  <1>4. /\ RowInHand' /\ Claims' /\ Wants' /\ Outranking' /\ AtRest'
        /\ Stance(c)' = status'[c] /\ ~Planned(c)'
        /\ mirror \in {live, Unknown} \/ event = None
        /\ \A d \in Campaigns \ {c} :
              /\ ~AtWork(d) /\ ~Planned(d) /\ ~Planned(d)'
              /\ Stance(d)' = Stance(d) /\ Stance(d) = status[d]
              /\ (Put(d)' <=> Put(d)) /\ (Ending(d)' <=> Ending(d))
              /\ (LandedLast(d)' <=> LandedLast(d)) /\ LastRun(d)' = LastRun(d)
              /\ LastRun(d) # 0 => LastOut(d)' = LastOut(d)
    BY <1>1, <1>2, <1>3, Over
  <1>5. (Ending(c)' <=> Reverts(c)) /\ LastOut(c)' = o
    BY <1>2 DEF Ending, LastOut, Reverts
  <1>6. OwnPrices'
    <2> SUFFICES ASSUME NEW i \in Landed'
                 PROVE  /\ ledger'[i].out \notin Hands
                        /\ IF ledger'[i].kind = "APPLY" THEN ledger'[i].out = ledger'[i].camp
                           ELSE ledger'[i].out # ledger'[i].camp
      BY DEF OwnPrices
    <2>1. CASE i \in Landed  BY <1>2, <2>1 DEF IInv, OwnPrices
    <2>2. CASE i \notin Landed
      <3>1. i = work[c].row /\ o \in Prices  BY <1>2, <2>2
      <3>2. work[c].kind = "APPLY" <=> ~Reverts(c)
        BY <1>1 DEF TypeOK, Work, Kinds, Reverts
      <3> QED  BY <1>2, <3>1, <3>2
    <2> QED  BY <2>1, <2>2
  <1>7. Standing'
    <2>1. \A d \in Campaigns \ {c} : ~Planned(d)  BY <1>4
    <2>2. Stance(c)' = "COMPLETED" \/ Stance(c)' \in {"ACTIVE", "PARTIAL"}
      BY <1>3, <1>4
    <2>3. Stance(c)' = "COMPLETED" => Ending(c)'  BY <1>3, <1>4, <1>5
    <2>4. Stance(c)' = "ACTIVE" => ~Ending(c)'  BY <1>3, <1>4, <1>5
    <2> QED  BY <1>2, <1>4, <2>1, <2>2, <2>3, <2>4 DEF IInv, Standing
  <1> QED  BY <1>2, <1>3, <1>4, <1>5, <1>6, <1>7

(* What a run writes is no price of the merchant's; the campaign whose price it is runs,
   covers the variant, and is not being ended. *)
LEMMA WantedIs ==
    ASSUME IInv, NEW c \in Campaigns, Planned(c), work[c].want # None
    PROVE  LET w == work[c].want IN
             /\ w \in Campaigns \cup {Base} /\ w \in Prices /\ w \notin Hands /\ (w = c <=> ~Reverts(c))
             /\ w \in Campaigns => w \in scope
             /\ w \in Campaigns \ {c} => status[w] \in Running /\ ~Ending(w)
             /\ event \notin Others(c)
  <1> DEFINE w == work[c].want
  <1>1. /\ \/ w \in Others(c) \cap scope
           \/ Reverts(c) /\ w = Base
           \/ ~Reverts(c) /\ w = c /\ c \in scope
        /\ event \notin Others(c) /\ (~Reverts(c) => w = c)
    BY DEF IInv, Wants
  <1>2. Others(c) \subseteq Campaigns \ {c} /\ Others(c) \subseteq Competing
    BY DEF Others, Competing
  <1>3. Base \notin Campaigns /\ Base \notin Hands /\ Campaigns \cap Hands = {}  BY NamesAssumption
  <1>4. w \in Campaigns \cup {Base} /\ w \in Prices /\ w \notin Hands  BY <1>1, <1>2, <1>3 DEF Prices
  <1>5. w = c <=> ~Reverts(c)  BY <1>1, <1>2, <1>3
  <1>6. ASSUME w \in Campaigns \ {c}  PROVE status[w] \in Running /\ ~Ending(w)
    <2>1. w \in Competing  BY <1>1, <1>2, <1>3, <1>6
    <2>2. ~AtWork(w)  BY <1>6 DEF IInv, Claims, AtWork, Planned
    <2> HIDE DEF w
    <2> QED  BY <1>6, <2>1, <2>2 DEF IInv, Claims, Competing, Pricing, Running
  <1>7. w \in Campaigns => w \in scope  BY <1>1, <1>3
  <1> QED  BY <1>1, <1>4, <1>5, <1>6, <1>7

(* It wrote. *)
LEMMA WriteInv ==
    ASSUME IInv, Weak = {}, NEW c \in Campaigns, NEW clean \in BOOLEAN, Write(c, clean)
    PROVE  IInv'
  <1> SUFFICES ASSUME NEW w, w = work[c].want  PROVE IInv'
    OBVIOUS
  <1> DEFINE o == IF w = None THEN ledger[work[c].row].out ELSE w
  <1>1. /\ Planned(c) /\ w # None /\ live' = w /\ mirror' = w /\ event' = None
        /\ Ends(c, w, clean) /\ UNCHANGED <<scope, before, runs, edits, moves>>
        /\ troubles' = troubles \/ (troubles < MaxTroubles /\ troubles' = troubles + 1)
    BY DEF Write, Planned, Trouble
  <1>2. TypeOK /\ RowInHand  BY DEF IInv
  <1>3. /\ w \in Campaigns \cup {Base} /\ w \in Prices /\ w \notin Hands /\ (w = c <=> ~Reverts(c))
        /\ w \in Campaigns => w \in scope
        /\ w \in Campaigns \ {c} => status[w] \in Running /\ ~Ending(w)
        /\ event \notin Others(c)
    BY <1>1, WantedIs
  <1>4. /\ Settles(c, IF clean THEN "COMPLETED" ELSE "PARTIAL", w)
        /\ status'[c] = Outcome(c, clean)
    <2>1. Settles(c, IF clean THEN "COMPLETED" ELSE "PARTIAL", o) /\ status'[c] = Outcome(c, clean)
      BY <1>1, <1>2, <1>3, EndsDoes
    <2>2. o = w  BY <1>1
    <2> QED  BY <2>1, <2>2
  <1> HIDE DEF o
  <1>5. /\ RowInHand' /\ Claims' /\ Wants' /\ Outranking' /\ AtRest'
        /\ Stance(c)' = status'[c] /\ ~Planned(c)'
        /\ mirror \in {live, Unknown} \/ event = None
        /\ \A d \in Campaigns \ {c} :
              /\ ~AtWork(d) /\ ~Planned(d) /\ ~Planned(d)'
              /\ Stance(d)' = Stance(d) /\ Stance(d) = status[d]
              /\ (Put(d)' <=> Put(d)) /\ (Ending(d)' <=> Ending(d))
              /\ (LandedLast(d)' <=> LandedLast(d)) /\ LastRun(d)' = LastRun(d)
              /\ LastRun(d) # 0 => LastOut(d)' = LastOut(d)
        /\ OwnPrices' /\ Standing'
        /\ (Ending(c)' <=> Reverts(c)) /\ LastOut(c)' = w
        /\ (~Reverts(c) => status'[c] \in {"ACTIVE", "PARTIAL"})
        /\ ledger' \in Seq(Row)
        /\ status' \in [Campaigns -> Rest \cup {"APPLYING", "REVERTING"}]
        /\ work' \in [Campaigns -> Work]
    BY <1>1, <1>3, <1>4, Ended
  <1>6. TypeOK'  BY <1>1, <1>3, <1>5, BoundsAssumption DEF IInv, TypeOK
  <1>7. Mirrored' /\ Asked' /\ Attributed'  BY <1>1 DEF Mirrored, Asked, Attributed
  <1>8. HoldsAsked'
    <2> SUFFICES ASSUME NEW d \in Campaigns, Stance(d)' = "HELD"  PROVE FALSE
      BY DEF HoldsAsked
    <2>1. d # c  BY <1>4, <1>5 DEF Outcome
    <2>2. status[d] = "HELD" /\ event = d /\ ~Ending(d)
      BY <1>5, <2>1 DEF IInv, HoldsAsked, Standing
    <2>3. d \in Others(c)  BY <2>1, <2>2 DEF Others, Competing, Pricing
    <2> QED  BY <1>3, <2>2, <2>3
  <1>9. Outranks'
    <2> SUFFICES ASSUME NEW d \in scope, Put(d)'  PROVE Rank[d] <= RankOf(w)
      BY <1>1 DEF Outranks, RankOf
    <2>1. d \in Campaigns  BY <1>2 DEF TypeOK
    <2>2. CASE d # c
      <3>1. Put(d)  BY <1>5, <2>1, <2>2
      <3> QED  BY <1>1, <2>2, <3>1 DEF IInv, Outranking
    <2>3. CASE d = c
      <3>1. w = c  BY <1>3, <1>5, <2>3 DEF Put
      <3> QED  BY <2>3, <3>1, RankAssumption DEF RankOf
    <2> QED  BY <2>2, <2>3
  <1>10. Runs'
    <2> SUFFICES ASSUME w \in Campaigns  PROVE Stance(w)' \in Running
      BY <1>1 DEF Runs
    <2>1. CASE w = c  BY <1>3, <1>5, <2>1 DEF Running
    <2>2. CASE w # c  BY <1>3, <1>5, <2>2
    <2> QED  BY <2>1, <2>2
  <1>11. TakenBack'
    <2> SUFFICES ASSUME w \in Campaigns
                 PROVE  FoundAgain(w)' /\ ~Planned(w)' /\ ~Ending(w)'
      BY <1>1 DEF TakenBack
    <2>1. FoundAgain(w)'  BY <1>1, <1>3 DEF FoundAgain
    <2>2. CASE w = c  BY <1>3, <1>5, <2>1, <2>2
    <2>3. CASE w # c  BY <1>3, <1>5, <2>1, <2>3
    <2> QED  BY <2>2, <2>3
  <1> QED  BY <1>5, <1>6, <1>7, <1>8, <1>9, <1>10, <1>11 DEF IInv

(* It wrote, or not, and does not know which. *)
LEMMA FailInv ==
    ASSUME IInv, Weak = {}, NEW c \in Campaigns, NEW stored \in BOOLEAN, Fail(c, stored)
    PROVE  IInv'
  <1> SUFFICES ASSUME NEW w, w = work[c].want  PROVE IInv'
    OBVIOUS
  <1>1. /\ Planned(c) /\ w # None /\ (stored => event = None) /\ mirror' = Unknown
        /\ live' = IF stored THEN w ELSE live
        /\ Ends(c, None, FALSE) /\ UNCHANGED <<scope, before, event, runs, edits, moves>>
        /\ troubles < MaxTroubles /\ troubles' = troubles + 1
    BY DEF Fail, Planned, Trouble
  <1>2. TypeOK /\ RowInHand  BY DEF IInv
  <1>3. /\ w \in Campaigns \cup {Base} /\ w \in Prices /\ w \notin Hands /\ (w = c <=> ~Reverts(c))
        /\ w \in Campaigns => w \in scope
        /\ w \in Campaigns \ {c} => status[w] \in Running /\ ~Ending(w)
        /\ event \notin Others(c)
    BY <1>1, WantedIs
  <1>4. Settles(c, "PARTIAL", None) /\ status'[c] = "PARTIAL"
    <2>1. /\ Settles(c, IF FALSE THEN "COMPLETED" ELSE "PARTIAL",
                      IF None = None THEN ledger[work[c].row].out ELSE None)
          /\ status'[c] = Outcome(c, FALSE)
      BY <1>1, <1>2, EndsDoes
    <2>2. ledger[work[c].row].out = None  BY <1>1, <1>2 DEF RowInHand
    <2> QED  BY <2>1, <2>2 DEF Outcome
  <1>5. /\ RowInHand' /\ Claims' /\ Wants' /\ Outranking' /\ AtRest'
        /\ Stance(c)' = status'[c] /\ ~Planned(c)'
        /\ mirror \in {live, Unknown} \/ event = None
        /\ \A d \in Campaigns \ {c} :
              /\ ~AtWork(d) /\ ~Planned(d) /\ ~Planned(d)'
              /\ Stance(d)' = Stance(d) /\ Stance(d) = status[d]
              /\ (Put(d)' <=> Put(d)) /\ (Ending(d)' <=> Ending(d))
              /\ (LandedLast(d)' <=> LandedLast(d)) /\ LastRun(d)' = LastRun(d)
              /\ LastRun(d) # 0 => LastOut(d)' = LastOut(d)
        /\ OwnPrices' /\ Standing'
        /\ (Ending(c)' <=> Reverts(c)) /\ LastOut(c)' = None
        /\ (~Reverts(c) => status'[c] \in {"ACTIVE", "PARTIAL"})
        /\ ledger' \in Seq(Row)
        /\ status' \in [Campaigns -> Rest \cup {"APPLYING", "REVERTING"}]
        /\ work' \in [Campaigns -> Work]
    <2>1. /\ Settles(c, IF FALSE THEN "COMPLETED" ELSE "PARTIAL", None)
          /\ status'[c] = Outcome(c, FALSE) /\ None \notin Prices
      BY <1>4, NamesAssumption DEF Outcome
    <2> QED  BY <1>1, <2>1, Ended
  <1>6. TypeOK'
    <2>1. live' \in Prices  BY <1>1, <1>3 DEF IInv, TypeOK
    <2> QED  BY <1>1, <1>5, <2>1, BoundsAssumption DEF IInv, TypeOK
  <1>7. Unknown \notin Campaigns  BY NamesAssumption DEF Prices
  <1>8. Mirrored' /\ Asked' /\ Attributed'
    BY <1>1, <1>7 DEF IInv, Mirrored, Asked, Attributed
  <1>9. HoldsAsked'  BY <1>1, <1>4, <1>5 DEF IInv, HoldsAsked
  <1>10. ~Put(c)'
    <2>1. ~LandedLast(c)'  BY <1>5, NamesAssumption DEF LandedLast
    <2> QED  BY <1>4, <1>5, <2>1 DEF Put
  <1>11. Outranks'
    <2> SUFFICES ASSUME live' \notin Hands, NEW d \in scope, Put(d)'  PROVE Rank[d] <= RankOf(live')
      BY <1>1 DEF Outranks, RankOf
    <2>1. d \in Campaigns /\ d # c  BY <1>2, <1>10 DEF TypeOK
    <2>2. Put(d)  BY <1>5, <2>1
    <2>3. CASE stored  BY <1>1, <2>1, <2>2, <2>3 DEF IInv, Outranking
    <2>4. CASE ~stored  BY <1>1, <2>2, <2>4 DEF IInv, Outranks
    <2> QED  BY <2>3, <2>4
  <1>12. \A d \in Campaigns : live' = d /\ d # c =>
           /\ Stance(d)' \in Running /\ FoundAgain(d)' /\ ~(Ending(d)' /\ LastOut(d)' = Kept)
    <2> SUFFICES ASSUME NEW d \in Campaigns, live' = d, d # c
                 PROVE  Stance(d)' \in Running /\ FoundAgain(d)' /\ ~(Ending(d)' /\ LastOut(d)' = Kept)
      OBVIOUS
    <2>1. CASE stored
      <3>1. w = d  BY <1>1, <2>1
      <3>2. FoundAgain(d)'  BY <1>1, <1>3, <3>1 DEF FoundAgain
      <3> QED  BY <1>3, <1>5, <3>1, <3>2
    <2>2. CASE ~stored
      <3>1. live = d  BY <1>1, <2>2
      <3>2. FoundAgain(d) /\ ~(Ending(d) /\ LastOut(d) = Kept) /\ Stance(d) \in Running
        BY <3>1 DEF IInv, TakenBack, Runs
      <3>3. FoundAgain(d)'
        <4>1. /\ Landed' = Landed /\ \A i \in Landed : ledger'[i] = ledger[i]
              /\ LastEnd(d)' = LastEnd(d) /\ RunsOf(d) \subseteq RunsOf(d)'
          BY <1>4, NamesAssumption DEF Settles
        <4> QED  BY <1>1, <1>2, <3>2, <4>1, FoundAgainKept
      <3>4. Ending(d) => LastRun(d) # 0  BY DEF Ending
      <3> QED  BY <1>5, <3>2, <3>3, <3>4
    <2> QED  BY <2>1, <2>2
  <1>13. Runs'
    <2>1. Stance(c)' \in Running  BY <1>4, <1>5 DEF Running
    <2> QED  BY <1>12, <2>1 DEF Runs
  <1>14. TakenBack'
    <2>1. live' = c => FoundAgain(c)'
      <3>1. CASE stored  BY <1>1, <1>3, <3>1 DEF FoundAgain
      <3>2. CASE ~stored
        <4>1. /\ Landed' = Landed /\ \A i \in Landed : ledger'[i] = ledger[i]
              /\ LastEnd(c)' = LastEnd(c) /\ RunsOf(c) \subseteq RunsOf(c)'
          BY <1>4, NamesAssumption DEF Settles
        <4>2. live' = c => FoundAgain(c)  BY <1>1, <3>2 DEF IInv, TakenBack
        <4> QED  BY <1>1, <1>2, <4>1, <4>2, FoundAgainKept
      <3> QED  BY <3>1, <3>2
    <2>2. LastOut(c)' # Kept  BY <1>5, NamesAssumption DEF None, Kept
    <2> QED  BY <1>5, <1>12, <2>1, <2>2 DEF TakenBack
  <1> QED  BY <1>5, <1>6, <1>8, <1>9, <1>11, <1>13, <1>14 DEF IInv

(* It had nothing to write. *)
LEMMA WriteNothingInv ==
    ASSUME IInv, Weak = {}, NEW c \in Campaigns, NEW clean \in BOOLEAN, WriteNothing(c, clean)
    PROVE  IInv'
  <1> SUFFICES ASSUME NEW o, o = ledger[work[c].row].out  PROVE IInv'
    OBVIOUS
  <1>1. /\ Planned(c) /\ work[c].want = None /\ Ends(c, None, clean)
        /\ UNCHANGED <<live, mirror, scope, before, event, runs, edits, moves>>
        /\ troubles' = troubles \/ (troubles < MaxTroubles /\ troubles' = troubles + 1)
    BY DEF WriteNothing, Planned, Trouble
  <1>2. TypeOK /\ RowInHand  BY DEF IInv
  <1>3. o \in {None, Kept} /\ o \notin Prices
    BY <1>1, <1>2, NamesAssumption DEF RowInHand
  <1>4. /\ Settles(c, IF clean THEN "COMPLETED" ELSE "PARTIAL", o)
        /\ status'[c] = Outcome(c, clean)
    <2>1. /\ Settles(c, IF clean THEN "COMPLETED" ELSE "PARTIAL",
                      IF None = None THEN ledger[work[c].row].out ELSE None)
          /\ status'[c] = Outcome(c, clean)
      BY <1>1, <1>2, EndsDoes
    <2> QED  BY <2>1
  <1>5. /\ RowInHand' /\ Claims' /\ Wants' /\ Outranking' /\ AtRest'
        /\ Stance(c)' = status'[c] /\ ~Planned(c)'
        /\ mirror \in {live, Unknown} \/ event = None
        /\ \A d \in Campaigns \ {c} :
              /\ ~AtWork(d) /\ ~Planned(d) /\ ~Planned(d)'
              /\ Stance(d)' = Stance(d) /\ Stance(d) = status[d]
              /\ (Put(d)' <=> Put(d)) /\ (Ending(d)' <=> Ending(d))
              /\ (LandedLast(d)' <=> LandedLast(d)) /\ LastRun(d)' = LastRun(d)
              /\ LastRun(d) # 0 => LastOut(d)' = LastOut(d)
        /\ OwnPrices' /\ Standing'
        /\ (Ending(c)' <=> Reverts(c)) /\ LastOut(c)' = o
        /\ (~Reverts(c) => status'[c] \in {"ACTIVE", "PARTIAL"})
        /\ ledger' \in Seq(Row)
        /\ status' \in [Campaigns -> Rest \cup {"APPLYING", "REVERTING"}]
        /\ work' \in [Campaigns -> Work]
    BY <1>1, <1>3, <1>4, Ended
  <1>6. TypeOK'  BY <1>1, <1>5, BoundsAssumption DEF IInv, TypeOK
  <1>7. /\ Landed' = Landed /\ Landed \subseteq DOMAIN ledger
        /\ \A i \in Landed : ledger'[i] = ledger[i]
        /\ \A d \in Campaigns : RunsOf(d)' = RunsOf(d)
        /\ \A d \in Campaigns : d # c \/ ~Reverts(c) => LastEnd(d)' = LastEnd(d)
    BY <1>2, <1>3, <1>4, LedgerIs DEF Settles
  <1>8. Mirrored' /\ Asked'  BY <1>1, <1>5 DEF IInv, Mirrored, Asked
  <1>9. HoldsAsked'
    <2>1. Stance(c)' # "HELD"  BY <1>4, <1>5 DEF Outcome
    <2> QED  BY <1>1, <1>5, <2>1 DEF IInv, HoldsAsked
  <1>10. Attributed'
    <2>1. Landed # {} => Newest' = Newest  BY <1>2, <1>7, NewestIs DEF Newest
    <2> QED  BY <1>1, <1>7, <2>1 DEF IInv, Attributed
  <1>11. Outranks'
    <2> SUFFICES ASSUME live \notin Hands, NEW d \in scope, Put(d)'  PROVE Rank[d] <= RankOf(live)
      BY <1>1 DEF Outranks, RankOf
    <2>1. d \in Campaigns  BY <1>2 DEF TypeOK
    <2>2. CASE d # c
      <3>1. Put(d)  BY <1>5, <2>1, <2>2
      <3> QED  BY <3>1 DEF IInv, Outranks
    <2>3. CASE d = c
      <3>1. ~Reverts(c)  BY <1>5, <2>3 DEF Put
      <3> QED  BY <1>1, <2>3, <3>1 DEF IInv, Outranking
    <2> QED  BY <2>2, <2>3
  <1>12. live = c => ~Reverts(c)  BY <1>1 DEF IInv, TakenBack
  <1>13. Runs'
    <2>1. live = c => Stance(c)' \in Running  BY <1>5, <1>12 DEF Running
    <2> QED  BY <1>1, <1>5, <2>1 DEF IInv, Runs
  <1>14. TakenBack'
    <2> SUFFICES ASSUME NEW d \in Campaigns, live = d
                 PROVE  FoundAgain(d)' /\ ~Planned(d)' /\ ~(Ending(d)' /\ LastOut(d)' = Kept)
      BY <1>1 DEF TakenBack
    <2>1. FoundAgain(d) /\ ~(Ending(d) /\ LastOut(d) = Kept)  BY DEF IInv, TakenBack
    <2>2. LastEnd(d)' = LastEnd(d)  BY <1>7, <1>12
    <2>3. FoundAgain(d)'  BY <1>1, <1>2, <1>7, <2>1, <2>2, FoundAgainKept
    <2>4. Ending(d) => LastRun(d) # 0  BY DEF Ending
    <2> QED  BY <1>5, <1>12, <2>1, <2>3, <2>4
  <1> QED  BY <1>5, <1>6, <1>8, <1>9, <1>10, <1>11, <1>13, <1>14 DEF IInv

(* Nothing happens. *)
LEMMA StutterInv ==
    ASSUME IInv, UNCHANGED vars
    PROVE  IInv'
  <1>1. /\ UNCHANGED <<status, before, work, ledger, event>> /\ UNCHANGED <<live, mirror, scope>>
        /\ UNCHANGED counts
    BY DEF vars
  <1>2. TypeOK'  BY <1>1 DEF IInv, TypeOK, counts
  <1>3. RowInHand' /\ Claims' /\ OwnPrices' /\ Standing' /\ HoldsAsked' /\ AskedOf' = AskedOf
    BY <1>1, QuietKeeps
  <1>4. /\ Landed' = Landed /\ Newest' = Newest /\ (AtRest' <=> AtRest)
        /\ \A d \in Campaigns : Unmoved(d) /\ Others(d)' = Others(d) /\ LastOut(d)' = LastOut(d)
    BY <1>1, QuietSame, LedgerSame
  <1>5. \A d \in Campaigns :
          /\ Planned(d)' <=> Planned(d)
          /\ Reverts(d)' <=> Reverts(d)
          /\ Put(d)' <=> Put(d)
          /\ Stance(d)' = Stance(d)
          /\ Ending(d)' <=> Ending(d)
    BY <1>4, UnmovedSame
  <1>6. Mirrored' /\ Asked' /\ Attributed'
    BY <1>1, <1>3, <1>4 DEF IInv, Mirrored, Asked, Attributed
  <1>7. Wants' /\ Outranks' /\ Outranking' /\ Runs'
    BY <1>1, <1>4, <1>5 DEF IInv, TypeOK, Wants, Outranks, Outranking, Runs, RankOf
  <1>8. TakenBack'  BY <1>1, <1>4, <1>5, FoundAgainQuiet DEF IInv, TakenBack
  <1> QED  BY <1>2, <1>3, <1>6, <1>7, <1>8 DEF IInv

LEMMA StepInv ==
    ASSUME IInv, Weak = {}, [Next]_vars
    PROVE  IInv'
  <1>1. ASSUME NEW c \in Campaigns, NEW k \in Kinds, NEW resume \in BOOLEAN, Claim(c, k, resume)
        PROVE  IInv'
    BY <1>1, ClaimInv
  <1>2. ASSUME NEW c \in Campaigns, NEW keep \in BOOLEAN, Plan(c, keep)  PROVE IInv'
    BY <1>2, PlanInv
  <1>3. ASSUME NEW c \in Campaigns, Stop(c)  PROVE IInv'
    BY <1>3, StopInv
  <1>4. ASSUME NEW c \in Campaigns, NEW b \in BOOLEAN, Write(c, b) \/ Fail(c, b) \/ WriteNothing(c, b)
        PROVE  IInv'
    BY <1>4, WriteInv, FailInv, WriteNothingInv
  <1>5. ASSUME NEW c \in Campaigns, Leave(c) \/ Enter(c)  PROVE IInv'
    BY <1>5, LeaveInv, EnterInv
  <1>6. ASSUME NEW p \in Hands, Edit(p)  PROVE IInv'
    BY <1>6, EditInv
  <1>7. CASE Deliver \/ Answer  BY <1>7, DeliverInv, AnswerInv
  <1>8. CASE UNCHANGED vars  BY <1>8, StutterInv
  <1> QED  BY <1>1, <1>2, <1>3, <1>4, <1>5, <1>6, <1>7, <1>8 DEF Next

----------------------------------------------------------------------------
(* The theorems. *)

(* Every state has the invariant where none of the gaps occurs; every state is of its
   type with it. *)
THEOREM TypeCorrect ==
    ASSUME Weak = {}
    PROVE  Spec => [](TypeOK /\ IInv)
  <1>1. Init => IInv  BY InitInv
  <1>2. IInv /\ [Next]_vars => IInv'  BY StepInv
  <1>3. IInv => TypeOK /\ IInv  BY DEF IInv
  <1> QED  BY <1>1, <1>2, <1>3, PTL DEF Spec

(* However many campaigns overlap on a variant, start, end, stop part-way and are resumed,
   none that covers it outranks the price that is up. *)
THEOREM NothingOutrankedHolds ==
    ASSUME Weak = {}
    PROVE  Spec => []NothingOutranked
  <1>1. Init => IInv  BY InitInv
  <1>2. IInv /\ [Next]_vars => IInv'  BY StepInv
  <1>3. IInv => NothingOutranked
    <2> SUFFICES ASSUME IInv, AtRest, live \notin Hands, NEW c \in scope, status[c] \in {"ACTIVE", "HELD"}
                 PROVE  Rank[c] <= RankOf(live)
      BY DEF NothingOutranked
    <2>1. c \in Campaigns /\ ~AtWork(c) /\ ~Planned(c)
      BY DEF IInv, TypeOK, AtRest, AtWork, Planned
    <2>2. Stance(c) = status[c]  BY <2>1 DEF Stance
    <2>3. Put(c)  BY <2>1, <2>2 DEF IInv, Standing, Put
    <2> QED  BY <2>3 DEF IInv, Outranks
  <1> QED  BY <1>1, <1>2, <1>3, PTL DEF Spec

(* A campaign's price that is up at rest is of one that runs or has said that it stopped. *)
THEOREM SaleIsOnHolds ==
    ASSUME Weak = {}
    PROVE  Spec => []SaleIsOn
  <1>1. Init => IInv  BY InitInv
  <1>2. IInv /\ [Next]_vars => IInv'  BY StepInv
  <1>3. IInv => SaleIsOn
    BY DEF IInv, Runs, Running, SaleIsOn, Stance, AtRest
  <1> QED  BY <1>1, <1>2, <1>3, PTL DEF Spec

(* A campaign on hold has the variant's open question. *)
THEOREM HoldHasItsQuestionHolds ==
    ASSUME Weak = {}
    PROVE  Spec => []HoldHasItsQuestion
  <1>1. Init => IInv  BY InitInv
  <1>2. IInv /\ [Next]_vars => IInv'  BY StepInv
  <1>3. IInv => HoldHasItsQuestion
    BY DEF IInv, HoldsAsked, HoldHasItsQuestion, Stance, AtRest
  <1> QED  BY <1>1, <1>2, <1>3, PTL DEF Spec

(* What a webhook asks of whom. *)
Attributes ==
    Deliver /\ Drifted /\ mirror \in Controlling /\ ~Ending(mirror)
      => event' = mirror /\ status'[mirror] = "HELD"
         /\ \A c \in Campaigns \ {mirror} : status'[c] = status[c]

LEMMA StepAttributes ==
    ASSUME IInv, Weak = {}, [Next]_vars
    PROVE  Attributes
  <1> SUFFICES ASSUME Deliver, Drifted, mirror \in Controlling, ~Ending(mirror)
               PROVE  /\ event' = mirror /\ status'[mirror] = "HELD"
                      /\ \A c \in Campaigns \ {mirror} : status'[c] = status[c]
    BY DEF Attributes
  <1> DEFINE m == mirror
  <1>1. m \in Campaigns /\ status[m] \in {"ACTIVE", "PARTIAL", "HELD"} /\ m # live /\ live \in Hands
    BY DEF Controlling, Deliver, Drifted
  <1>2. m \notin Hands \cup {Unknown} /\ None \notin Campaigns
    BY <1>1, NamesAssumption DEF Prices
  <1>3. event = None  BY <1>2 DEF IInv, Asked
  <1>4. Landed # {} /\ Newest.out = m  BY <1>1 DEF IInv, Attributed
  <1>5. /\ Max(Landed) \in Landed /\ (\A i \in Landed : i <= Max(Landed)) /\ Newest \in Row
        /\ Landed \subseteq DOMAIN ledger
    BY <1>4, NewestIs, LedgerIs DEF IInv, Newest
  <1>6. PricedBy = m
    <2>1. CASE Newest.kind = "REVERT"
      <3>1. m \in Competing  BY <1>1 DEF Competing, Pricing
      <3>2. event \notin Competing  BY <1>2, <1>3 DEF Competing
      <3> QED  BY <1>4, <2>1, <3>1, <3>2 DEF PricedBy, Inheritor
    <2>2. CASE Newest.kind # "REVERT"
      <3>1. Newest.kind = "APPLY"  BY <1>5, <2>2 DEF Row, Kinds
      <3>2. Newest.camp = m  BY <1>4, <1>5, <3>1 DEF IInv, OwnPrices, Newest
      <3>3. Max(Landed) \in OfControlling /\ \A i \in OfControlling : i <= Max(Landed)
        BY <1>5, <3>2 DEF OfControlling, Newest
      <3>4. OfControlling \in SUBSET Int
        BY <1>5, LedgerIs DEF OfControlling, IInv
      <3>5. Max(OfControlling) = Max(Landed)
        <4> DEFINE k == Max(Landed)
        <4>1. k \in OfControlling /\ \A i \in OfControlling : i <= k  BY <3>3
        <4> HIDE DEF k
        <4>2. Max(OfControlling) = k  BY <3>4, <4>1, MaxIsThat
        <4> QED  BY <4>2 DEF k
      <3> QED  BY <2>2, <3>2, <3>3, <3>5 DEF PricedBy, Newest
    <2> QED  BY <2>1, <2>2
  <1>7. AskedOf = m /\ m # None  BY <1>1, <1>2, <1>4, <1>6 DEF AskedOf
  <1>8. event' = m /\ HoldFor(m)  BY <1>3, <1>7 DEF Deliver
  <1>9. status \in [Campaigns -> Rest \cup {"APPLYING", "REVERTING"}]  BY DEF IInv, TypeOK
  <1> QED  BY <1>1, <1>8, <1>9 DEF HoldFor

(* An edit of a running campaign's price is asked of that campaign and no other. *)
THEOREM EditsAttributedHolds ==
    ASSUME Weak = {}
    PROVE  Spec => EditsAttributed
  <1>1. Init => IInv  BY InitInv
  <1>2. IInv /\ [Next]_vars => IInv'  BY StepInv
  <1>3. IInv /\ [Next]_vars => Attributes  BY StepAttributes
  <1>4. IInv /\ [][Next]_vars => [][Attributes]_vars
    <2> HIDE DEF IInv, Attributes
    <2> QED  BY <1>2, <1>3, PTL
  <1>5. [][Attributes]_vars <=> EditsAttributed  BY DEF Attributes, EditsAttributed
  <1> QED  BY <1>1, <1>4, <1>5, PTL DEF Spec
=============================================================================
