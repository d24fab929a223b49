---------------------------- MODULE LivePrices ----------------------------
(* What the storefront shows while campaigns over the same variants start, run again,
   end, let single variants out and take them back, and settings and costs change.

   Every run resolves: of the campaigns that are pricing and have the variant, the
   highest in rank prices it from its baseline, and the run writes where the
   storefront shows something else.  A campaign keeps the floor-breach policy of the
   store's settings as they were when it started (#789), the floors are read as they
   are (#338).

   A run is one step here, and writes all it planned: Ledger is about one that does
   not, Overlap about two at once.  Every campaign's scope has every variant. *)
EXTENDS Pricing

CONSTANTS
    Variants,
    Campaigns,
    Rank,        \* compareCampaigns: priority, then start, then id
    Given,       \* the terms the campaigns can have,
    Catalogues,  \* the baselines of the variants,
    Costs,       \* what a sync can find as a new cost,
    Stores,      \* and the settings page as the store's settings
    Weak,        \* which of the gaps can happen
    MaxChanges   \* a bound for TLC, on changes of settings and costs

(* "list": another variant is let out of the campaign between the two halves of one
   being taken back.  "ended": the campaign ends between them. *)
Gaps     == {"list", "ended"}
Ended    == "ended"

(* Among any campaigns there is one that outranks the others: there are finitely many. *)
ASSUME RankAssumption == /\ Rank \in [Campaigns -> Int]
                         /\ \A C \in (SUBSET Campaigns) \ {{}} : \E c \in C : \A d \in C : Rank[d] <= Rank[c]
                         /\ \A c, d \in Campaigns : Rank[c] = Rank[d] => c = d
ASSUME InputsAssumption == /\ \A g \in Given : g \in [Campaigns -> Term]
                           /\ \A k \in Catalogues : k \in [Variants -> Baseline]
                           /\ Costs \subseteq Optional
                           /\ Stores \subseteq Settings
ASSUME WeakAssumption == Weak \subseteq Gaps /\ MaxChanges \in Int

VARIABLES
    terms,     \* of each campaign: its rule, rounding and compare-at policy
    base,      \* of each variant: its baseline
    store,     \* the settings, with the minor units of the store's currency
    policy,    \* of each campaign: the breach policy it keeps, or Ended
    excluded,  \* excludedVariantGids
    landed,    \* the variants each campaign's applies have a landed row for
    live,      \* of each variant: what Shopify shows, [price, compareAt]
    hand,      \* a reinstateVariant between its read and its write
    out,       \* history: the variants the merchant's last word lets out of each
    stale,     \* history: the variants no run has planned since a change of floors or costs
    changes

vars == <<terms, base, store, policy, excluded, landed, live, hand, out, stale, changes>>

NoHand  == [campaign |-> "none"]
Change  == changes < MaxChanges /\ changes' = changes + 1
Running == {c \in Campaigns : policy[c] # Ended}

Init ==
    /\ terms \in Given
    /\ base \in Catalogues
    /\ store \in Stores
    /\ policy = [c \in Campaigns |-> Ended]
    /\ excluded = [c \in Campaigns |-> {}]
    /\ landed = [c \in Campaigns |-> {}]
    /\ live = [v \in Variants |-> [price |-> base[v].price, compareAt |-> base[v].compareAt]]
    /\ hand = NoHand
    /\ out = [c \in Campaigns |-> {}]
    /\ stale = {}
    /\ changes = 0

----------------------------------------------------------------------------
(* Plans. *)

Winner(C) == CHOOSE c \in C : \A d \in C : Rank[d] <= Rank[c]

(* Mutant: every campaign follows the settings' breach policy of the moment (#338). *)
ResolutionBySettings(v, C, kept) ==
    IF C = {} THEN AtBaseline(base[v])
    ELSE Priced(terms[Winner(C)], base[v], store, store.breach)

(* planRun and resolve for one variant: C is who is pricing it, kept their policies. *)
Resolution(v, C, kept) ==
    IF C = {} THEN AtBaseline(base[v])
    ELSE Priced(terms[Winner(C)], base[v], store, kept[Winner(C)])

Covering(v, C, without) == {c \in C : v \notin without[c]}

Plan(S, C, without, kept) == [v \in S |-> Resolution(v, Covering(v, C, without), kept)]

Blocked(plan) == \E v \in DOMAIN plan : plan[v].outcome = "blocked"

(* What the storefront shows after a row: a skipped one is not written, and a
   compare-at that is left alone stays. *)
Written(shown, r) ==
    IF r.outcome \notin {"priced", "baseline"} THEN shown
    ELSE [price |-> r.price,
          compareAt |-> IF r.compareAt = Leave THEN shown.compareAt ELSE r.compareAt]

Write(plan) ==
    /\ live' = [v \in Variants |-> IF v \in DOMAIN plan THEN Written(live[v], plan[v]) ELSE live[v]]
    /\ stale' = stale \ DOMAIN plan

Rows(plan) == {v \in DOMAIN plan : Written(live[v], plan[v]) # live[v]}

(* A blocked plan writes nothing, and its run is refused. *)
WriteUnlessBlocked(plan) ==
    IF Blocked(plan) THEN live' = live /\ stale' = stale \cup DOMAIN plan ELSE Write(plan)

----------------------------------------------------------------------------
(* Runs. *)

Keeps(c) == IF c \in Running THEN policy[c] ELSE store.breach

(* An apply, or a resume or a recurrence of a campaign that is running. *)
Apply(c) ==
    LET kept == [policy EXCEPT ![c] = Keeps(c)]
        plan == Plan(Variants, Running \cup {c}, excluded, kept)
    IN  /\ ~Blocked(plan)
        /\ policy' = kept
        /\ Write(plan)
        /\ landed' = [landed EXCEPT ![c] = @ \cup Rows(plan)]
        /\ UNCHANGED <<terms, base, store, excluded, hand, out, changes>>

(* A revert: resolution with the ending campaign removed (I3). *)
Revert(c) ==
    LET plan == Plan(Variants, Running \ {c}, excluded, policy)
    IN  /\ c \in Running
        /\ "ended" \in Weak \/ hand.campaign # c
        /\ ~Blocked(plan)
        /\ policy' = [policy EXCEPT ![c] = Ended]
        /\ Write(plan)
        /\ UNCHANGED <<terms, base, store, excluded, landed, hand, out, changes>>

(* revertVariant: the exclusion is stored first, whatever the run then does. *)
RevertVariant(c, v) ==
    LET without == [excluded EXCEPT ![c] = @ \cup {v}]
    IN  /\ c \in Running /\ v \in landed[c]
        /\ "list" \in Weak \/ hand.campaign # c
        /\ excluded' = without
        /\ out' = [out EXCEPT ![c] = @ \cup {v}]
        /\ WriteUnlessBlocked(Plan({v}, Running, without, policy))
        /\ UNCHANGED <<terms, base, store, policy, landed, hand, changes>>

(* reinstateVariant reads the list, *)
ReadList(c, v) ==
    /\ hand = NoHand
    /\ c \in Running /\ v \in excluded[c]
    /\ hand' = [campaign |-> c, variant |-> v, list |-> excluded[c]]
    /\ UNCHANGED <<terms, base, store, policy, excluded, landed, live, out, stale, changes>>

(* stores it without the variant, and runs an apply of it: over the campaign it is
   for, whether or not that is still running. *)
ReinstateVariant ==
    LET c       == hand.campaign
        v       == hand.variant
        without == [excluded EXCEPT ![c] = hand.list \ {v}]
        kept    == [policy EXCEPT ![c] = Keeps(c)]
        plan    == Plan({v}, Running \cup {c}, without, kept)
    IN  /\ hand # NoHand
        /\ excluded' = without
        /\ out' = [out EXCEPT ![c] = @ \ {v}]
        /\ WriteUnlessBlocked(plan)
        /\ landed' = IF Blocked(plan) THEN landed ELSE [landed EXCEPT ![c] = @ \cup Rows(plan)]
        /\ hand' = NoHand
        /\ UNCHANGED <<terms, base, store, policy, changes>>

----------------------------------------------------------------------------
(* Settings and costs. *)

SameFloors(s, r) == [s EXCEPT !.breach = r.breach] = r

SetStore(s) ==
    /\ Change
    /\ s # store /\ s.unit = store.unit
    /\ store' = s
    /\ stale' = IF SameFloors(store, s) THEN stale ELSE Variants
    /\ UNCHANGED <<terms, base, policy, excluded, landed, live, hand, out>>

Recost(v, k) ==
    /\ Change
    /\ base[v].cost # k
    /\ base' = [base EXCEPT ![v].cost = k]
    /\ stale' = stale \cup {v}
    /\ UNCHANGED <<terms, store, policy, excluded, landed, live, hand, out>>

Next ==
    \/ \E c \in Campaigns : Apply(c) \/ Revert(c)
    \/ \E c \in Campaigns, v \in Variants : RevertVariant(c, v) \/ ReadList(c, v)
    \/ ReinstateVariant
    \/ \E s \in Stores : SetStore(s)
    \/ \E v \in Variants, k \in Costs : Recost(v, k)

Spec == Init /\ [][Next]_vars

TypeOK ==
    /\ terms \in [Campaigns -> Term]
    /\ base \in [Variants -> Baseline]
    /\ store \in Settings
    /\ policy \in [Campaigns -> Policies \cup {Ended}]
    /\ excluded \in [Campaigns -> SUBSET Variants]
    /\ landed \in [Campaigns -> SUBSET Variants]
    /\ live \in [Variants -> [price: Nat, compareAt: Optional]]
    /\ hand # NoHand => /\ hand.campaign \in Campaigns /\ hand.variant \in Variants
                        /\ hand.list \subseteq Variants
    /\ out \in [Campaigns -> SUBSET Variants]
    /\ stale \subseteq Variants
    /\ changes \in Int

----------------------------------------------------------------------------
(* Properties.  The first three are about every plan and every preview, of campaigns
   that run and of drafts: each campaign's terms, on each variant, under the settings of
   the moment.  Clamping is the policy that prices the most; the others refuse. *)

(* A price that is planned is one the guardrails allow: at least one minor unit, the
   minimum and, where the settings say so, the cost; with at least the margin, as a
   share of the price, and no cost assumed where there is none (I6, E10).  A compare-at
   that is written shows a saving (E11). *)
Allowed(r, b) ==
    r.outcome = "priced" =>
        /\ r.price >= Larger(1, store.min)
        /\ ~CostMissing(b, store)
        /\ store.belowCost => r.price >= b.cost
        /\ store.margin # None => 100 * (r.price - b.cost) >= store.margin * r.price
        /\ r.compareAt \notin {None, Leave} => r.compareAt > r.price

PlansAreValid ==
    \A c \in Campaigns, v \in Variants :
        Allowed(Priced(terms[c], base[v], store, "clamp"), base[v])

(* A campaign that reduces never raises a price, whatever rounding and floors make of
   it, and one that raises never lowers one (#740, #792, #825, #923). *)
Kept(r, t, b) ==
    r.outcome = "priced" =>
        /\ Reduces(t) => r.price <= b.price
        /\ Raises(t)  => r.price >= b.price

DirectionKept ==
    \A c \in Campaigns, v \in Variants :
        Kept(Priced(terms[c], base[v], store, "clamp"), terms[c], base[v])

(* What the names of the roundings promise, in a currency: how far apart such prices
   are, and which they are. *)
Apart(name, unit) ==
    CASE name = "none" \/ (name = "whole" /\ unit = 1)               -> 1
      [] name = "nearest10" \/ (name \in {"charm99", "charm95"} /\ unit = 1) -> 10
      [] name = "nearest100"                                        -> 100
      [] name \in {"charm99", "charm95", "whole"} /\ unit > 1        -> unit

EndsAs(x, name, unit) ==
    LET last == x % Apart(name, unit)
    IN  IF name \in {"charm99", "charm95"} /\ unit > 1
        THEN 100 * last = (IF name = "charm99" THEN 99 ELSE 95) * unit
        ELSE last = 0

(* A price no floor has raised ends the way the campaign's rounding says, in this
   currency, and of such prices is the nearest to what the rule gave, the upper of two:
   of those that are not negative and keep the rule's direction (E9, #695, #825). *)
Nearest(r, t, b, unit) ==
    r.outcome = "priced" /\ ~r.clamped =>
        LET apart      == Apart(t.rounding, unit)
            barred(x)  == x < 0 \/ (Reduces(t) /\ x >= b.price) \/ (Raises(t) /\ x < b.price)
            nearer(x)  == \/ Size(x - r.raw) < Size(r.price - r.raw)
                          \/ Size(x - r.raw) = Size(r.price - r.raw) /\ x > r.price
        IN  /\ EndsAs(r.price, t.rounding, unit)
            /\ Size(r.price - r.raw) < apart
            /\ \A x \in {r.price - apart, r.price + apart} : nearer(x) => barred(x)

EndingsKept ==
    \A c \in Campaigns, v \in Variants :
        Nearest(Priced(terms[c], base[v], store, "clamp"), terms[c], base[v], store.unit)

(* Whatever campaigns started, ran again and ended, in whatever order, and whatever the
   breach policy in the settings became meanwhile: the storefront shows what the
   campaigns still running make of a variant, those left aside that the merchant let it
   out of, or its baseline (I3, E1, #338).  Unless floors or costs have changed since, or
   the variant is skipped or blocked now; and a compare-at that is left alone is whatever
   was there. *)
Shows(shown, r) ==
    r.outcome \in {"priced", "baseline"} =>
        /\ shown.price = r.price
        /\ r.compareAt # Leave => shown.compareAt = r.compareAt

ShownIsResolved ==
    \A v \in Variants \ stale : Shows(live[v], Resolution(v, Covering(v, Running, out), policy))
=============================================================================
