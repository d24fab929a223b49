------------------------------ MODULE Pricing ------------------------------
(* The resolver's arithmetic: what one campaign makes of one variant.

   Amounts are whole minor units.  A baseline is a record [price, compareAt, cost],
   the terms of a campaign [kind, n, d, rounding, compareAt, strike]: the rule, with
   its number n/d (or the amount, or the file's price, n), the rounding by name, the
   compare-at policy and the file's compare-at.  The store is [unit, belowCost,
   margin, min, missing, breach], unit being the minor units in a major one.

   The order is the code's: baseline, rule, round, clamp, compare-at.  Left out:
   guardrails of a campaign's own and rule rows for segments (no page stores any),
   and prices in a currency other than the store's. *)
EXTENDS Integers

None  == -1    \* no compare-at, no cost, no minimum, no line in the file
Leave == -2    \* a compare-at that is not written

Optional == Nat \cup {None}
Unit     == {1, 100, 1000}    \* of currencies with no, two and three decimals
Policies == {"clamp", "skip", "block"}

RuleKinds == {"percent", "fixed", "exact", "import", "multiple", "margin", "ofCompareAt"}
Roundings == {"none", "charm99", "charm95", "whole", "nearest10", "nearest100"}

Baseline == [price: Nat, compareAt: Optional, cost: Optional]
Settings == [unit: Unit, belowCost: BOOLEAN, margin: {m \in Optional : m < 100}, min: Optional,
             missing: {"skip", "error"}, breach: Policies]
Term     == [kind: RuleKinds, n: Int, d: Nat \ {0}, rounding: Roundings,
             compareAt: {"baseline", "import", "leave", "clear"}, strike: Optional]

Larger(a, b) == IF a >= b THEN a ELSE b
Size(a)      == IF a < 0 THEN -a ELSE a
Least(S)     == CHOOSE x \in S : \A y \in S : x <= y
Greatest(S)  == CHOOSE x \in S : \A y \in S : x >= y

----------------------------------------------------------------------------
(* Exact quotients, for a positive divisor. *)

HalfEven(n, d) ==
    LET q    == Size(n) \div d
        rest == 2 * (Size(n) % d)
        away == rest > d \/ (rest = d /\ q % 2 = 1)
        size == IF away THEN q + 1 ELSE q
    IN  IF n < 0 THEN -size ELSE size

Ceiling(n, d) == -((-n) \div d)

PercentChange(a, n, d) == HalfEven(a * (100 * d + n), 100 * d)

----------------------------------------------------------------------------
(* Rules. *)

(* What applyRule throws RuleNotApplicableError for. *)
Applicable(t, b) ==
    /\ t.kind \in {"multiple", "margin"} => b.cost # None
    /\ t.kind = "margin"                 => t.n < 100 * t.d
    /\ t.kind = "import"                 => t.n # None
    /\ t.kind = "ofCompareAt"            => b.compareAt # None

Unrounded(t, b) ==
    CASE t.kind = "percent"             -> PercentChange(b.price, t.n, t.d)
      [] t.kind = "fixed"               -> b.price + t.n
      [] t.kind \in {"exact", "import"} -> t.n
      [] t.kind = "multiple"            -> HalfEven(b.cost * t.n, t.d)
      [] t.kind = "margin"              -> HalfEven(b.cost * 100 * t.d, 100 * t.d - t.n)
      [] t.kind = "ofCompareAt"         -> PercentChange(b.compareAt, t.n, t.d)

Reduces(t) == t.kind \in {"percent", "fixed"} /\ t.n < 0
Raises(t)  == t.kind \in {"percent", "fixed"} /\ t.n > 0

----------------------------------------------------------------------------
(* Rounding. *)

Step(size) == [charm |-> FALSE, size |-> size, ending |-> 0]
(* Mutant: an ending is a number of minor units in every currency (#695). *)
CharmInMinorUnits(e, u) == [charm |-> TRUE, size |-> u, ending |-> e]

Charm(e, u) == [charm |-> TRUE, size |-> u, ending |-> (e * u) \div 100]

(* Where a currency has no minor unit, an ending means the nearest ten. *)
ProfileFor(name, unit) ==
    CASE name \in {"charm99", "charm95"} /\ unit = 1 -> Step(10)
      [] name = "charm99" /\ unit > 1 -> Charm(99, unit)
      [] name = "charm95" /\ unit > 1 -> Charm(95, unit)
      [] name = "whole"      -> IF unit = 1 THEN Step(1) ELSE Charm(0, unit)
      [] name = "nearest10"  -> Step(10)
      [] name = "nearest100" -> Step(100)
      [] name = "none"       -> Step(1)

RoundStep(a, s, direction) ==
    LET lower == (a \div s) * s
        upper == lower + s
    IN  CASE direction = "up"      -> Ceiling(a, s) * s
          [] direction = "down"    -> lower
          [] direction = "nearest" ->
                IF a - lower < upper - a \/ (a - lower = upper - a /\ a < 0) THEN lower ELSE upper

RoundCharm(a, ending, unit, direction) ==
    LET major == (a \div unit) * unit
        all   == {major - unit + ending, major + ending, major + unit + ending}
        ends  == IF a >= 0 THEN {c \in all : c >= 0} ELSE all
        low   == {c \in ends : c <= a}
        near  == {c \in ends : \A e \in ends : Size(a - c) <= Size(a - e)}
    IN  CASE direction = "up"      -> Least({c \in ends : c >= a})
          [] direction = "down"    -> IF low # {} THEN Greatest(low)
                                      ELSE IF a >= 0 THEN 0 ELSE Least(ends)
          [] direction = "nearest" -> Greatest(near)

Rounded(a, p, direction) ==
    IF p.charm THEN RoundCharm(a, p.ending, p.size, direction)
    ELSE IF p.size = 1 THEN a ELSE RoundStep(a, p.size, direction)

----------------------------------------------------------------------------
(* Floors. *)

CostMissing(b, s) == (s.belowCost \/ s.margin # None) /\ b.cost = None

(* Mutant: the price a margin asks for is rounded to the nearest. *)
LowestToTheNearest(b, s) ==
    Larger(Larger(1, s.min),
           IF b.cost # None /\ s.margin # None THEN HalfEven(b.cost * 100, 100 - s.margin)
           ELSE IF b.cost # None /\ s.belowCost THEN b.cost ELSE 1)

(* The highest floor, and never less than one minor unit. *)
Lowest(b, s) ==
    Larger(Larger(1, s.min),
           IF b.cost = None THEN 1
           ELSE Larger(IF s.belowCost THEN b.cost ELSE 1,
                       IF s.margin # None THEN Ceiling(b.cost * 100, 100 - s.margin) ELSE 1))

----------------------------------------------------------------------------
(* Resolutions. *)

Left(outcome) == [outcome |-> outcome, price |-> None, compareAt |-> Leave,
                  raw |-> None, clamped |-> FALSE]

Candidate(t, b) ==
    CASE t.compareAt = "baseline" -> b.price
      [] t.compareAt = "import"   -> IF t.strike = None THEN Leave ELSE t.strike
      [] t.compareAt = "leave"    -> Leave
      [] t.compareAt = "clear"    -> None

(* Every campaign is stored with "clear" for a compare-at that shows no saving. *)
CompareAt(t, b, price) ==
    IF Candidate(t, b) = Leave THEN Leave
    ELSE IF Candidate(t, b) <= price THEN None ELSE Candidate(t, b)

Offer(t, b, price, raw, clamped) ==
    [outcome |-> "priced", price |-> price, compareAt |-> CompareAt(t, b, price),
     raw |-> raw, clamped |-> clamped]

(* A reduction whose nearest ending is not below the baseline takes the ending below,
   a rise whose nearest is below the baseline the ending above. *)
TurnsDown(t, b, nearest) == Reduces(t) /\ nearest >= b.price

(* Mutant: the nearest ending is good enough for a rise (#923). *)
NeverTurns(t, b, nearest) == FALSE

TurnsUp(t, b, nearest) == Raises(t) /\ nearest < b.price

Ending(t, b, raw, profile, nearest) ==
    IF TurnsDown(t, b, nearest) THEN Rounded(raw, profile, "down")
    ELSE IF TurnsUp(t, b, nearest) THEN Rounded(raw, profile, "up") ELSE nearest

(* resolve, for the campaign that won the variant. *)
Priced(t, b, s, breach) ==
    LET raw     == Unrounded(t, b)
        profile == ProfileFor(t.rounding, s.unit)
        nearest == Rounded(raw, profile, "nearest")
        ending  == Ending(t, b, raw, profile, nearest)
        floor   == Lowest(b, s)
        refuse  == Left(IF breach = "block" THEN "blocked" ELSE "skipped")
        free    == b.price <= 0 /\ raw <= 0
        stuck   == TurnsDown(t, b, nearest) /\ (ending >= b.price \/ ending <= 0)
    IN  IF CostMissing(b, s) THEN Left(IF s.missing = "error" THEN "blocked" ELSE "skipped")
        ELSE IF ~Applicable(t, b) THEN refuse
        ELSE IF free \/ stuck THEN Left("skipped")
        ELSE IF ending >= floor THEN Offer(t, b, ending, raw, FALSE)
        ELSE IF breach # "clamp" THEN refuse
        ELSE IF Reduces(t) /\ floor > b.price THEN Left("skipped")
        ELSE Offer(t, b, floor, raw, TRUE)

(* resolve, when nothing controls the variant: its baseline, as it is. *)
AtBaseline(b) == [outcome |-> "baseline", price |-> b.price, compareAt |-> b.compareAt,
                  raw |-> None, clamped |-> FALSE]
=============================================================================
