------------------------- MODULE LivePrices_proofs -------------------------
(* Proofs about the resolver's arithmetic, for all whole numbers, and about LivePrices,
   for any campaigns, terms, baselines and settings. *)
EXTENDS LivePrices, TLAPS

----------------------------------------------------------------------------
(* Quotients. *)

(* What \div and % return for a positive divisor. *)
LEMMA Division ==
    ASSUME NEW n \in Int, NEW d \in Int, d > 0
    PROVE  /\ n \div d \in Int /\ n % d \in Int
           /\ n = d * (n \div d) + (n % d) /\ 0 <= n % d /\ n % d < d
  OBVIOUS

(* A factor that is not negative keeps an order. *)
LEMMA TimesKeepsOrder ==
    ASSUME NEW a \in Int, NEW b \in Int, NEW c \in Int, a <= b, c >= 0
    PROVE  a * c <= b * c
  OBVIOUS

(* Ceiling is a whole number and, times the divisor, not below the dividend. *)
LEMMA CeilingIsEnough ==
    ASSUME NEW n \in Int, NEW d \in Int, d > 0
    PROVE  Ceiling(n, d) \in Int /\ Ceiling(n, d) * d >= n
  <1>1. /\ -n \in Int /\ (-n) \div d \in Int /\ (-n) % d \in Int
        /\ -n = d * ((-n) \div d) + ((-n) % d) /\ 0 <= (-n) % d
    BY Division
  <1>2. n = d * (-((-n) \div d)) - ((-n) % d)
    BY <1>1
  <1> QED  BY <1>1, <1>2 DEF Ceiling

(* HalfEven is a whole number, and not below any whole number whose product with the
   divisor the dividend reaches. *)
LEMMA HalfEvenIsEnough ==
    ASSUME NEW n \in Int, NEW d \in Int, d > 0
    PROVE  /\ HalfEven(n, d) \in Int
           /\ \A k \in Nat : n >= k * d => HalfEven(n, d) >= k
  <1> DEFINE size == Size(n)
             q    == size \div d
             rest == size % d
  <1>1. size \in Int /\ size >= 0 /\ (n >= 0 => size = n)
    BY DEF Size
  <1>2. q \in Int /\ rest \in Int /\ size = d * q + rest /\ 0 <= rest /\ rest < d
    BY <1>1, Division
  <1>3. HalfEven(n, d) \in {q, q + 1, -q, -(q + 1)} /\ (n >= 0 => HalfEven(n, d) \in {q, q + 1})
    <2> HIDE DEF q
    <2> QED  BY SMT DEF HalfEven, q
  <1> HIDE DEF size, q, rest
  <1>4. HalfEven(n, d) \in Int /\ (n >= 0 => HalfEven(n, d) >= q)
    BY <1>2, <1>3
  <1>5. ASSUME NEW k \in Nat, n >= k * d  PROVE HalfEven(n, d) >= k
    <2>1. n >= 0 /\ size = n
      BY <1>1, <1>5, TimesKeepsOrder
    <2>2. q >= k
      <3> SUFFICES ASSUME q <= k - 1  PROVE FALSE
        BY <1>2
      <3>1. q * d <= (k - 1) * d
        BY <1>2, TimesKeepsOrder
      <3>2. (k - 1) * d = k * d - d /\ d * q = q * d /\ k * d \in Int /\ q * d \in Int
        BY <1>2
      <3> QED  BY <1>2, <1>5, <2>1, <3>1, <3>2
    <2> QED  BY <1>2, <1>4, <2>1, <2>2
  <1> QED  BY <1>4, <1>5

----------------------------------------------------------------------------
(* Rules. *)

(* A percentage of a whole amount is a whole amount, and a rise no less than it. *)
LEMMA PercentChangeIsWhole ==
    ASSUME NEW a \in Nat, NEW n \in Int, NEW d \in Nat \ {0}
    PROVE  PercentChange(a, n, d) \in Int /\ (n > 0 => PercentChange(a, n, d) >= a)
  <1>1. 100 * d \in Int /\ 100 * d > 0 /\ a * (100 * d + n) \in Int
    OBVIOUS
  <1>2. a * (100 * d + n) = a * (100 * d) + a * n
    OBVIOUS
  <1>3. n > 0 => a * n >= 0
    BY TimesKeepsOrder
  <1>4. n > 0 => a * (100 * d + n) >= a * (100 * d)
    BY <1>1, <1>2, <1>3
  <1> QED  BY <1>1, <1>4, HalfEvenIsEnough DEF PercentChange

(* Every rule that applies gives a whole amount, and one that raises no less than the
   baseline. *)
LEMMA UnroundedIsWhole ==
    ASSUME NEW t \in Term, NEW b \in Baseline, Applicable(t, b)
    PROVE  Unrounded(t, b) \in Int /\ (Raises(t) => Unrounded(t, b) >= b.price)
  <1>1. /\ t.kind \in RuleKinds /\ t.n \in Int /\ t.d \in Nat \ {0}
        /\ b.price \in Nat /\ b.compareAt \in Optional /\ b.cost \in Optional
    BY DEF Term, Baseline
  <1>2. CASE t.kind = "percent"
    BY <1>1, <1>2, PercentChangeIsWhole DEF Unrounded, Raises
  <1>3. CASE t.kind = "fixed"
    BY <1>1, <1>3 DEF Unrounded, Raises
  <1>4. CASE t.kind \in {"exact", "import"}
    BY <1>1, <1>4 DEF Unrounded, Raises
  <1>5. CASE t.kind = "multiple"
    <2>1. b.cost * t.n \in Int
      BY <1>1 DEF Optional, None
    <2> QED  BY <1>1, <1>5, <2>1, HalfEvenIsEnough DEF Unrounded, Raises
  <1>6. CASE t.kind = "margin"
    <2>1. b.cost * 100 * t.d \in Int /\ 100 * t.d - t.n \in Int /\ 100 * t.d - t.n > 0
      BY <1>1, <1>6 DEF Optional, None, Applicable
    <2> QED  BY <1>6, <2>1, HalfEvenIsEnough DEF Unrounded, Raises
  <1>7. CASE t.kind = "ofCompareAt"
    <2>1. b.compareAt \in Nat
      BY <1>1, <1>7 DEF Optional, Applicable
    <2> QED  BY <1>1, <1>7, <2>1, PercentChangeIsWhole DEF Unrounded, Raises
  <1> QED  BY <1>1, <1>2, <1>3, <1>4, <1>5, <1>6, <1>7 DEF RuleKinds

----------------------------------------------------------------------------
(* Rounding. *)

(* The extremes of at most three whole numbers are among them. *)
LEMMA LeastOfThree ==
    ASSUME NEW x \in Int, NEW y \in Int, NEW z \in Int
    PROVE  \A S \in SUBSET {x, y, z} :
               S # {} => Least(S) \in S /\ \A e \in S : Least(S) <= e
  <1> SUFFICES ASSUME NEW S \in SUBSET {x, y, z}, S # {}
               PROVE  \E m \in S : \A e \in S : m <= e
    BY DEF Least
  <1> DEFINE first  == IF x \in S THEN x ELSE IF y \in S THEN y ELSE z
             second == IF y \in S /\ y < first THEN y ELSE first
             third  == IF z \in S /\ z < second THEN z ELSE second
  <1>1. first \in S /\ first \in Int /\ (x \in S => first = x)
    OBVIOUS
  <1>2. second \in S /\ second \in Int /\ second <= first /\ (y \in S => second <= y)
    <2> HIDE DEF first
    <2> QED  BY <1>1
  <1>3. third \in S /\ third \in Int /\ third <= second /\ (z \in S => third <= z)
    <2> HIDE DEF first, second
    <2> QED  BY <1>2
  <1> HIDE DEF first, second, third
  <1>4. (x \in S => third <= x) /\ (y \in S => third <= y) /\ (z \in S => third <= z)
    BY <1>1, <1>2, <1>3
  <1>5. \A e \in S : e = x \/ e = y \/ e = z
    OBVIOUS
  <1>6. \A e \in S : third <= e
    BY <1>4, <1>5
  <1> QED  BY <1>3, <1>6

LEMMA GreatestOfThree ==
    ASSUME NEW x \in Int, NEW y \in Int, NEW z \in Int
    PROVE  \A S \in SUBSET {x, y, z} :
               S # {} => Greatest(S) \in S /\ \A e \in S : Greatest(S) >= e
  <1> SUFFICES ASSUME NEW S \in SUBSET {x, y, z}, S # {}
               PROVE  \E m \in S : \A e \in S : m >= e
    BY DEF Greatest
  <1> DEFINE first  == IF x \in S THEN x ELSE IF y \in S THEN y ELSE z
             second == IF y \in S /\ y > first THEN y ELSE first
             third  == IF z \in S /\ z > second THEN z ELSE second
  <1>1. first \in S /\ first \in Int /\ (x \in S => first = x)
    OBVIOUS
  <1>2. second \in S /\ second \in Int /\ second >= first /\ (y \in S => second >= y)
    <2> HIDE DEF first
    <2> QED  BY <1>1
  <1>3. third \in S /\ third \in Int /\ third >= second /\ (z \in S => third >= z)
    <2> HIDE DEF first, second
    <2> QED  BY <1>2
  <1> HIDE DEF first, second, third
  <1>4. (x \in S => third >= x) /\ (y \in S => third >= y) /\ (z \in S => third >= z)
    BY <1>1, <1>2, <1>3
  <1>5. \A e \in S : e = x \/ e = y \/ e = z
    OBVIOUS
  <1>6. \A e \in S : third >= e
    BY <1>4, <1>5
  <1> QED  BY <1>3, <1>6

IsProfile(p) == /\ p.charm \in BOOLEAN
                /\ p.size \in Nat \ {0}
                /\ p.ending \in Nat /\ p.ending < p.size

LEMMA ProfilesAreProfiles ==
    ASSUME NEW name \in Roundings, NEW unit \in Unit
    PROVE  IsProfile(ProfileFor(name, unit))
  <1>1. \A s \in Nat \ {0} : IsProfile(Step(s))
    BY DEF IsProfile, Step
  <1>2. \A e \in {0, 95, 99}, u \in {100, 1000} : IsProfile(Charm(e, u))
    BY DEF IsProfile, Charm
  <1>3. unit = 1 \/ unit \in {100, 1000}
    BY DEF Unit
  <1> HIDE DEF Step, Charm
  <1> QED  BY <1>1, <1>2, <1>3 DEF ProfileFor, Roundings

(* A rounded amount is whole, and one rounded up no less than the amount. *)
LEMMA StepsAreWhole ==
    ASSUME NEW a \in Int, NEW s \in Nat \ {0}, NEW direction \in {"up", "down", "nearest"}
    PROVE  /\ RoundStep(a, s, direction) \in Int
           /\ direction = "up" => RoundStep(a, s, direction) >= a
  <1>1. a \div s \in Int /\ (a \div s) * s \in Int
    BY Division
  <1>2. Ceiling(a, s) \in Int /\ Ceiling(a, s) * s \in Int /\ Ceiling(a, s) * s >= a
    BY CeilingIsEnough
  <1> QED  BY <1>1, <1>2 DEF RoundStep

(* The endings about an amount: of those that are not negative, unless the amount is. *)
Middle(a, e, u) == (a \div u) * u + e
Ends(a, e, u)   == {c \in {Middle(a, e, u) - u, Middle(a, e, u), Middle(a, e, u) + u} : a < 0 \/ c >= 0}

(* Which of them a rounding is: the least not below, the greatest not above, the nearest. *)
EndsAbout(a, e, u, above, below, nearest) ==
    LET y   == Middle(a, e, u)
        all == Ends(a, e, u)
    IN  /\ y \in all /\ y \in Int
        /\ y - u < a /\ a < y + u
        /\ above \in all /\ above >= a /\ \A c \in all : c >= a => c >= above
        /\ \/ below \in all /\ below <= a /\ \A c \in all : c <= a => c <= below
           \/ below = 0 /\ \A c \in all : c > a
        /\ nearest \in all
        /\ \A c \in all : /\ Size(a - nearest) <= Size(a - c)
                          /\ Size(a - nearest) = Size(a - c) => nearest >= c

LEMMA EndingsAbout ==
    ASSUME NEW a \in Int, NEW u \in Nat \ {0}, NEW e \in Nat, e < u
    PROVE  EndsAbout(a, e, u, RoundCharm(a, e, u, "up"), RoundCharm(a, e, u, "down"),
                     RoundCharm(a, e, u, "nearest"))
  <1> SUFFICES ASSUME NEW above, above = RoundCharm(a, e, u, "up"),
                      NEW below, below = RoundCharm(a, e, u, "down"),
                      NEW nearest, nearest = RoundCharm(a, e, u, "nearest")
               PROVE  EndsAbout(a, e, u, above, below, nearest)
    OBVIOUS
  <1> DEFINE major == (a \div u) * u
             x     == major - u + e
             y     == major + e
             z     == major + u + e
             all   == IF a >= 0 THEN {c \in {x, y, z} : c >= 0} ELSE {x, y, z}
  <1>1. major \in Int /\ major <= a /\ a < major + u /\ (a >= 0 => major >= 0)
    <2>1. a \div u \in Int /\ a % u \in Int /\ a = u * (a \div u) + (a % u) /\ 0 <= a % u /\ a % u < u
      BY Division
    <2>2. u * (a \div u) = (a \div u) * u /\ (a \div u) * u \in Int
      BY <2>1
    <2>3. a \div u < 0 => (a \div u) * u <= -1 * u
      BY <2>1, TimesKeepsOrder
    <2>4. a \div u >= 0 => 0 * u <= (a \div u) * u
      BY <2>1, TimesKeepsOrder
    <2> QED  BY <2>1, <2>2, <2>3, <2>4
  <1> HIDE DEF major
  <1>2. /\ x \in Int /\ y \in Int /\ z \in Int /\ x < a /\ z > a /\ x = y - u /\ z = y + u
        /\ all \in SUBSET {x, y, z} /\ z \in all /\ (a < 0 => x \in all) /\ y \in all
        /\ all = {c \in {y - u, y, y + u} : a < 0 \/ c >= 0}
    BY <1>1
  <1> DEFINE rise == {c \in all : c >= a}
             low  == {c \in all : c <= a}
             near == {c \in all : \A f \in all : Size(a - c) <= Size(a - f)}
             far  == {Size(a - c) : c \in all}
  <1>3. /\ RoundCharm(a, e, u, "up") = Least(rise)
        /\ RoundCharm(a, e, u, "down") = IF low # {} THEN Greatest(low) ELSE IF a >= 0 THEN 0 ELSE Least(all)
        /\ RoundCharm(a, e, u, "nearest") = Greatest(near)
    BY DEF RoundCharm, major
  <1>4. /\ rise \in SUBSET {x, y, z} /\ rise # {}
        /\ low \in SUBSET {x, y, z} /\ (a < 0 => low # {})
    BY <1>2
  <1>5. /\ far \in SUBSET {Size(a - x), Size(a - y), Size(a - z)} /\ far # {}
        /\ Size(a - x) \in Int /\ Size(a - y) \in Int /\ Size(a - z) \in Int
    BY <1>2 DEF Size
  <1>6. near \in SUBSET {x, y, z} /\ near # {}
    <2>1. Least(far) \in far /\ \A f \in far : Least(far) <= f
      <3> HIDE DEF far, all, x, y, z
      <3> QED  BY <1>5, LeastOfThree
    <2>2. PICK c \in all : Size(a - c) = Least(far)
      BY <2>1
    <2>3. \A f \in all : Size(a - c) <= Size(a - f)
      BY <2>1, <2>2
    <2> HIDE DEF all, x, y, z
    <2> QED  BY <1>2, <2>2, <2>3
  <1>7. /\ Least(rise) \in rise /\ \A c \in rise : Least(rise) <= c
        /\ low # {} => Greatest(low) \in low /\ \A c \in low : Greatest(low) >= c
        /\ Greatest(near) \in near /\ \A c \in near : Greatest(near) >= c
    <2> HIDE DEF rise, low, near, all, x, y, z
    <2> QED  BY <1>2, <1>4, <1>6, LeastOfThree, GreatestOfThree
  <1>8. above \in all /\ above >= a /\ \A c \in all : c >= a => c >= above
    BY <1>3, <1>7
  <1>9. \/ below \in all /\ below <= a /\ \A c \in all : c <= a => c <= below
        \/ below = 0 /\ \A c \in all : c > a
    <2>1. CASE low # {}
      BY <1>3, <1>7, <2>1
    <2>2. CASE low = {}
      <3>1. below = 0
        BY <1>3, <1>4, <2>2
      <3>2. \A c \in all : c \in Int /\ ~(c <= a)
        <4>1. \A c \in all : c \in {x, y, z}
          BY <1>2
        <4>2. \A c \in all : ~(c <= a)
          BY <2>2
        <4> HIDE DEF all, x, y, z
        <4> QED  BY <1>2, <4>1, <4>2
      <3> HIDE DEF all
      <3> QED  BY <3>1, <3>2
    <2> QED  BY <2>1, <2>2
  <1>10. nearest \in all /\ \A c \in all : Size(a - nearest) <= Size(a - c)
    BY <1>3, <1>7
  <1>11. ASSUME NEW c \in all, Size(a - nearest) = Size(a - c)
         PROVE  nearest >= c
    <2>1. c \in near
      BY <1>10, <1>11
    <2> QED  BY <1>3, <1>7, <2>1
  <1>12. y = Middle(a, e, u) /\ all = Ends(a, e, u)
    <2>1. y = Middle(a, e, u)
      BY DEF major, Middle
    <2> HIDE DEF y, all, x, z
    <2> QED  BY <1>2, <2>1 DEF Ends
  <1> HIDE DEF all, x, y, z
  <1> QED  BY <1>2, <1>8, <1>9, <1>10, <1>11, <1>12 DEF EndsAbout

LEMMA EndingsAreWhole ==
    ASSUME NEW a \in Int, NEW u \in Nat \ {0}, NEW e \in Nat, e < u,
           NEW direction \in {"up", "down", "nearest"}
    PROVE  /\ RoundCharm(a, e, u, direction) \in Int
           /\ direction = "up" => RoundCharm(a, e, u, direction) >= a
  <1> DEFINE above == RoundCharm(a, e, u, "up")
             below == RoundCharm(a, e, u, "down")
             near  == RoundCharm(a, e, u, "nearest")
  <1>1. EndsAbout(a, e, u, above, below, near)
    BY EndingsAbout
  <1>2. direction = "up" \/ direction = "down" \/ direction = "nearest"
    OBVIOUS
  <1> HIDE DEF above, below, near
  <1>3. Middle(a, e, u) \in Int => \A c \in Ends(a, e, u) : c \in Int
    BY DEF Ends
  <1>4. above \in Int /\ above >= a /\ below \in Int /\ near \in Int
    BY <1>1, <1>3 DEF EndsAbout
  <1> QED  BY <1>2, <1>4 DEF above, below, near

LEMMA RoundedIsWhole ==
    ASSUME NEW a \in Int, NEW p, IsProfile(p), NEW direction \in {"up", "down", "nearest"}
    PROVE  Rounded(a, p, direction) \in Int /\ (direction = "up" => Rounded(a, p, direction) >= a)
  <1>1. p.charm => /\ RoundCharm(a, p.ending, p.size, direction) \in Int
                   /\ direction = "up" => RoundCharm(a, p.ending, p.size, direction) >= a
    BY EndingsAreWhole DEF IsProfile
  <1>2. /\ RoundStep(a, p.size, direction) \in Int
        /\ direction = "up" => RoundStep(a, p.size, direction) >= a
    BY StepsAreWhole DEF IsProfile
  <1> QED  BY <1>1, <1>2 DEF Rounded, IsProfile

----------------------------------------------------------------------------
(* What a plan offers. *)

(* The lowest price is a whole number that meets the minimum, the cost and the margin. *)
LEMMA LowestMeetsAll ==
    ASSUME NEW b \in Baseline, NEW s \in Settings
    PROVE  /\ Lowest(b, s) \in Int
           /\ Lowest(b, s) >= Larger(1, s.min)
           /\ b.cost # None /\ s.belowCost => Lowest(b, s) >= b.cost
           /\ b.cost # None /\ s.margin # None => Lowest(b, s) * (100 - s.margin) >= 100 * b.cost
  <1>1. /\ b.cost \in Optional /\ s.min \in Optional /\ s.belowCost \in BOOLEAN
        /\ s.margin \in Optional /\ s.margin < 100
    BY DEF Baseline, Settings
  <1>2. b.cost \in Int /\ s.min \in Int /\ s.margin \in Int
    BY <1>1 DEF Optional, None
  <1> DEFINE asked == Ceiling(b.cost * 100, 100 - s.margin)
  <1>3. asked \in Int /\ asked * (100 - s.margin) >= b.cost * 100
    <2>1. b.cost * 100 \in Int /\ 100 - s.margin \in Int /\ 100 - s.margin > 0
      BY <1>1, <1>2
    <2> QED  BY <2>1, CeilingIsEnough
  <1> HIDE DEF asked
  <1>4. /\ Lowest(b, s) \in Int
        /\ Lowest(b, s) >= Larger(1, s.min)
        /\ b.cost # None /\ s.belowCost => Lowest(b, s) >= b.cost
        /\ b.cost # None /\ s.margin # None => Lowest(b, s) >= asked
    BY <1>1, <1>2, <1>3 DEF Lowest, Larger, asked
  <1>5. Lowest(b, s) >= asked => Lowest(b, s) * (100 - s.margin) >= asked * (100 - s.margin)
    BY <1>1, <1>2, <1>3, <1>4, TimesKeepsOrder
  <1>6. Lowest(b, s) * (100 - s.margin) \in Int /\ asked * (100 - s.margin) \in Int
    BY <1>2, <1>3, <1>4
  <1> QED  BY <1>2, <1>3, <1>4, <1>5, <1>6

(* Of what a plan offers: it is whole, no less than the lowest price, what the rule and
   the roundings give or, clamped, the lowest price; and a rise it turned upward is
   one. *)
LEMMA OffersAreSound ==
    ASSUME NEW t \in Term, NEW b \in Baseline, NEW s \in Settings, NEW breach,
           Priced(t, b, s, breach).outcome = "priced"
    PROVE  LET r == Priced(t, b, s, breach)
           IN  /\ r.price \in Int /\ r.price >= Lowest(b, s)
               /\ ~CostMissing(b, s)
               /\ r.compareAt = CompareAt(t, b, r.price)
               /\ Reduces(t) => r.price <= b.price
               /\ Raises(t) => r.price >= b.price
  <1> DEFINE raw     == Unrounded(t, b)
             profile == ProfileFor(t.rounding, s.unit)
             nearest == Rounded(raw, profile, "nearest")
             ending  == Ending(t, b, raw, profile, nearest)
             floor   == Lowest(b, s)
             stuck   == TurnsDown(t, b, nearest) /\ (ending >= b.price \/ ending <= 0)
             r       == Priced(t, b, s, breach)
  <1>1. /\ b.price \in Nat /\ floor \in Int
        /\ t.rounding \in Roundings /\ s.unit \in Unit
    BY LowestMeetsAll DEF Baseline, Term, Settings
  <1>2. \A outcome \in {"blocked", "skipped"} : Left(outcome).outcome # "priced"
    BY DEF Left
  <1>3. /\ ~CostMissing(b, s) /\ Applicable(t, b) /\ ~stuck
        /\ \/ ending >= floor /\ r = Offer(t, b, ending, raw, FALSE)
           \/ ~(ending >= floor) /\ ~(Reduces(t) /\ floor > b.price) /\ r = Offer(t, b, floor, raw, TRUE)
    BY <1>2, Zenon DEF Priced
  <1>4. raw \in Int /\ (Raises(t) => raw >= b.price)
    BY <1>3, UnroundedIsWhole
  <1>5. IsProfile(profile)
    BY <1>1, ProfilesAreProfiles
  <1>6. \A d \in {"up", "down", "nearest"} :
            Rounded(raw, profile, d) \in Int /\ (d = "up" => Rounded(raw, profile, d) >= raw)
    BY <1>4, <1>5, RoundedIsWhole
  <1> HIDE DEF raw, profile
  <1>7. /\ ending \in Int
        /\ Reduces(t) /\ ~stuck => ending <= b.price
        /\ Raises(t) => ending >= b.price
    <2> DEFINE up == Rounded(raw, profile, "up")
               down == Rounded(raw, profile, "down")
    <2>1. up \in Int /\ up >= raw /\ down \in Int /\ nearest \in Int
      BY <1>6
    <2>2. ~(Reduces(t) /\ Raises(t))
      BY DEF Reduces, Raises, Term
    <2>3. ending = IF TurnsDown(t, b, nearest) THEN down
                   ELSE IF TurnsUp(t, b, nearest) THEN up ELSE nearest
      BY DEF Ending
    <2> HIDE DEF nearest, ending, up, down
    <2> QED  BY <1>1, <1>4, <2>1, <2>2, <2>3 DEF TurnsDown, TurnsUp
  <1> HIDE DEF nearest, ending, floor, stuck, r
  <1>8. \A price, flag : /\ Offer(t, b, price, raw, flag).price = price
                         /\ Offer(t, b, price, raw, flag).compareAt = CompareAt(t, b, price)
    BY DEF Offer
  <1>9. CASE ending >= floor /\ r = Offer(t, b, ending, raw, FALSE)
    <2>1. r.price = ending /\ r.compareAt = CompareAt(t, b, ending)
      BY <1>8, <1>9
    <2> QED  BY <1>1, <1>3, <1>7, <1>9, <2>1 DEF r, floor
  <1>10. CASE ~(ending >= floor) /\ ~(Reduces(t) /\ floor > b.price) /\ r = Offer(t, b, floor, raw, TRUE)
    <2>1. r.price = floor /\ r.compareAt = CompareAt(t, b, floor)
      BY <1>8, <1>10
    <2>2. floor > ending
      BY <1>1, <1>7, <1>10
    <2>3. Reduces(t) => floor <= b.price
      BY <1>1, <1>10
    <2>4. Raises(t) => floor >= b.price
      BY <1>1, <1>7, <2>2
    <2> QED  BY <1>1, <1>3, <2>1, <2>3, <2>4 DEF r, floor
  <1> QED  BY <1>3, <1>9, <1>10

(* A compare-at that is written is above the price. *)
LEMMA CompareAtSaves ==
    ASSUME NEW t \in Term, NEW b \in Baseline, NEW price \in Int,
           CompareAt(t, b, price) \notin {None, Leave}
    PROVE  CompareAt(t, b, price) > price
  <1>1. b.price \in Int /\ t.strike \in Int /\ t.compareAt \in {"baseline", "import", "leave", "clear"}
    BY DEF Baseline, Term, Optional, None
  <1>2. Candidate(t, b) \in {b.price, t.strike, Leave, None}
    BY <1>1 DEF Candidate
  <1>3. Candidate(t, b) \in Int
    BY <1>1, <1>2 DEF None, Leave
  <1> QED  BY <1>3 DEF CompareAt

(* A compare-at is an amount, none, or one that is not written. *)
LEMMA CompareAtIsTyped ==
    ASSUME NEW t \in Term, NEW b \in Baseline, NEW price
    PROVE  CompareAt(t, b, price) \in Optional \cup {Leave}
  <1>1. b.price \in Nat /\ t.strike \in Optional /\ t.compareAt \in {"baseline", "import", "leave", "clear"}
    BY DEF Baseline, Term
  <1>2. Candidate(t, b) \in {b.price, t.strike, Leave, None}
    BY <1>1 DEF Candidate
  <1> QED  BY <1>1, <1>2 DEF CompareAt, Optional

----------------------------------------------------------------------------
(* Which price a rounding makes of an amount. *)

(* Nothing one step away from c is nearer to a, the upper of two, but what is negative or
   not where the campaign goes: below p, or from p up. *)
Settled(c, a, apart, goes, p) ==
    /\ Size(c - a) < apart
    /\ \A x \in {c - apart, c + apart} :
          Size(x - a) < Size(c - a) \/ (Size(x - a) = Size(c - a) /\ x > c)
            => x < 0 \/ (goes = "down" /\ x >= p) \/ (goes = "up" /\ x < p)

(* Which way an amount is rounded: the nearest, unless that is the wrong side of p. *)
Way(nearest, goes, p) ==
    IF goes = "down" /\ nearest >= p THEN "down"
    ELSE IF goes = "up" /\ nearest < p THEN "up" ELSE "nearest"

(* The multiples about an amount, and which of them a rounding is. *)
LEMMA StepsAbout ==
    ASSUME NEW a \in Int, NEW s \in {10, 100}
    PROVE  LET lower == (a \div s) * s
               nearest == RoundStep(a, s, "nearest")
               above == RoundStep(a, s, "up")
           IN  /\ lower \in Int /\ lower <= a /\ a < lower + s
               /\ lower % s = 0 /\ (lower + s) % s = 0
               /\ RoundStep(a, s, "down") = lower
               /\ above = IF lower = a THEN a ELSE lower + s
               /\ \/ nearest = lower /\ (a - lower < lower + s - a \/ (a - lower = lower + s - a /\ a < 0))
                  \/ nearest = lower + s /\ a - lower >= lower + s - a
  <1> DEFINE q == a \div s
             m == (-a) \div s
  <1>1. q \in Int /\ m \in Int /\ s * q <= a /\ a < s * q + s /\ s * m <= -a /\ -a < s * m + s
    BY Division
  <1>2. q * s = s * q /\ (-m) * s = -(s * m)
    BY <1>1
  <1>3. (q * s) % s = 0 /\ (q * s + s) % s = 0
    BY <1>1
  <1>4. s * q = a => s * m = -a
    BY <1>1
  <1>5. s * q # a => s * m = -(s * q) - s
    BY <1>1
  <1>6. RoundStep(a, s, "up") = (-m) * s /\ RoundStep(a, s, "down") = q * s
    BY DEF RoundStep, Ceiling
  <1>7. RoundStep(a, s, "nearest") =
          IF a - q * s < q * s + s - a \/ (a - q * s = q * s + s - a /\ a < 0) THEN q * s ELSE q * s + s
    BY DEF RoundStep
  <1>8. RoundStep(a, s, "up") = IF q * s = a THEN a ELSE q * s + s
    <2>1. CASE s * q = a
      BY <1>1, <1>2, <1>4, <1>6, <2>1
    <2>2. CASE s * q # a
      BY <1>1, <1>2, <1>5, <1>6, <2>2
    <2> QED  BY <1>2, <2>1, <2>2
  <1> DEFINE lower == q * s
  <1>9. lower \in Int /\ lower <= a /\ a < lower + s /\ s \in Int
    BY <1>1, <1>2
  <1> HIDE DEF lower
  <1>10. \/ RoundStep(a, s, "nearest") = lower /\ (a - lower < lower + s - a \/ (a - lower = lower + s - a /\ a < 0))
         \/ RoundStep(a, s, "nearest") = lower + s /\ a - lower >= lower + s - a
    BY <1>7, <1>9 DEF lower
  <1> QED  BY <1>3, <1>6, <1>8, <1>9, <1>10 DEF lower

(* When a price is settled: the one below it is no nearer, nor the one above, but for those
   it may not be. *)
LEMMA SettledIs ==
    ASSUME NEW c \in Int, NEW a \in Int, NEW apart \in Int, NEW goes, NEW p \in Int,
           apart > 0, c - a < apart, a - c < apart,
           2 * (c - a) >= apart => c - apart < 0 \/ (goes = "down" /\ c - apart >= p) \/ (goes = "up" /\ c - apart < p)
                                   \/ 2 * (c - a) = apart,
           2 * (a - c) >= apart => c + apart < 0 \/ (goes = "down" /\ c + apart >= p) \/ (goes = "up" /\ c + apart < p)
    PROVE  Settled(c, a, apart, goes, p)
  <1>1. Size(c - a) < apart
    BY DEF Size
  <1>2. \/ c >= a /\ Size(c - a) = c - a
        \/ c <= a /\ Size(c - a) = a - c
    BY DEF Size
  <1>3. Size(c + apart - a) = c + apart - a /\ Size(c - apart - a) = a - c + apart
    BY DEF Size
  <1> QED  BY <1>1, <1>2, <1>3 DEF Settled

(* Of the multiples of ten or a hundred, *)
LEMMA StepsSettle ==
    ASSUME NEW a \in Int, NEW s \in {10, 100}, NEW p \in Int, NEW goes, NEW c,
           c = RoundStep(a, s, Way(RoundStep(a, s, "nearest"), goes, p)),
           c >= 1, goes = "up" => a >= p, goes = "down" /\ RoundStep(a, s, "nearest") >= p => c < p
    PROVE  c % s = 0 /\ Settled(c, a, s, goes, p)
  <1> DEFINE n     == RoundStep(a, s, "nearest")
             above == RoundStep(a, s, "up")
             lower == (a \div s) * s
  <1>1. /\ lower \in Int /\ lower <= a /\ a < lower + s /\ s \in Int /\ s > 0
        /\ lower % s = 0 /\ (lower + s) % s = 0
        /\ RoundStep(a, s, "down") = lower
        /\ above = IF lower = a THEN a ELSE lower + s
        /\ \/ n = lower /\ (a - lower < lower + s - a \/ (a - lower = lower + s - a /\ a < 0))
           \/ n = lower + s /\ a - lower >= lower + s - a
    BY StepsAbout
  <1>2. c = IF goes = "down" /\ n >= p THEN lower ELSE IF goes = "up" /\ n < p THEN above ELSE n
    BY <1>1 DEF Way
  <1> HIDE DEF n, above, lower
  <1>3. c \in {lower, lower + s} /\ c \in Int /\ c - a < s /\ a - c < s
    BY <1>1, <1>2
  <1>4. c % s = 0
    BY <1>1, <1>3
  <1> DEFINE Below == 2 * (c - a) >= s => c - s < 0 \/ (goes = "down" /\ c - s >= p) \/ (goes = "up" /\ c - s < p) \/ 2 * (c - a) = s
             Above == 2 * (a - c) >= s => c + s < 0 \/ (goes = "down" /\ c + s >= p) \/ (goes = "up" /\ c + s < p)
  <1>5. Below /\ Above
    <2>1. CASE goes = "down" /\ n >= p
      <3>1. c = lower /\ c < p /\ n = c + s
        BY <1>1, <1>2, <2>1 DEF n
      <3> QED  BY <1>1, <2>1, <3>1
    <2>2. CASE ~(goes = "down" /\ n >= p) /\ goes = "up" /\ n < p
      <3>1. c = lower + s /\ n = lower
        BY <1>1, <1>2, <2>2
      <3> QED  BY <1>1, <2>2, <3>1
    <2>3. CASE ~(goes = "down" /\ n >= p) /\ ~(goes = "up" /\ n < p)
      <3>1. c = n
        BY <1>2, <2>3
      <3> QED  BY <1>1, <3>1
    <2> QED  BY <2>1, <2>2, <2>3
  <1> QED  BY <1>1, <1>3, <1>4, <1>5, SettledIs

(* and of the endings. *)
LEMMA EndingsSettle ==
    ASSUME NEW a \in Int, NEW u \in {100, 1000}, NEW e \in Nat, e < u, NEW p \in Int, NEW goes, NEW c,
           c = RoundCharm(a, e, u, Way(RoundCharm(a, e, u, "nearest"), goes, p)),
           c >= 1, goes = "up" => a >= p, goes = "down" /\ RoundCharm(a, e, u, "nearest") >= p => c < p
    PROVE  c % u = e /\ Settled(c, a, u, goes, p)
  <1> DEFINE y     == Middle(a, e, u)
             all   == Ends(a, e, u)
             above == RoundCharm(a, e, u, "up")
             below == RoundCharm(a, e, u, "down")
             n     == RoundCharm(a, e, u, "nearest")
  <1>0. u \in Int /\ u > 0 /\ u \in Nat \ {0}
    OBVIOUS
  <1>1. /\ y \in all /\ y \in Int /\ y - u < a /\ a < y + u
        /\ above \in all /\ above >= a /\ \A f \in all : f >= a => f >= above
        /\ \/ below \in all /\ below <= a /\ \A f \in all : f <= a => f <= below
           \/ below = 0 /\ \A f \in all : f > a
        /\ n \in all
        /\ \A f \in all : /\ Size(a - n) <= Size(a - f)
                          /\ Size(a - n) = Size(a - f) => n >= f
    <2>1. EndsAbout(a, e, u, above, below, n)
      BY <1>0, EndingsAbout
    <2> HIDE DEF above, below, n
    <2> QED  BY <2>1 DEF EndsAbout
  <1>2. c = IF goes = "down" /\ n >= p THEN below ELSE IF goes = "up" /\ n < p THEN above ELSE n
    BY DEF Way
  <1>3. goes = "down" /\ n >= p => c < p
    OBVIOUS
  <1>4. \A k \in Int : (k * u + e) % u = e
    OBVIOUS
  <1>5. (y - u) % u = e /\ y % u = e /\ (y + u) % u = e
    <2> DEFINE k == a \div u
    <2>1. k \in Int
      BY <1>0, Division
    <2>2. y - u = (k - 1) * u + e /\ y = k * u + e /\ y + u = (k + 1) * u + e
      BY <2>1 DEF Middle
    <2> HIDE DEF k, y
    <2> QED  BY <1>4, <2>1, <2>2
  <1>6. \A f \in {y - u, y, y + u} : f \in all <=> a < 0 \/ f >= 0
    BY DEF Ends
  <1>7. all \subseteq {y - u, y, y + u}
    BY DEF Ends
  <1> HIDE DEF above, below, n, all, y
  <1>8. c \in all /\ c \in {y - u, y, y + u} /\ c \in Int /\ n \in Int /\ n \in {y - u, y, y + u} /\ c % u = e
    <2>1. c \in all
      <3>1. CASE c = below
        <4>1. c # 0
          OBVIOUS
        <4> QED  BY <1>1, <3>1, <4>1
      <3>2. CASE c \in {above, n}
        BY <1>1, <3>2
      <3> QED  BY <1>2, <3>1, <3>2
    <2>2. c \in {y - u, y, y + u} /\ n \in {y - u, y, y + u}
      BY <1>1, <1>7, <2>1
    <2> QED  BY <1>0, <1>1, <1>5, <2>1, <2>2
  <1>9. \A f \in Int : Size(a - f) = IF f > a THEN f - a ELSE a - f
    BY DEF Size
  <1>10. c - a < u /\ a - c < u
    BY <1>0, <1>1, <1>2, <1>7, <1>8, <1>9
  <1> DEFINE Below == 2 * (c - a) >= u => c - u < 0 \/ (goes = "down" /\ c - u >= p) \/ (goes = "up" /\ c - u < p) \/ 2 * (c - a) = u
             Above == 2 * (a - c) >= u => c + u < 0 \/ (goes = "down" /\ c + u >= p) \/ (goes = "up" /\ c + u < p)
  <1>11. \A f \in {c - u, c + u} : f < 0 \/ f \in all \/ f < y - u \/ f > y + u
    BY <1>0, <1>1, <1>6, <1>8
  <1>12. Below /\ Above
    <2>1. CASE goes = "down" /\ n >= p
      <3>1. c = below /\ c < p /\ n > c
        BY <1>1, <1>2, <1>3, <1>8, <2>1
      <3>2. c <= a /\ \A f \in all : f <= a => f <= c
        BY <1>1, <1>8, <3>1
      <3>3. n > a /\ (y \in all => Size(a - n) <= Size(a - y))
        BY <1>1, <1>8, <3>1, <3>2
      <3>4. n = c + u
        BY <1>0, <1>1, <1>8, <1>9, <3>1, <3>2, <3>3
      <3> QED  BY <1>0, <1>8, <2>1, <3>2, <3>4
    <2>2. CASE ~(goes = "down" /\ n >= p) /\ goes = "up" /\ n < p
      <3>1. c = above /\ a >= p /\ c >= a /\ n < c
        BY <1>1, <1>2, <1>8, <2>2
      <3>2. n < a /\ Size(a - n) <= Size(a - y)
        BY <1>1, <1>8, <3>1
      <3>3. n = c - u
        BY <1>0, <1>1, <1>8, <1>9, <3>1, <3>2
      <3> QED  BY <1>0, <1>8, <2>2, <3>1, <3>3
    <2>3. CASE ~(goes = "down" /\ n >= p) /\ ~(goes = "up" /\ n < p)
      <3>1. c = n
        BY <1>2, <2>3
      <3>2. \A f \in {c - u, c + u} : f \in all => f \in Int /\ Size(a - c) <= Size(a - f) /\ (Size(a - c) = Size(a - f) => c >= f)
        BY <1>0, <1>1, <1>8, <3>1
      <3> QED  BY <1>0, <1>1, <1>8, <1>9, <1>11, <3>2
    <2> QED  BY <2>1, <2>2, <2>3
  <1> QED  BY <1>0, <1>8, <1>10, <1>12, SettledIs

(* Each rounding a campaign can have, in each currency. *)
LEMMA RoundingsSettle ==
    ASSUME NEW a \in Int, NEW name \in Roundings, NEW unit \in Unit, NEW p \in Int, NEW goes, NEW c,
           c = Rounded(a, ProfileFor(name, unit), Way(Rounded(a, ProfileFor(name, unit), "nearest"), goes, p)),
           c >= 1, goes = "up" => a >= p,
           goes = "down" /\ Rounded(a, ProfileFor(name, unit), "nearest") >= p => c < p
    PROVE  EndsAs(c, name, unit) /\ Settled(c, a, Apart(name, unit), goes, p)
  <1>1. \A d : /\ Rounded(a, Step(1), d) = a
               /\ Rounded(a, Step(10), d) = RoundStep(a, 10, d)
               /\ Rounded(a, Step(100), d) = RoundStep(a, 100, d)
               /\ \A e, u : Rounded(a, Charm(e, u), d) = RoundCharm(a, (e * u) \div 100, u, d)
    BY DEF Rounded, Step, Charm
  <1>2. unit \in {1, 100, 1000} /\ name \in {"none", "charm99", "charm95", "whole", "nearest10", "nearest100"}
    BY DEF Unit, Roundings
  <1>3. CASE name = "none" \/ (name = "whole" /\ unit = 1)
    <2>1. ProfileFor(name, unit) = Step(1) /\ Apart(name, unit) = 1
      BY <1>2, <1>3 DEF ProfileFor, Apart
    <2>2. c = a
      BY <1>1, <2>1
    <2>3. Settled(c, a, 1, goes, p)
      BY <2>2 DEF Settled, Size
    <2>4. EndsAs(c, name, unit)
      BY <1>3, <2>1, <2>2 DEF EndsAs
    <2> QED  BY <2>1, <2>3, <2>4
  <1>4. CASE name = "nearest10" \/ (name \in {"charm99", "charm95"} /\ unit = 1)
    <2>1. ProfileFor(name, unit) = Step(10) /\ Apart(name, unit) = 10
      BY <1>2, <1>4 DEF ProfileFor, Apart
    <2>2. c % 10 = 0 /\ Settled(c, a, 10, goes, p)
      BY <1>1, <2>1, StepsSettle
    <2>3. EndsAs(c, name, unit)
      BY <1>4, <2>1, <2>2 DEF EndsAs
    <2> QED  BY <2>1, <2>2, <2>3
  <1>5. CASE name = "nearest100"
    <2>1. ProfileFor(name, unit) = Step(100) /\ Apart(name, unit) = 100
      BY <1>2, <1>5 DEF ProfileFor, Apart
    <2>2. c % 100 = 0 /\ Settled(c, a, 100, goes, p)
      BY <1>1, <2>1, StepsSettle
    <2>3. EndsAs(c, name, unit)
      BY <1>5, <2>1, <2>2 DEF EndsAs
    <2> QED  BY <2>1, <2>2, <2>3
  <1>6. CASE name \in {"charm99", "charm95", "whole"} /\ unit > 1
    <2> DEFINE share == IF name = "charm99" THEN 99 ELSE IF name = "charm95" THEN 95 ELSE 0
               e == (share * unit) \div 100
    <2>1. ProfileFor(name, unit) = Charm(share, unit) /\ Apart(name, unit) = unit /\ unit \in {100, 1000}
      BY <1>2, <1>6 DEF ProfileFor, Apart
    <2>2. e \in Nat /\ e < unit /\ 100 * e = share * unit
      BY <1>6, <2>1
    <2> HIDE DEF e, share
    <2>3. \A d : Rounded(a, ProfileFor(name, unit), d) = RoundCharm(a, e, unit, d)
      <3>1. \A d : Rounded(a, Charm(share, unit), d) = RoundCharm(a, (share * unit) \div 100, unit, d)
        BY <1>1, Zenon
      <3> QED  BY <2>1, <3>1, Zenon DEF e
    <2>4. c % unit = e /\ Settled(c, a, unit, goes, p)
      BY <2>1, <2>2, <2>3, EndingsSettle
    <2>5. EndsAs(c, name, unit)
      BY <1>6, <2>1, <2>2, <2>4 DEF EndsAs, share
    <2> QED  BY <2>1, <2>4, <2>5
  <1> QED  BY <1>2, <1>3, <1>4, <1>5, <1>6

(* A price that is offered and not clamped is the rule's amount, rounded the way the rule goes. *)
LEMMA OffersAreRounded ==
    ASSUME NEW t \in Term, NEW b \in Baseline, NEW s \in Settings, NEW breach,
           Priced(t, b, s, breach).outcome = "priced", ~Priced(t, b, s, breach).clamped
    PROVE  LET r       == Priced(t, b, s, breach)
               profile == ProfileFor(t.rounding, s.unit)
               nearest == Rounded(r.raw, profile, "nearest")
               goes    == IF Reduces(t) THEN "down" ELSE IF Raises(t) THEN "up" ELSE "any"
           IN  /\ r.raw \in Int /\ b.price \in Int
               /\ r.price = Rounded(r.raw, profile, Way(nearest, goes, b.price))
               /\ r.price >= 1
               /\ goes = "up" => r.raw >= b.price
               /\ goes = "down" /\ nearest >= b.price => r.price < b.price
  <1> DEFINE raw     == Unrounded(t, b)
             profile == ProfileFor(t.rounding, s.unit)
             nearest == Rounded(raw, profile, "nearest")
             ending  == Ending(t, b, raw, profile, nearest)
             floor   == Lowest(b, s)
             stuck   == TurnsDown(t, b, nearest) /\ (ending >= b.price \/ ending <= 0)
             r       == Priced(t, b, s, breach)
             goes    == IF Reduces(t) THEN "down" ELSE IF Raises(t) THEN "up" ELSE "any"
  <1>1. b.price \in Int /\ floor \in Int /\ floor >= 1
    <2>1. s.min \in Int
      BY DEF Settings, Optional, None
    <2>2. Larger(1, s.min) >= 1
      BY <2>1 DEF Larger
    <2> QED  BY <2>1, <2>2, LowestMeetsAll DEF Baseline, Larger
  <1>2. \A outcome \in {"blocked", "skipped"} : Left(outcome).outcome # "priced"
    BY DEF Left
  <1>3. Offer(t, b, floor, raw, TRUE).clamped
    BY DEF Offer
  <1>4. Applicable(t, b) /\ ~stuck /\ ending >= floor /\ r = Offer(t, b, ending, raw, FALSE)
    BY <1>2, <1>3, Zenon DEF Priced
  <1>5. raw \in Int /\ (Raises(t) => raw >= b.price)
    BY <1>4, UnroundedIsWhole
  <1>6. r.price = ending /\ r.raw = raw
    BY <1>4 DEF Offer
  <1>7. IsProfile(profile)
    BY ProfilesAreProfiles DEF Term, Settings
  <1> HIDE DEF raw, profile
  <1>8. nearest \in Int /\ Rounded(raw, profile, "down") \in Int /\ Rounded(raw, profile, "up") \in Int
    BY <1>5, <1>7, RoundedIsWhole
  <1>9. ending = Rounded(raw, profile, Way(nearest, goes, b.price)) /\ ending \in Int
    <2>1. ~(Reduces(t) /\ Raises(t))
      BY DEF Reduces, Raises, Term
    <2> HIDE DEF nearest
    <2>2. ending = IF TurnsDown(t, b, nearest) THEN Rounded(raw, profile, "down")
                   ELSE IF TurnsUp(t, b, nearest) THEN Rounded(raw, profile, "up") ELSE nearest
      BY DEF Ending
    <2>3. CASE TurnsDown(t, b, nearest)
      <3>1. Way(nearest, goes, b.price) = "down"
        BY <2>3 DEF TurnsDown, Way
      <3> QED  BY <1>8, <2>2, <2>3, <3>1
    <2>4. CASE ~TurnsDown(t, b, nearest) /\ TurnsUp(t, b, nearest)
      <3>1. Way(nearest, goes, b.price) = "up"
        BY <2>1, <2>4 DEF TurnsUp, Way
      <3> QED  BY <1>8, <2>2, <2>4, <3>1
    <2>5. CASE ~TurnsDown(t, b, nearest) /\ ~TurnsUp(t, b, nearest)
      <3>1. Way(nearest, goes, b.price) = "nearest"
        BY <2>1, <2>5 DEF TurnsDown, TurnsUp, Way
      <3> QED  BY <1>8, <2>2, <2>5, <3>1 DEF nearest
    <2> QED  BY <2>3, <2>4, <2>5
  <1>10. goes = "down" /\ nearest >= b.price => ending < b.price
    <2>1. goes = "down" => Reduces(t)
      OBVIOUS
    <2> HIDE DEF nearest, ending, goes
    <2> QED  BY <1>1, <1>4, <1>9, <2>1 DEF TurnsDown
  <1>11. goes = "up" => Raises(t)
    OBVIOUS
  <1> HIDE DEF nearest, ending, goes, floor, stuck, r
  <1>12. ending >= 1
    BY <1>1, <1>4, <1>9
  <1> QED  BY <1>1, <1>5, <1>6, <1>9, <1>10, <1>11, <1>12 DEF nearest, profile, r, goes

----------------------------------------------------------------------------
(* Who wins, and what a variant is given. *)

LEMMA WinnerIsOne ==
    ASSUME NEW C \in SUBSET Campaigns, C # {}
    PROVE  Winner(C) \in C
  BY RankAssumption DEF Winner

(* Resolution, as a function of all it reads. *)
Made(C, kept, given, b, s) ==
    IF C = {} THEN AtBaseline(b) ELSE Priced(given[Winner(C)], b, s, kept[Winner(C)])

LEMMA ResolutionIsMade ==
    ASSUME NEW v, NEW C, NEW kept
    PROVE  Resolution(v, C, kept) = Made(C, kept, terms, base[v], store)
  BY DEF Resolution, Made

LEMMA MadeIsTyped ==
    ASSUME NEW C \in SUBSET Campaigns, NEW kept, NEW given \in [Campaigns -> Term],
           NEW b \in Baseline, NEW s \in Settings
    PROVE  LET r == Made(C, kept, given, b, s)
           IN  r.outcome \in {"priced", "baseline"} =>
                   r.price \in Nat /\ r.compareAt \in Optional \cup {Leave}
  <1>1. b.price \in Nat /\ b.compareAt \in Optional
    BY DEF Baseline
  <1>2. CASE C = {}
    BY <1>1, <1>2 DEF Made, AtBaseline
  <1>3. CASE C # {}
    <2> DEFINE t == given[Winner(C)]
               breach == kept[Winner(C)]
               r == Priced(t, b, s, breach)
    <2>1. t \in Term /\ Made(C, kept, given, b, s) = r
      BY <1>3, WinnerIsOne DEF Made
    <2> HIDE DEF t, breach
    <2>2. r.outcome # "baseline"
      BY Zenon DEF Priced, Left, Offer
    <2>3. ASSUME r.outcome = "priced"  PROVE r.price \in Nat /\ r.compareAt \in Optional \cup {Leave}
      <3>1. r.price \in Int /\ r.price >= Lowest(b, s) /\ r.compareAt = CompareAt(t, b, r.price)
        BY <2>1, <2>3, OffersAreSound
      <3>2. Lowest(b, s) \in Int /\ Lowest(b, s) >= 1
        <4>1. s.min \in Int
          BY DEF Settings, Optional, None
        <4> QED  BY <4>1, LowestMeetsAll DEF Larger
      <3>3. r.price \in Nat
        BY <3>1, <3>2
      <3> QED  BY <2>1, <3>1, <3>3, CompareAtIsTyped
    <2> HIDE DEF r
    <2> QED  BY <2>1, <2>2, <2>3
  <1> QED  BY <1>2, <1>3

----------------------------------------------------------------------------
(* Types. *)

(* What a run writes of a plan is typed, whoever it prices for. *)
LEMMA WritesAreTyped ==
    ASSUME TypeOK, NEW S \in SUBSET Variants, NEW C \in SUBSET Campaigns, NEW without, NEW kept,
           Write(Plan(S, C, without, kept))
    PROVE  live' \in [Variants -> [price: Nat, compareAt: Optional]] /\ stale' \in SUBSET Variants
  <1> DEFINE plan == Plan(S, C, without, kept)
  <1>1. DOMAIN plan = S
    BY DEF Plan
  <1>2. ASSUME NEW v \in Variants
        PROVE  (IF v \in S THEN Written(live[v], plan[v]) ELSE live[v]) \in [price: Nat, compareAt: Optional]
    <2> DEFINE r == Resolution(v, Covering(v, C, without), kept)
    <2>1. live[v] \in [price: Nat, compareAt: Optional] /\ base[v] \in Baseline
          /\ terms \in [Campaigns -> Term] /\ store \in Settings
      BY DEF TypeOK
    <2>2. v \in S => plan[v] = r
      BY DEF Plan
    <2>3. Covering(v, C, without) \in SUBSET Campaigns
      BY DEF Covering
    <2>4. r.outcome \in {"priced", "baseline"} => r.price \in Nat /\ r.compareAt \in Optional \cup {Leave}
      BY <2>1, <2>3, ResolutionIsMade, MadeIsTyped
    <2> HIDE DEF r, plan
    <2>5. Written(live[v], r) \in [price: Nat, compareAt: Optional]
      BY <2>1, <2>4 DEF Written
    <2> QED  BY <2>1, <2>2, <2>5
  <1>3. live' = [v \in Variants |-> IF v \in S THEN Written(live[v], plan[v]) ELSE live[v]]
    BY <1>1 DEF Write
  <1>4. stale' \in SUBSET Variants
    BY DEF Write, TypeOK
  <1> HIDE DEF plan
  <1> QED  BY <1>2, <1>3, <1>4

LEMMA WritesUnlessBlockedAreTyped ==
    ASSUME TypeOK, NEW S \in SUBSET Variants, NEW C \in SUBSET Campaigns, NEW without, NEW kept,
           WriteUnlessBlocked(Plan(S, C, without, kept))
    PROVE  live' \in [Variants -> [price: Nat, compareAt: Optional]] /\ stale' \in SUBSET Variants
  <1>1. CASE Blocked(Plan(S, C, without, kept))
    <2>1. DOMAIN Plan(S, C, without, kept) = S
      BY DEF Plan
    <2> QED  BY <1>1, <2>1 DEF WriteUnlessBlocked, TypeOK
  <1>2. CASE ~Blocked(Plan(S, C, without, kept))
    BY <1>2, WritesAreTyped DEF WriteUnlessBlocked
  <1> QED  BY <1>1, <1>2

LEMMA KeptIsAPolicy ==
    ASSUME TypeOK, NEW c \in Campaigns
    PROVE  Keeps(c) \in Policies /\ (c \in Running => Keeps(c) = policy[c])
  BY DEF Keeps, Running, TypeOK, Settings

(* Every variable has its type (LivePrices is about every campaign, term and setting
   the program can store). *)
THEOREM TypeCorrect == Spec => []TypeOK
  <1>1. Init => TypeOK
    BY InputsAssumption DEF Init, TypeOK, Baseline, Policies, Ended, NoHand
  <1>2. TypeOK /\ [Next]_vars => TypeOK'
    <2> SUFFICES ASSUME TypeOK, [Next]_vars  PROVE TypeOK'
      OBVIOUS
    <2>1. ASSUME NEW c \in Campaigns, Apply(c)  PROVE TypeOK'
      <3>1. Running \cup {c} \in SUBSET Campaigns
        BY DEF Running
      <3>2. live' \in [Variants -> [price: Nat, compareAt: Optional]] /\ stale' \in SUBSET Variants
        BY <2>1, <3>1, WritesAreTyped DEF Apply
      <3>3. policy' \in [Campaigns -> Policies \cup {Ended}]
        BY <2>1, KeptIsAPolicy DEF Apply, TypeOK
      <3>4. landed' \in [Campaigns -> SUBSET Variants]
        <4> DEFINE rows == Rows(Plan(Variants, Running \cup {c}, excluded, [policy EXCEPT ![c] = Keeps(c)]))
        <4>1. rows \subseteq Variants
          BY DEF Rows, Plan
        <4>2. landed' = [landed EXCEPT ![c] = @ \cup rows]
          BY <2>1 DEF Apply
        <4> HIDE DEF rows
        <4> QED  BY <4>1, <4>2 DEF TypeOK
      <3> QED  BY <2>1, <3>2, <3>3, <3>4 DEF Apply, TypeOK
    <2>2. ASSUME NEW c \in Campaigns, Revert(c)  PROVE TypeOK'
      <3>1. Running \ {c} \in SUBSET Campaigns
        BY DEF Running
      <3>2. live' \in [Variants -> [price: Nat, compareAt: Optional]] /\ stale' \in SUBSET Variants
        BY <2>2, <3>1, WritesAreTyped DEF Revert
      <3> QED  BY <2>2, <3>2 DEF Revert, TypeOK
    <2>3. ASSUME NEW c \in Campaigns, NEW v \in Variants, RevertVariant(c, v)  PROVE TypeOK'
      <3>1. Running \in SUBSET Campaigns /\ {v} \in SUBSET Variants
        BY DEF Running
      <3>2. live' \in [Variants -> [price: Nat, compareAt: Optional]] /\ stale' \in SUBSET Variants
        BY <2>3, <3>1, WritesUnlessBlockedAreTyped DEF RevertVariant
      <3> QED  BY <2>3, <3>2 DEF RevertVariant, TypeOK
    <2>4. ASSUME NEW c \in Campaigns, NEW v \in Variants, ReadList(c, v)  PROVE TypeOK'
      BY <2>4 DEF ReadList, TypeOK
    <2>5. ASSUME ReinstateVariant  PROVE TypeOK'
      <3> DEFINE c == hand.campaign
                 v == hand.variant
                 without == [excluded EXCEPT ![c] = hand.list \ {v}]
                 kept == [policy EXCEPT ![c] = Keeps(c)]
                 rows == Rows(Plan({v}, Running \cup {c}, without, kept))
      <3>1. c \in Campaigns /\ v \in Variants /\ hand.list \subseteq Variants
        BY <2>5 DEF ReinstateVariant, TypeOK
      <3>2. Running \cup {c} \in SUBSET Campaigns /\ {v} \in SUBSET Variants
        BY <3>1 DEF Running
      <3>3. live' \in [Variants -> [price: Nat, compareAt: Optional]] /\ stale' \in SUBSET Variants
        BY <2>5, <3>2, WritesUnlessBlockedAreTyped DEF ReinstateVariant
      <3>4. rows \subseteq Variants
        BY <3>1 DEF Rows, Plan
      <3>5. landed' = landed \/ landed' = [landed EXCEPT ![c] = @ \cup rows]
        BY <2>5 DEF ReinstateVariant
      <3>6. excluded' = [excluded EXCEPT ![c] = hand.list \ {v}] /\ out' = [out EXCEPT ![c] = @ \ {v}]
            /\ hand' = NoHand /\ UNCHANGED <<terms, base, store, policy, changes>>
        BY <2>5 DEF ReinstateVariant
      <3> HIDE DEF c, v, without, kept, rows
      <3>7. landed' \in [Campaigns -> SUBSET Variants]
        BY <3>4, <3>5 DEF TypeOK
      <3> QED  BY <3>1, <3>3, <3>6, <3>7 DEF TypeOK
    <2>6. ASSUME NEW s \in Stores, SetStore(s)  PROVE TypeOK'
      BY <2>6, InputsAssumption DEF SetStore, Change, TypeOK
    <2>7. ASSUME NEW v \in Variants, NEW k \in Costs, Recost(v, k)  PROVE TypeOK'
      <3>1. base' \in [Variants -> Baseline]
        BY <2>7, InputsAssumption DEF Recost, TypeOK, Baseline
      <3> QED  BY <2>7, <3>1 DEF Recost, Change, TypeOK
    <2>8. ASSUME UNCHANGED vars  PROVE TypeOK'
      BY <2>8 DEF vars, TypeOK
    <2> QED  BY <2>1, <2>2, <2>3, <2>4, <2>5, <2>6, <2>7, <2>8 DEF Next
  <1> QED  BY <1>1, <1>2, PTL DEF Spec

----------------------------------------------------------------------------
(* What is planned. *)

(* Every price any campaign could be given, for any rule, rounding, baseline and
   settings, is one the guardrails allow, and a compare-at beside it shows a saving. *)
THEOREM PlansAreValidHolds == Spec => []PlansAreValid
  <1>1. TypeOK => PlansAreValid
    <2> SUFFICES ASSUME TypeOK, NEW c \in Campaigns, NEW v \in Variants
                 PROVE  Allowed(Priced(terms[c], base[v], store, "clamp"), base[v])
      BY DEF PlansAreValid
    <2> DEFINE t == terms[c]
               b == base[v]
               r == Priced(t, b, store, "clamp")
    <2>1. t \in Term /\ b \in Baseline /\ store \in Settings
      BY DEF TypeOK
    <2> HIDE DEF t, b
    <2>2. SUFFICES ASSUME r.outcome = "priced"  PROVE Allowed(r, b)
      BY DEF Allowed, t, b
    <2>3. /\ r.price \in Int /\ r.price >= Lowest(b, store) /\ ~CostMissing(b, store)
          /\ r.compareAt = CompareAt(t, b, r.price)
      BY <2>1, <2>2, OffersAreSound
    <2>4. /\ Lowest(b, store) \in Int
          /\ Lowest(b, store) >= Larger(1, store.min)
          /\ b.cost # None /\ store.belowCost => Lowest(b, store) >= b.cost
          /\ b.cost # None /\ store.margin # None =>
                Lowest(b, store) * (100 - store.margin) >= 100 * b.cost
      BY <2>1, LowestMeetsAll
    <2>5. /\ b.cost \in Int /\ store.min \in Int /\ store.margin \in Int /\ store.margin < 100
          /\ store.belowCost \in BOOLEAN
      BY <2>1 DEF Baseline, Settings, Optional, None
    <2> HIDE DEF r
    <2>6. r.compareAt \notin {None, Leave} => r.compareAt > r.price
      BY <2>1, <2>3, CompareAtSaves
    <2>7. (store.belowCost => b.cost # None) /\ (store.margin # None => b.cost # None)
      BY <2>3 DEF CostMissing
    <2>8. store.margin # None => 100 * (r.price - b.cost) >= store.margin * r.price
      <3>1. Lowest(b, store) * (100 - store.margin) <= r.price * (100 - store.margin)
        <4>1. 100 - store.margin \in Int /\ 100 - store.margin >= 0
          BY <2>5
        <4> QED  BY <2>3, <2>4, <4>1, TimesKeepsOrder
      <3>2. r.price * (100 - store.margin) = 100 * r.price - store.margin * r.price
        BY <2>3, <2>5
      <3>3. /\ Lowest(b, store) * (100 - store.margin) \in Int
            /\ store.margin * r.price \in Int /\ 100 * (r.price - b.cost) = 100 * r.price - 100 * b.cost
        BY <2>3, <2>4, <2>5
      <3> QED  BY <2>3, <2>4, <2>5, <2>7, <3>1, <3>2, <3>3
    <2>9. r.price >= Larger(1, store.min)
      BY <2>3, <2>4, <2>5 DEF Larger
    <2>10. store.belowCost => r.price >= b.cost
      BY <2>3, <2>4, <2>5, <2>7
    <2> QED  BY <2>3, <2>6, <2>8, <2>9, <2>10 DEF Allowed
  <1> QED  BY <1>1, TypeCorrect, PTL

(* No plan of a campaign that reduces raises a price, and none of one that raises
   lowers one. *)
THEOREM DirectionKeptHolds == Spec => []DirectionKept
  <1>1. TypeOK => DirectionKept
    <2> SUFFICES ASSUME TypeOK, NEW c \in Campaigns, NEW v \in Variants
                 PROVE  Kept(Priced(terms[c], base[v], store, "clamp"), terms[c], base[v])
      BY DEF DirectionKept
    <2>1. terms[c] \in Term /\ base[v] \in Baseline /\ store \in Settings
      BY DEF TypeOK
    <2> QED  BY <2>1, OffersAreSound DEF Kept
  <1> QED  BY <1>1, TypeCorrect, PTL

(* No floor below it, a price ends the way the campaign's rounding says and of such
   prices is the nearest to what the rule gave that keeps the rule's direction. *)
THEOREM EndingsKeptHolds == Spec => []EndingsKept
  <1>1. TypeOK => EndingsKept
    <2> SUFFICES ASSUME TypeOK, NEW c \in Campaigns, NEW v \in Variants
                 PROVE  Nearest(Priced(terms[c], base[v], store, "clamp"), terms[c], base[v], store.unit)
      BY DEF EndingsKept
    <2> DEFINE t    == terms[c]
               b    == base[v]
               r    == Priced(t, b, store, "clamp")
               goes == IF Reduces(t) THEN "down" ELSE IF Raises(t) THEN "up" ELSE "any"
               apart == Apart(t.rounding, store.unit)
    <2>1. t \in Term /\ b \in Baseline /\ store \in Settings /\ t.rounding \in Roundings /\ store.unit \in Unit
      BY DEF TypeOK, Term, Settings
    <2> HIDE DEF t, b
    <2>2. SUFFICES ASSUME r.outcome = "priced", ~r.clamped  PROVE Nearest(r, t, b, store.unit)
      BY DEF Nearest, t, b
    <2>3. LET profile == ProfileFor(t.rounding, store.unit)
              nearest == Rounded(r.raw, profile, "nearest")
          IN  /\ r.raw \in Int /\ b.price \in Int
              /\ r.price = Rounded(r.raw, profile, Way(nearest, goes, b.price))
              /\ r.price >= 1
              /\ goes = "up" => r.raw >= b.price
              /\ goes = "down" /\ nearest >= b.price => r.price < b.price
      BY <2>1, <2>2, OffersAreRounded
    <2> HIDE DEF r, goes
    <2>4. EndsAs(r.price, t.rounding, store.unit) /\ Settled(r.price, r.raw, apart, goes, b.price)
      BY <2>1, <2>3, RoundingsSettle
    <2>5. (goes = "down" => Reduces(t)) /\ (goes = "up" => Raises(t))
      BY DEF goes
    <2> HIDE DEF apart
    <2> QED  BY <2>4, <2>5 DEF Nearest, Settled, apart
  <1> QED  BY <1>1, TypeCorrect, PTL

----------------------------------------------------------------------------
(* What the storefront shows. *)

(* The list of who is let out is the merchant's last word, and one being changed is
   that of a campaign that runs. *)
Listed ==
    /\ out = excluded
    /\ hand # NoHand => hand.campaign \in Running /\ hand.list = excluded[hand.campaign]

(* A row that is written shows its resolution. *)
LEMMA WrittenIsShown ==
    ASSUME NEW shown, NEW r  PROVE Shows(Written(shown, r), r)
  BY DEF Shows, Written

(* The breach policy of the settings makes no difference to a resolution. *)
LEMMA BreachIsKept ==
    ASSUME NEW C, NEW kept, NEW given, NEW b, NEW s \in Settings, NEW r \in Settings, SameFloors(s, r)
    PROVE  Made(C, kept, given, b, s) = Made(C, kept, given, b, r)
  <1>1. /\ s.unit = r.unit /\ s.belowCost = r.belowCost /\ s.margin = r.margin
        /\ s.min = r.min /\ s.missing = r.missing
    BY DEF SameFloors, Settings
  <1>2. Lowest(b, s) = Lowest(b, r) /\ CostMissing(b, s) = CostMissing(b, r)
    BY <1>1, Zenon DEF Lowest, CostMissing
  <1>3. \A t, x : Priced(t, b, s, x) = Priced(t, b, r, x)
    BY <1>1, <1>2 DEF Priced
  <1> QED  BY <1>3, Zenon DEF Made

(* What is shown is resolved, in the terms of all it reads. *)
ShownAs(v, without, running, kept, given, b, s, shown) ==
    Shows(shown, Made(Covering(v, running, without), kept, given, b, s))

LEMMA ShownIsMade ==
    ShownIsResolved <=>
        \A v \in Variants \ stale : ShownAs(v, out, Running, policy, terms, base[v], store, live[v])
  BY ResolutionIsMade DEF ShownIsResolved, ShownAs

(* After a plan is written, what it planned is shown. *)
LEMMA PlanIsShown ==
    ASSUME NEW S \in SUBSET Variants, NEW running, NEW without, NEW kept, NEW v \in S,
           Write(Plan(S, running, without, kept))
    PROVE  ShownAs(v, without, running, kept, terms, base[v], store, live'[v])
  <1> DEFINE plan == Plan(S, running, without, kept)
             r == Resolution(v, Covering(v, running, without), kept)
  <1>1. DOMAIN plan = S /\ plan[v] = r
    BY DEF Plan
  <1>2. live'[v] = Written(live[v], r)
    BY <1>1 DEF Write
  <1> HIDE DEF plan
  <1> QED  BY <1>2, WrittenIsShown, ResolutionIsMade DEF ShownAs

(* What one variant is given does not depend on who else is let out, nor on the
   policies of campaigns that are not running. *)
LEMMA OthersAreUntouched ==
    ASSUME NEW v, NEW running \in SUBSET Campaigns, NEW without, NEW apart,
           \A c \in running : v \in without[c] <=> v \in apart[c],
           NEW kept, NEW other, \A c \in running : kept[c] = other[c],
           NEW given, NEW b, NEW s, NEW shown
    PROVE  ShownAs(v, without, running, kept, given, b, s, shown)
             <=> ShownAs(v, apart, running, other, given, b, s, shown)
  <1>1. Covering(v, running, without) = Covering(v, running, apart)
    BY DEF Covering
  <1> DEFINE C == Covering(v, running, apart)
  <1>2. C # {} => kept[Winner(C)] = other[Winner(C)]
    <2>1. C \in SUBSET running /\ C \in SUBSET Campaigns
      BY DEF Covering
    <2> HIDE DEF C
    <2> QED  BY <2>1, WinnerIsOne
  <1>3. Made(C, kept, given, b, s) = Made(C, other, given, b, s)
    BY <1>2 DEF Made
  <1> QED  BY <1>1, <1>3 DEF ShownAs

(* The storefront shows what the campaigns that run make of each variant, for any
   campaigns, rules, ranks, baselines and settings: as long as a campaign is not ended,
   nor another variant let out of it, in the middle of one being taken back. *)
THEOREM ShownIsResolvedHolds == ASSUME Weak = {}  PROVE Spec => []ShownIsResolved
  <1>1. Init => Listed /\ ShownIsResolved
    <2> SUFFICES ASSUME Init  PROVE Listed /\ ShownIsResolved
      OBVIOUS
    <2>1. Listed /\ Running = {}
      BY DEF Init, Listed, Running
    <2>2. ASSUME NEW v \in Variants  PROVE ShownAs(v, out, Running, policy, terms, base[v], store, live[v])
      <3>1. Covering(v, Running, out) = {}
        BY <2>1 DEF Covering
      <3>2. live[v].price = base[v].price /\ live[v].compareAt = base[v].compareAt
        BY DEF Init
      <3> QED  BY <3>1, <3>2 DEF ShownAs, Made, AtBaseline, Shows
    <2> QED  BY <2>1, <2>2, ShownIsMade
  <1>2. TypeOK /\ TypeOK' /\ Listed /\ ShownIsResolved /\ [Next]_vars => (Listed /\ ShownIsResolved)'
    <2> SUFFICES ASSUME TypeOK, TypeOK', Listed, ShownIsResolved, [Next]_vars
                 PROVE  Listed' /\ ShownIsResolved'
      OBVIOUS
    <2>a. \A v \in Variants \ stale :
              ShownAs(v, out, Running, policy, terms, base[v], store, live[v])
      BY ShownIsMade
    <2>b. ASSUME \A v \in Variants \ stale' :
                     ShownAs(v, out', Running', policy', terms', base'[v], store', live'[v])
          PROVE  ShownIsResolved'
      BY <2>b, Zenon DEF ShownIsResolved, ShownAs, Resolution, Made
    <2>0. /\ \A v \in Variants \ stale :
                ShownAs(v, out, Running, policy, terms, base[v], store, live[v])
          /\ (\A v \in Variants \ stale' :
                ShownAs(v, out', Running', policy', terms', base'[v], store', live'[v])) => ShownIsResolved'
      BY <2>a, <2>b
    <2>1. ASSUME NEW c \in Campaigns, Apply(c)  PROVE Listed' /\ ShownIsResolved'
      <3>1. Running' = Running \cup {c}
        <4>1. policy' = [policy EXCEPT ![c] = Keeps(c)] /\ Keeps(c) # Ended
          BY <2>1, KeptIsAPolicy DEF Apply, Policies, Ended
        <4> QED  BY <4>1 DEF Running, TypeOK
      <3>2. Listed'
        BY <2>1, <3>1 DEF Apply, Listed
      <3>3. ASSUME NEW v \in Variants
            PROVE  ShownAs(v, out', Running', policy', terms', base'[v], store', live'[v])
        <4>1. Write(Plan(Variants, Running', excluded, policy'))
          BY <2>1, <3>1 DEF Apply
        <4>2. ShownAs(v, excluded, Running', policy', terms, base[v], store, live'[v])
          BY <4>1, PlanIsShown
        <4> QED  BY <2>1, <4>2 DEF Apply, Listed
      <3> QED  BY <2>0, <3>2, <3>3
    <2>2. ASSUME NEW c \in Campaigns, Revert(c)  PROVE Listed' /\ ShownIsResolved'
      <3>1. Running' = Running \ {c} /\ Running' \in SUBSET Campaigns /\ \A d \in Running' : policy[d] = policy'[d]
        BY <2>2 DEF Revert, Running, TypeOK
      <3>2. Listed'
        BY <2>2, <3>1 DEF Revert, Listed, NoHand, ShownIsResolved
      <3>3. ASSUME NEW v \in Variants
            PROVE  ShownAs(v, out', Running', policy', terms', base'[v], store', live'[v])
        <4>1. Write(Plan(Variants, Running', excluded, policy))
          BY <2>2, <3>1 DEF Revert
        <4>2. ShownAs(v, excluded, Running', policy, terms, base[v], store, live'[v])
          BY <4>1, PlanIsShown
        <4>3. ShownAs(v, excluded, Running', policy', terms, base[v], store, live'[v])
          BY <3>1, <4>2, OthersAreUntouched
        <4> QED  BY <2>2, <4>3 DEF Revert, Listed
      <3> QED  BY <2>0, <3>2, <3>3
    <2>3. ASSUME NEW v \in Variants, NEW without \in [Campaigns -> SUBSET Variants],
                 \A c \in Campaigns, w \in Variants \ {v} : w \in without[c] <=> w \in out[c],
                 out' = without,
                 WriteUnlessBlocked(Plan({v}, Running, without, policy)),
                 UNCHANGED <<terms, base, store, policy>>
          PROVE  ShownIsResolved'
      <3> DEFINE plan == Plan({v}, Running, without, policy)
      <3>1. DOMAIN plan = {v} /\ Running' = Running /\ Running \in SUBSET Campaigns
        BY <2>3 DEF Plan, Running
      <3>2. /\ v \in stale' \/ Write(plan)
            /\ \A w \in Variants \ {v} : live'[w] = live[w] /\ (w \in stale <=> w \in stale')
        BY <2>3, <3>1 DEF WriteUnlessBlocked, Write
      <3>3. ASSUME NEW w \in Variants \ stale'
            PROVE  ShownAs(w, out', Running', policy', terms', base'[w], store', live'[w])
        <4>1. CASE w = v
          <5>1. Write(Plan({v}, Running, without, policy))
            BY <3>2, <3>3, <4>1
          <5>2. ShownAs(v, without, Running, policy, terms, base[v], store, live'[v])
            BY <5>1, PlanIsShown
          <5> QED  BY <2>3, <3>1, <4>1, <5>2
        <4>2. CASE w # v
          <5>1. ShownAs(w, out, Running, policy, terms, base[w], store, live[w])
            BY <2>0, <3>2, <3>3, <4>2
          <5>2. \A c \in Running : w \in out[c] <=> w \in without[c]
            BY <2>3, <3>1, <4>2
          <5>3. ShownAs(w, without, Running, policy, terms, base[w], store, live[w])
            BY <3>1, <5>1, <5>2, OthersAreUntouched
          <5> QED  BY <2>3, <3>1, <3>2, <4>2, <5>3
        <4> QED  BY <4>1, <4>2
      <3> QED  BY <2>0, <3>3
    <2>4. ASSUME NEW c \in Campaigns, NEW v \in Variants, RevertVariant(c, v)  PROVE Listed' /\ ShownIsResolved'
      <3> DEFINE without == [excluded EXCEPT ![c] = @ \cup {v}]
      <3>1. out' = without /\ excluded' = without
        BY <2>4 DEF RevertVariant, Listed
      <3>2. Listed'
        BY <2>4, <3>1 DEF RevertVariant, Listed, Running, TypeOK
      <3>3. /\ without \in [Campaigns -> SUBSET Variants]
            /\ \A d \in Campaigns, w \in Variants \ {v} : w \in without[d] <=> w \in out[d]
        BY DEF Listed, TypeOK
      <3>4. /\ WriteUnlessBlocked(Plan({v}, Running, without, policy))
            /\ UNCHANGED <<terms, base, store, policy>>
        BY <2>4 DEF RevertVariant
      <3> HIDE DEF without
      <3> QED  BY <2>3, <3>1, <3>2, <3>3, <3>4
    <2>5. ASSUME NEW c \in Campaigns, NEW v \in Variants, ReadList(c, v)  PROVE Listed' /\ ShownIsResolved'
      <3>1. Running' = Running
        BY <2>5 DEF ReadList, Running
      <3>2. Listed'
        BY <2>5, <3>1 DEF ReadList, Listed
      <3> QED  BY <2>0, <2>5, <3>1, <3>2 DEF ReadList
    <2>6. ASSUME ReinstateVariant  PROVE Listed' /\ ShownIsResolved'
      <3> DEFINE c == hand.campaign
                 v == hand.variant
                 without == [excluded EXCEPT ![c] = hand.list \ {v}]
                 kept == [policy EXCEPT ![c] = Keeps(c)]
      <3>1. /\ c \in Running /\ c \in Campaigns /\ v \in Variants /\ hand.list = excluded[c]
        BY <2>6 DEF ReinstateVariant, Listed, TypeOK
      <3>2. out' = without /\ excluded' = without /\ hand' = NoHand
        BY <2>6, <3>1 DEF ReinstateVariant, Listed
      <3>3. kept = policy /\ Running \cup {c} = Running
        BY <3>1, KeptIsAPolicy DEF TypeOK
      <3>4. WriteUnlessBlocked(Plan({v}, Running \cup {c}, without, kept))
            /\ UNCHANGED <<terms, base, store, policy>>
        BY <2>6 DEF ReinstateVariant
      <3>5. /\ without \in [Campaigns -> SUBSET Variants]
            /\ \A d \in Campaigns, w \in Variants \ {v} : w \in without[d] <=> w \in out[d]
        BY <3>1 DEF Listed, TypeOK
      <3>6. Listed'
        BY <3>2 DEF Listed
      <3> HIDE DEF c, v, without, kept
      <3>7. WriteUnlessBlocked(Plan({v}, Running, without, policy))
        BY <3>3, <3>4
      <3> QED  BY <2>3, <3>1, <3>2, <3>4, <3>5, <3>6, <3>7
    <2>7. ASSUME NEW s \in Stores, SetStore(s)  PROVE Listed' /\ ShownIsResolved'
      <3>1. Running' = Running
        BY <2>7 DEF SetStore, Running
      <3>2. Listed'
        BY <2>7, <3>1 DEF SetStore, Listed
      <3>3. ASSUME NEW v \in Variants \ stale'
            PROVE  ShownAs(v, out', Running', policy', terms', base'[v], store', live'[v])
        <4>1. SameFloors(store, s) /\ v \notin stale /\ store' = s
          BY <2>7, <3>3 DEF SetStore
        <4>2. store \in Settings /\ s \in Settings
          BY <2>7, InputsAssumption DEF TypeOK
        <4>3. ShownAs(v, out, Running, policy, terms, base[v], s, live[v])
          BY <2>0, <4>1, <4>2, BreachIsKept DEF ShownAs
        <4> QED  BY <2>7, <3>1, <4>1, <4>3 DEF SetStore
      <3> QED  BY <2>0, <3>2, <3>3
    <2>8. ASSUME NEW u \in Variants, NEW k \in Costs, Recost(u, k)  PROVE Listed' /\ ShownIsResolved'
      <3>1. Running' = Running
        BY <2>8 DEF Recost, Running
      <3>2. Listed'
        BY <2>8, <3>1 DEF Recost, Listed
      <3>3. ASSUME NEW v \in Variants \ stale'
            PROVE  ShownAs(v, out', Running', policy', terms', base'[v], store', live'[v])
        <4>1. v \notin stale /\ v # u
          BY <2>8, <3>3 DEF Recost
        <4>2. base'[v] = base[v]
          BY <2>8, <4>1 DEF Recost, TypeOK
        <4> QED  BY <2>0, <2>8, <3>1, <3>3, <4>1, <4>2 DEF Recost
      <3> QED  BY <2>0, <3>2, <3>3
    <2>9. ASSUME UNCHANGED vars  PROVE Listed' /\ ShownIsResolved'
      <3>1. Running' = Running
        BY <2>9 DEF vars, Running
      <3>2. Listed'
        BY <2>9, <3>1 DEF vars, Listed
      <3> QED  BY <2>0, <2>9, <3>1, <3>2 DEF vars
    <2> QED  BY <2>1, <2>2, <2>4, <2>5, <2>6, <2>7, <2>8, <2>9 DEF Next
  <1> QED  BY <1>1, <1>2, TypeCorrect, PTL DEF Spec
=============================================================================
