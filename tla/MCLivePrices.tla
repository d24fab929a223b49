--------------------------- MODULE MCLivePrices ---------------------------
(* LivePrices for TLC: amounts at which rounding, floors and directions meet. *)
EXTENDS LivePrices, TLC

CONSTANTS c1, c2, v1, v2

TwoCampaigns == {c1, c2}
TwoVariants  == {v1, v2}
MCRank       == (c1 :> 1) @@ (c2 :> 2)

T(kind, n, d, rounding, compareAt, strike) ==
    [kind |-> kind, n |-> n, d |-> d, rounding |-> rounding, compareAt |-> compareAt, strike |-> strike]

Pair(t, u) == (c1 :> t) @@ (c2 :> u)

MCGiven ==
    {Pair(T("percent", -5, 1, "charm99", "baseline", None), T("percent", 5, 1, "charm95", "leave", None)),
     Pair(T("percent", 5, 1, "charm99", "leave", None), T("fixed", -150, 1, "none", "baseline", None)),
     Pair(T("percent", -125, 10, "nearest10", "clear", None), T("import", 620, 1, "none", "import", 700)),
     Pair(T("margin", 30, 1, "none", "baseline", None), T("import", None, 1, "none", "import", None)),
     Pair(T("fixed", 30, 1, "whole", "baseline", None), T("multiple", 15, 10, "charm99", "clear", None)),
     Pair(T("exact", 499, 1, "nearest100", "baseline", None), T("ofCompareAt", -10, 1, "whole", "leave", None))}

B(price, compareAt, cost) == [price |-> price, compareAt |-> compareAt, cost |-> cost]

MCCatalogues ==
    {(v1 :> B(595, 650, None)) @@ (v2 :> B(610, None, 587)),
     (v1 :> B(0, None, None))  @@ (v2 :> B(45, None, 40)),
     (v1 :> B(1000, 990, 300)) @@ (v2 :> B(610, 620, None))}

MCCosts == {None, 500}

S(unit, belowCost, margin, min, missing, breach) ==
    [unit |-> unit, belowCost |-> belowCost, margin |-> margin, min |-> min,
     missing |-> missing, breach |-> breach]

MCStores ==
    {S(100, FALSE, None, None, "skip", "clamp"),
     S(100, FALSE, None, None, "skip", "skip"),
     S(100, TRUE, 7, None, "skip", "clamp"),
     S(100, TRUE, None, 550, "error", "block"),
     S(1, FALSE, None, None, "skip", "clamp"),
     S(1000, FALSE, 33, 400, "skip", "block")}
=============================================================================
