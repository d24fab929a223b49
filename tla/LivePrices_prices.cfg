\* Two campaigns on two variants.
CONSTANTS
    c1 = c1
    c2 = c2
    v1 = v1
    v2 = v2
    Variants <- TwoVariants
    Campaigns <- TwoCampaigns
    Rank <- MCRank
    Given <- MCGiven
    Catalogues <- MCCatalogues
    Costs <- MCCosts
    Stores <- MCStores
    Weak = {}
    MaxChanges = 1
SPECIFICATION Spec
INVARIANTS PlansAreValid DirectionKept EndingsKept ShownIsResolved
CHECK_DEADLOCK FALSE
