\* Three deliveries of two products, two stamps, turns of two rows.
\* The bounds end every behaviour, so a state without a successor is no deadlock.
CONSTANTS
    p1 = p1
    p2 = p2
    w1 = w1
    w2 = w2
    Products <- TwoProducts
    Workers <- OneWorker
    MaxStamp = 2
    Mail <- EveryMail
    Turn = 2
    MaxTries = 2
    JobTries = 2
    Weak = {}
    MaxDeliveries = 3
    MaxTroubles = 2
SPECIFICATION Spec
INVARIANTS NothingForgotten EveryDeliveryCounts
PROPERTIES OlderNeverFollows EventuallySettled
CHECK_DEADLOCK FALSE
