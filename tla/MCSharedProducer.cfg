SPECIFICATION FairSpec
CONSTANTS
    Requests = {q1, q2, q3}
    QueueLimit = 2
    MaxSends = 4
    MaxCrashes = 1
INVARIANTS RefusedForOwnFailure ProducerInv
PROPERTIES ContractSpec EveryRequestAnswered
CHECK_DEADLOCK FALSE
