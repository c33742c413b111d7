\* Two concurrent queries share an upstream, with a timeout or without.
CONSTANTS
    q1 = q1  q2 = q2
    Query = {q1, q2}
    Nobody = Nobody
    MaxShift = 2
    MaxGeneration = 4
    MaxSleeps = 2
SPECIFICATION FairSpec
INVARIANTS RetryIsFresh HealthyIsClean
PROPERTIES KeepsPromise FailuresAccounted QueriesEnd AcquireEnds
