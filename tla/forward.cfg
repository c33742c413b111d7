\* Two clients, four upstreams of which the last has no timeout, and a budget
\* smaller than the attempts of both.
CONSTANTS
    q1 = q1  q2 = q2
    Query = {q1, q2}
    N = 4
    Timed = {1, 2, 3}
    Legacy = {2}
    MaxAttempts = 3
    MaxServers = 2
SPECIFICATION FairSpec
INVARIANTS PermitsAccounted PlaintextLast UntimedAlone
PROPERTIES GivesUpForCause BudgetReturns QueriesEnd
\* Every query is served once: the system stops when all are.
CHECK_DEADLOCK FALSE
