\* A race that found no permit waits for every pending attempt.
CONSTANTS
    q1 = q1  q2 = q2
    Query = {q1, q2}
    N = 3
    Timed = {1, 2, 3}
    Legacy = {2}
    MaxAttempts = 3
    MaxServers = 1
SPECIFICATION Spec
PROPERTIES BlockedHedgeRetried
CHECK_DEADLOCK FALSE
