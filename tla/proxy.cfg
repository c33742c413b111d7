\* One UDP client and two connections share one permit and the cache.
CONSTANTS
    u1 = u1  t1 = t1  t2 = t2  www = www
    Udp = {u1}
    Tcp = {t1, t2}
    Name = {www}
    Queries <- SomeQueries
    Bodies <- SomeBodies
    MinPayload = 3
    MaxPayload = 5
    MaxTtl = 2
    MaxNegativeTtl = 1
    Capacity = 1
    PerSecond = 2
    MaxInflight = 1
    MaxConnections = 2
    MaxNow = 3
SPECIFICATION FairSpec
INVARIANTS AnswersMatch AnswersFit AgingExact PermitsAccounted
PROPERTIES TcpServed
