---------------------------- MODULE ForwardProofs ----------------------------
(***************************************************************************)
(* Proofs about Forward, for any number of clients and upstreams, any      *)
(* choice of timeouts and transports, and any budget of attempts.          *)
(*                                                                         *)
(* The inductive invariant says which states the attempts of a query are   *)
(* in at each point of its progress (Stage), that a hedge is armed         *)
(* between upstreams with a timeout only (Raced), and counts permits.      *)
(***************************************************************************)
EXTENDS Forward, FiniteSetTheorems, TLAPS

\* The types but for the bound of the permits, which follows from the count.
TypesInv == /\ permits \in Nat
            /\ query \in [Query -> Progress]
            /\ attempt \in [Query -> [Upstream -> AttemptState]]
            /\ system \in 0..MaxServers

\* The attempts of a query at each point of its progress: the upstreams before
\* the next one were started in order, and none is abandoned but by an answer.
Stage(p, a) == \A u \in Upstream :
    /\ p.pc = "system" => p.servers > 0
    /\ p.pc = "new" => p.next = 1 /\ a[u] = "unused"
    /\ p.pc = "race" => IF u < p.next THEN a[u] \in {"task", "good", "bad", "failed"}
                                      ELSE a[u] = "unused"
    /\ p.pc = "inline" => IF u < p.next - 1 THEN a[u] = "failed"
                          ELSE a[u] = IF u = p.next - 1 THEN "inline" ELSE "unused"
    /\ p.pc = "system" => a[u] = "failed"
    /\ p.pc = "answered" => a[u] \notin {"inline", "task", "good", "bad"}
    /\ p.pc = "servfail" => a[u] \in {"failed", "unused"}

\* A race is between upstreams with a timeout.
Raced(p, a) ==
    /\ p.hedge \in {"armed", "due"} => p.next \in Timed /\ p.next - 1 \in Timed
    /\ \A u \in Upstream \ Timed : a[u] \notin {"task", "aborted", "detached"}

QueryInv == \A q \in Query : Stage(query[q], attempt[q]) /\ Raced(query[q], attempt[q])

IInv == TypesInv /\ QueryInv /\ PermitsAccounted

-----------------------------------------------------------------------------
(* Types and stages *)

\* The upstreams are the numbers up to N.
LEMMA Upstreams == /\ N \in Nat /\ N >= 1 /\ Upstream = 1..N /\ Timed \subseteq 1..N
                   /\ MaxServers \in Nat /\ MaxAttempts \in Nat
  BY ForwardConstants DEF Upstream

\* What a step of one query has to show: its new progress and attempts.
LEMMA OneQuery ==
    ASSUME TypesInv, QueryInv, NEW q \in Query,
           NEW p \in Progress, NEW a \in [Upstream -> AttemptState], Stage(p, a), Raced(p, a),
           query' = [query EXCEPT ![q] = p], attempt' = [attempt EXCEPT ![q] = a],
           permits' \in Nat, UNCHANGED system
    PROVE  TypesInv' /\ QueryInv'
<1>1. TypesInv'
  BY DEF TypesInv
<1>2. ASSUME NEW r \in Query PROVE (Stage(query[r], attempt[r]) /\ Raced(query[r], attempt[r]))'
  <2>1. CASE r = q
    <3>1. query'[r] = p /\ attempt'[r] = a
      BY <2>1 DEF TypesInv
    <3>. QED
      BY <3>1 DEF Stage, Raced
  <2>2. CASE r # q
    <3>1. query'[r] = query[r] /\ attempt'[r] = attempt[r]
      BY <2>2 DEF TypesInv
    <3>. QED
      BY <3>1 DEF QueryInv, Stage, Raced
  <2>. QED
    BY <2>1, <2>2
<1>. QED
  BY <1>1, <1>2 DEF QueryInv

\* A query that starts, races or gives up on a race leaves its attempts alone.
LEMMA ProgressSteps ==
    ASSUME TypesInv, QueryInv, NEW q \in Query,
           Begin(q) \/ HedgeBlocked(q) \/ HedgeDue(q) \/ AskSystem(q) \/ NoSystem(q)
           \/ SystemAnswers(q) \/ ServerFails(q)
    PROVE  TypesInv' /\ QueryInv'
<1>. USE Upstreams DEF At, Goto
<1>. DEFINE p == query[q]  a == attempt[q]
<1>. p \in Progress /\ a \in [Upstream -> AttemptState] /\ Stage(p, a) /\ Raced(p, a)
     /\ permits \in Nat /\ system \in 0..MaxServers
     /\ attempt = [attempt EXCEPT ![q] = a] /\ p.next \in 1..N + 1 /\ p.servers \in 0..MaxServers
  BY DEF TypesInv, QueryInv, Progress
<1>1. CASE Begin(q)
  <2>. DEFINE n == [p EXCEPT !.pc = "race"]
  <2>1. query' = [query EXCEPT ![q] = n] /\ UNCHANGED <<attempt, permits, system>>
    BY <1>1 DEF Begin
  <2>2. n \in Progress /\ Stage(n, a) /\ Raced(n, a)
    BY <1>1 DEF Begin, Progress, Stage, Raced
  <2>. HIDE DEF p, a, n
  <2>. QED
    BY <2>1, <2>2, OneQuery
<1>2. CASE HedgeBlocked(q) \/ HedgeDue(q)
  <2>. PICK hedge \in {"blocked", "due"} : query' = [query EXCEPT ![q].hedge = hedge]
                                          /\ (hedge = "due" => p.hedge = "armed")
    BY <1>2 DEF HedgeBlocked, HedgeDue
  <2>. DEFINE n == [p EXCEPT !.hedge = hedge]
  <2>1. query' = [query EXCEPT ![q] = n] /\ UNCHANGED <<attempt, permits, system>>
    BY <1>2 DEF HedgeBlocked, HedgeDue
  <2>2. n \in Progress /\ Stage(n, a) /\ Raced(n, a)
    BY DEF Progress, Stage, Raced
  <2>. HIDE DEF p, a, n
  <2>. QED
    BY <2>1, <2>2, OneQuery
<1>3. CASE AskSystem(q)
  <2>. DEFINE n == [p EXCEPT !.pc = "system", !.servers = system]
  <2>. permits' \in Nat /\ system > 0 /\ UNCHANGED <<attempt, system>>
    BY <1>3 DEF AskSystem
  <2>1. query' = [query EXCEPT ![q] = n]
    BY <1>3 DEF AskSystem
  <2>2. n \in Progress /\ Raced(n, a)
    BY DEF Progress, Raced
  <2>3. \A u \in Upstream : a[u] = "failed"
    BY <1>3 DEF AskSystem, Exhausted, Pending, Stage
  <2>4. Stage(n, a)
    BY <2>3 DEF Stage, Progress
  <2>. HIDE DEF p, a, n
  <2>. QED
    BY <2>1, <2>2, <2>4, OneQuery
<1>4. CASE NoSystem(q)
  <2>. DEFINE n == [p EXCEPT !.pc = "servfail"]
  <2>1. query' = [query EXCEPT ![q] = n] /\ UNCHANGED <<attempt, permits, system>>
    BY <1>4 DEF NoSystem
  <2>2. n \in Progress /\ Raced(n, a)
    BY DEF Progress, Raced
  <2>3. \A u \in Upstream : a[u] \in {"failed", "unused"}
    BY <1>4 DEF NoSystem, Exhausted, Pending, Stage
  <2>4. Stage(n, a)
    BY <2>3 DEF Stage, Progress
  <2>. HIDE DEF p, a, n
  <2>. QED
    BY <2>1, <2>2, <2>4, OneQuery
<1>5. CASE SystemAnswers(q)
  <2>. DEFINE n == [p EXCEPT !.pc = "answered"]
  <2>1. query' = [query EXCEPT ![q] = n] /\ UNCHANGED <<attempt, system>> /\ permits' \in Nat
    BY <1>5 DEF SystemAnswers
  <2>2. n \in Progress /\ Stage(n, a) /\ Raced(n, a)
    BY <1>5 DEF SystemAnswers, Progress, Stage, Raced
  <2>. HIDE DEF p, a, n
  <2>. QED
    BY <2>1, <2>2, OneQuery
<1>6. CASE ServerFails(q)
  <2>. DEFINE left == p.servers - 1
              pc == IF p.servers = 1 THEN "servfail" ELSE "system"
              n == [p EXCEPT !.servers = left, !.pc = pc]
  <2>. permits' \in Nat /\ UNCHANGED <<attempt, system>>
    BY <1>6 DEF ServerFails
  <2>1. query' = [query EXCEPT ![q] = n]
    BY <1>6 DEF ServerFails
  <2>2. p.servers > 0 /\ p.pc = "system" /\ \A u \in Upstream : a[u] = "failed"
    BY <1>6 DEF ServerFails, Stage
  <2>3. left \in 0..MaxServers /\ pc \in {"servfail", "system"} /\ (pc = "system" => left > 0)
    BY <2>2, p.servers - 1 \in 0..MaxServers
  <2>4. n \in Progress
    <3>. HIDE DEF left, pc, p
    <3>. QED
      BY <2>3 DEF Progress
  <2>5. Stage(n, a) /\ Raced(n, a)
    <3>. HIDE DEF left, pc
    <3>. QED
      BY <2>2, <2>3 DEF Stage, Raced, Progress
  <2>. HIDE DEF p, a, n
  <2>. QED
    BY <2>1, <2>4, <2>5, OneQuery
<1>. QED
  BY <1>1, <1>2, <1>3, <1>4, <1>5, <1>6

\* A query that polls an attempt itself has failed the upstreams before it.
LEMMA Polled ==
    ASSUME NEW p, NEW a, NEW u \in Upstream, Stage(p, a), p.pc = "inline",
           p.next \in 1..N + 1, a[u] = "inline"
    PROVE  /\ u = p.next - 1
           /\ \A v \in Upstream : v # u => a[v] = IF v < p.next THEN "failed" ELSE "unused"
  BY Upstreams DEF Stage

\* A query whose attempt ends, slows down or loses changes that attempt.
LEMMA AttemptSteps ==
    ASSUME TypesInv, QueryInv, NEW q \in Query, NEW u \in Upstream,
           InlineSlow(q, u) \/ Ends(q, u) \/ JoinFails(q, u)
    PROVE  TypesInv' /\ QueryInv'
<1>. USE Upstreams DEF At, Goto, SetAttempt
<1>. DEFINE p == query[q]  a == attempt[q]
<1>. p \in Progress /\ a \in [Upstream -> AttemptState] /\ Stage(p, a) /\ Raced(p, a)
     /\ permits \in Nat /\ system \in 0..MaxServers /\ p.next \in 1..N + 1
     /\ query = [query EXCEPT ![q] = p] /\ permits + 1 \in Nat
  BY DEF TypesInv, QueryInv, Progress
<1>1. ASSUME NEW pc \in {"answered", "race"}, NEW state \in {"won", "failed"},
             (pc = "answered" /\ state = "won") \/ (pc = "race" /\ state = "failed"),
             p.pc = "inline", a[u] = "inline",
             query' = [query EXCEPT ![q].pc = pc], attempt' = [attempt EXCEPT ![q][u] = state],
             permits' \in Nat, UNCHANGED system
      PROVE  TypesInv' /\ QueryInv'
  <2>. DEFINE n == [p EXCEPT !.pc = pc]
              b == [a EXCEPT ![u] = state]
  <2>1. query' = [query EXCEPT ![q] = n] /\ attempt' = [attempt EXCEPT ![q] = b]
    BY <1>1
  <2>2. n \in Progress /\ b \in [Upstream -> AttemptState] /\ Raced(n, b)
    BY <1>1 DEF Progress, AttemptState, Raced
  <2>3. u = p.next - 1 /\ \A v \in Upstream : v # u => a[v] = IF v < p.next THEN "failed" ELSE "unused"
    <3>. HIDE DEF p, a
    <3>. QED
      BY <1>1, Polled
  <2>4. n.pc = pc /\ n.next = p.next /\ b[u] = state /\ \A v \in Upstream : v # u => b[v] = a[v]
    BY DEF Progress
  <2>5. Stage(n, b)
    <3>. HIDE DEF p, a, n, b
    <3>1. (n.pc = "answered" /\ b[u] = "won") \/ (n.pc = "race" /\ b[u] = "failed")
      BY <1>1, <2>4
    <3>2. n.next = p.next /\ p.next \in 1..N + 1 /\ \A v \in Upstream : v # u => b[v] = a[v]
      BY <2>4
    <3>. QED
      BY <2>3, <3>1, <3>2, Upstreams DEF Stage
  <2>. HIDE DEF p, a, n, b
  <2>. QED
    BY <1>1, <2>1, <2>2, <2>5, OneQuery
<1>2. CASE InlineAnswers(q, u) \/ InlineFails(q, u)
  BY <1>1, <1>2 DEF InlineAnswers, InlineFails
<1>3. CASE InlineSlow(q, u)
  <2>. DEFINE n == [p EXCEPT !.pc = "race", !.hedge = "due"]
              b == [a EXCEPT ![u] = "task"]
  <2>1. query' = [query EXCEPT ![q] = n] /\ attempt' = [attempt EXCEPT ![q] = b]
        /\ UNCHANGED <<permits, system>> /\ p.hedge = "armed" /\ p.pc = "inline" /\ a[u] = "inline"
    BY <1>3 DEF InlineSlow
  <2>2. n \in Progress /\ b \in [Upstream -> AttemptState]
    BY DEF Progress, AttemptState
  <2>3. u = p.next - 1 /\ \A v \in Upstream : v # u => a[v] = IF v < p.next THEN "failed" ELSE "unused"
    BY <2>1 DEF Stage
  <2>4. n.pc = "race" /\ n.hedge = "due" /\ n.next = p.next /\ b[u] = "task"
        /\ \A v \in Upstream : v # u => b[v] = a[v]
    BY DEF Progress
  <2>5. Stage(n, b)
    <3>. HIDE DEF n, b, p, a
    <3>. QED
      BY <2>3, <2>4 DEF Stage
  <2>6. u \in Timed /\ p.next \in Timed
    BY <2>1, <2>3 DEF Raced
  <2>7. Raced(n, b)
    <3>. HIDE DEF n, b, p, a
    <3>. QED
      BY <2>3, <2>4, <2>6 DEF Raced
  <2>. HIDE DEF p, a, n, b
  <2>. QED
    BY <2>1, <2>2, <2>5, <2>7, OneQuery
<1>4. ASSUME NEW state \in {"good", "bad", "failed", "over"},
             \/ a[u] = "task" /\ state \in {"good", "bad"}
             \/ p.pc = "race" /\ a[u] = "bad" /\ state = "failed"
             \/ a[u] \in {"aborted", "detached"} /\ state = "over",
             attempt' = [attempt EXCEPT ![q][u] = state], permits' \in Nat, UNCHANGED <<query, system>>
      PROVE  TypesInv' /\ QueryInv'
  <2>. DEFINE b == [a EXCEPT ![u] = state]
  <2>1. attempt' = [attempt EXCEPT ![q] = b] /\ query' = [query EXCEPT ![q] = p]
    BY <1>4
  <2>2. b \in [Upstream -> AttemptState]
    BY DEF AttemptState
  <2>3. b[u] = state /\ \A v \in Upstream : v # u => b[v] = a[v]
    OBVIOUS
  <2>4. Stage(p, b) /\ Raced(p, b)
    <3>. HIDE DEF b
    <3>. QED
      BY <1>4, <2>3 DEF Stage, Raced, Progress
  <2>. HIDE DEF p, a, b
  <2>. QED
    BY <1>4, <2>1, <2>2, <2>4, OneQuery
<1>5. CASE LoserEnds(q, u)
  BY <1>4, <1>5 DEF LoserEnds
<1>6. CASE JoinFails(q, u)
  <2>1. /\ p.pc = "race" /\ a[u] = "bad" /\ UNCHANGED <<permits, query, system>>
        /\ attempt' = [attempt EXCEPT ![q][u] = "failed"]
    BY <1>6 DEF JoinFails
  <2>. HIDE DEF p, a
  <2>. QED
    BY <1>4, <2>1
<1>7. ASSUME NEW result \in {"good", "bad"}, TaskEnds(q, u, result) PROVE TypesInv' /\ QueryInv'
  <2>1. /\ a[u] = "task" /\ UNCHANGED <<query, system>> /\ permits' \in Nat
        /\ attempt' = [attempt EXCEPT ![q][u] = result]
    BY <1>7 DEF TaskEnds
  <2>. HIDE DEF p, a
  <2>. QED
    BY <1>4, <2>1
<1>. QED
  BY <1>2, <1>3, <1>5, <1>6, <1>7 DEF Ends

\* The answer that wins ends the other attempts, or leaves them behind.
LEMMA AnswerSteps ==
    ASSUME TypesInv, QueryInv, NEW q \in Query, NEW u \in Upstream, JoinAnswers(q, u)
    PROVE  TypesInv' /\ QueryInv'
<1>. USE Upstreams DEF At, Goto
<1>. DEFINE p == query[q]  a == attempt[q]
            n == [p EXCEPT !.pc = "answered"]
            b == [v \in Upstream |-> IF v = u THEN "won" ELSE Loser(v, a[v])]
<1>1. /\ p \in Progress /\ a \in [Upstream -> AttemptState] /\ Stage(p, a) /\ Raced(p, a)
      /\ permits \in Nat /\ p.pc = "race"
  BY DEF TypesInv, QueryInv, JoinAnswers
<1>2. query' = [query EXCEPT ![q] = n] /\ UNCHANGED <<permits, system>>
  BY DEF JoinAnswers
<1>3. attempt' = [attempt EXCEPT ![q] = b]
  BY DEF JoinAnswers
<1>4. \A v \in Upstream : /\ b[v] \in AttemptState \ {"inline", "task", "good", "bad"}
                          /\ b[v] \in {"aborted", "detached"} => a[v] \in {"task", "aborted", "detached"}
  BY <1>1 DEF Loser, AttemptState, Stage
<1>5. n \in Progress /\ b \in [Upstream -> AttemptState]
  BY <1>1, <1>4 DEF Progress
<1>6. n.pc = "answered" /\ n.hedge = p.hedge /\ n.next = p.next
  BY <1>1 DEF Progress
<1>7. Stage(n, b) /\ Raced(n, b)
  <2>. HIDE DEF n, b
  <2>. QED
    BY <1>1, <1>4, <1>6 DEF Stage, Raced
<1>. HIDE DEF p, a, n, b
<1>. QED
  BY <1>1, <1>2, <1>3, <1>5, <1>7, OneQuery

\* The next upstream is started alone, or as a race with one that has a timeout.
LEMMA StartSteps ==
    ASSUME TypesInv, QueryInv, NEW q \in Query, StartNext(q)
    PROVE  TypesInv' /\ QueryInv' /\ query[q].next \in Upstream /\ attempt[q][query[q].next] = "unused"
<1>. USE Upstreams DEF At
<1>. DEFINE p == query[q]  a == attempt[q]  u == p.next
            pc == IF Pending(q) = {} THEN "inline" ELSE "race"
            hedge == IF MayHedge(u) THEN "armed" ELSE "off"
            state == IF Pending(q) = {} THEN "inline" ELSE "task"
            n == [p EXCEPT !.next = u + 1, !.pc = pc, !.hedge = hedge]
            b == [a EXCEPT ![u] = state]
<1>1. /\ p \in Progress /\ a \in [Upstream -> AttemptState] /\ Stage(p, a) /\ Raced(p, a)
      /\ p.pc = "race" /\ permits \in Nat /\ permits > 0 /\ u <= N /\ u \in 1..N + 1
  BY DEF TypesInv, QueryInv, StartNext, Progress
<1>2. u \in Upstream /\ a[u] = "unused" /\ u + 1 \in 1..N + 1
  BY <1>1 DEF Stage
<1>3. query' = [query EXCEPT ![q] = n]
  BY DEF StartNext
<1>4. attempt' = [attempt EXCEPT ![q] = b] /\ permits' \in Nat /\ UNCHANGED system
  <2>1. permits' = permits - 1 /\ UNCHANGED system
    BY DEF StartNext
  <2>2. attempt' = [attempt EXCEPT ![q] = b]
    BY DEF StartNext, SetAttempt
  <2>. QED
    BY <1>1, <2>1, <2>2
<1>5. /\ n.pc = pc /\ n.next = u + 1 /\ n.hedge = hedge /\ n.servers = p.servers
      /\ b[u] = state /\ \A v \in Upstream : v # u => b[v] = a[v]
  BY <1>1, <1>2 DEF Progress
<1>6. n \in Progress /\ b \in [Upstream -> AttemptState]
  <2>. pc \in {"inline", "race"} /\ hedge \in {"armed", "off"} /\ state \in {"inline", "task"}
    OBVIOUS
  <2>. HIDE DEF pc, hedge, state, p, a, u
  <2>. QED
    BY <1>1, <1>2 DEF Progress, AttemptState
<1>7. hedge = "armed" => u \in Timed /\ u + 1 \in Timed
  BY DEF MayHedge
<1>8. CASE Pending(q) = {}
  <2>1. \A v \in Upstream : v < u => a[v] = "failed"
    BY <1>1, <1>8 DEF Stage, Pending
  <2>2. \A v \in Upstream : v >= u => a[v] = "unused"
    BY <1>1 DEF Stage
  <2>3. pc = "inline" /\ state = "inline" /\ hedge \in {"armed", "off"}
    BY <1>8
  <2>. HIDE DEF n, b, p, a, u, pc, hedge, state
  <2>4. Stage(n, b) /\ Raced(n, b)
    BY <1>1, <1>2, <1>5, <1>7, <2>1, <2>2, <2>3 DEF Stage, Raced
  <2>. QED
    BY <1>2, <1>3, <1>4, <1>6, <2>4, OneQuery DEF p, a, u
<1>9. CASE Pending(q) # {}
  <2>1. pc = "race" /\ state = "task" /\ hedge \in {"armed", "off"} /\ u \in Timed
    BY <1>1, <1>9 DEF StartNext, TimeToStart, Raced
  <2>. HIDE DEF n, b, p, a, u, pc, hedge, state
  <2>2. Stage(n, b)
    <3>1. \A v \in Upstream : v # u => IF v < u THEN a[v] \in {"task", "good", "bad", "failed"}
                                               ELSE a[v] = "unused"
      BY <1>1 DEF Stage, u
    <3>. QED
      BY <1>1, <1>2, <1>5, <2>1, <3>1 DEF Stage
  <2>3. Raced(n, b)
    BY <1>1, <1>2, <1>5, <1>7, <2>1 DEF Raced
  <2>. QED
    BY <1>2, <1>3, <1>4, <1>6, <2>2, <2>3, OneQuery DEF p, a, u
<1>. QED
  BY <1>8, <1>9

-----------------------------------------------------------------------------
(* Counting permits *)

\* The attempts that hold a permit, and the queries that hold one themselves.
RunsOf(x) == {a \in Query \X Upstream : x[a[1]][a[2]] \in Running}
AsksOf(y) == {q \in Query : y[q].pc = "system"}

LEMMA FiniteRuns ==
    ASSUME NEW x
    PROVE  IsFiniteSet(RunsOf(x)) /\ Cardinality(RunsOf(x)) \in Nat
<1>1. IsFiniteSet(Query) /\ IsFiniteSet(Upstream)
  <2>1. IsFiniteSet(1..N)
    BY Upstreams, FS_Interval
  <2>. QED
    BY <2>1, Upstreams, ForwardConstants
<1>2. IsFiniteSet(Query \X Upstream)
  BY <1>1, FS_Product
<1>3. IsFiniteSet(RunsOf(x))
  BY <1>2, FS_Subset DEF RunsOf
<1>. QED
  BY <1>3, FS_CardinalityType

LEMMA FiniteAsks ==
    ASSUME NEW y
    PROVE  IsFiniteSet(AsksOf(y)) /\ Cardinality(AsksOf(y)) \in Nat
<1>1. IsFiniteSet(AsksOf(y))
  BY ForwardConstants, FS_Subset DEF AsksOf
<1>. QED
  BY <1>1, FS_CardinalityType

\* One member more, or one less.
LEMMA OneMore ==
    ASSUME NEW S, IsFiniteSet(S), NEW e, e \notin S
    PROVE  Cardinality(S \cup {e}) = Cardinality(S) + 1
  BY FS_AddElement

LEMMA OneLess ==
    ASSUME NEW S, IsFiniteSet(S), NEW e, e \in S
    PROVE  Cardinality(S \ {e}) = Cardinality(S) - 1
  BY FS_RemoveElement

\* One attempt changes its state.
LEMMA RunsChange ==
    ASSUME TypesInv, NEW q \in Query, NEW u \in Upstream, NEW state,
           attempt' = [attempt EXCEPT ![q][u] = state]
    PROVE  /\ attempt[q][u] \in Running /\ state \notin Running
              => Cardinality(RunsOf(attempt')) = Cardinality(RunsOf(attempt)) - 1
           /\ attempt[q][u] \notin Running /\ state \in Running
              => Cardinality(RunsOf(attempt')) = Cardinality(RunsOf(attempt)) + 1
           /\ (attempt[q][u] \in Running <=> state \in Running) => RunsOf(attempt') = RunsOf(attempt)
<1>1. \A r \in Query, v \in Upstream : attempt'[r][v] = IF r = q /\ v = u THEN state ELSE attempt[r][v]
  BY DEF TypesInv
<1>2. \A a \in Query \X Upstream :
        /\ a[1] \in Query /\ a[2] \in Upstream
        /\ (a = <<q, u>>) <=> (a[1] = q /\ a[2] = u)
        /\ a # <<q, u>> => attempt'[a[1]][a[2]] = attempt[a[1]][a[2]]
        /\ a = <<q, u>> => attempt'[a[1]][a[2]] = state /\ attempt[a[1]][a[2]] = attempt[q][u]
  BY <1>1
<1>3. <<q, u>> \in Query \X Upstream
  OBVIOUS
<1>4. ASSUME attempt[q][u] \in Running, state \notin Running
      PROVE  Cardinality(RunsOf(attempt')) = Cardinality(RunsOf(attempt)) - 1
  <2>1. RunsOf(attempt') = RunsOf(attempt) \ {<<q, u>>} /\ <<q, u>> \in RunsOf(attempt)
    BY <1>2, <1>3, <1>4 DEF RunsOf
  <2>. QED
    BY <2>1, FiniteRuns, OneLess
<1>5. ASSUME attempt[q][u] \notin Running, state \in Running
      PROVE  Cardinality(RunsOf(attempt')) = Cardinality(RunsOf(attempt)) + 1
  <2>1. RunsOf(attempt') = RunsOf(attempt) \cup {<<q, u>>} /\ <<q, u>> \notin RunsOf(attempt)
    BY <1>2, <1>3, <1>5 DEF RunsOf
  <2>. QED
    BY <2>1, FiniteRuns, OneMore
<1>6. ASSUME attempt[q][u] \in Running <=> state \in Running
      PROVE  RunsOf(attempt') = RunsOf(attempt)
  BY <1>2, <1>6 DEF RunsOf
<1>. QED
  BY <1>4, <1>5, <1>6

\* One query moves on.
LEMMA AsksChange ==
    ASSUME TypesInv, NEW q \in Query, NEW p, query' = [query EXCEPT ![q] = p]
    PROVE  /\ query[q].pc = "system" /\ p.pc # "system"
              => Cardinality(AsksOf(query')) = Cardinality(AsksOf(query)) - 1
           /\ query[q].pc # "system" /\ p.pc = "system"
              => Cardinality(AsksOf(query')) = Cardinality(AsksOf(query)) + 1
           /\ (query[q].pc = "system" <=> p.pc = "system") => AsksOf(query') = AsksOf(query)
<1>1. \A r \in Query : query'[r] = IF r = q THEN p ELSE query[r]
  BY DEF TypesInv
<1>2. ASSUME query[q].pc = "system", p.pc # "system"
      PROVE  Cardinality(AsksOf(query')) = Cardinality(AsksOf(query)) - 1
  <2>1. AsksOf(query') = AsksOf(query) \ {q} /\ q \in AsksOf(query)
    BY <1>1, <1>2 DEF AsksOf
  <2>. QED
    BY <2>1, FiniteAsks, OneLess
<1>3. ASSUME query[q].pc # "system", p.pc = "system"
      PROVE  Cardinality(AsksOf(query')) = Cardinality(AsksOf(query)) + 1
  <2>1. AsksOf(query') = AsksOf(query) \cup {q} /\ q \notin AsksOf(query)
    BY <1>1, <1>3 DEF AsksOf
  <2>. QED
    BY <2>1, FiniteAsks, OneMore
<1>4. ASSUME query[q].pc = "system" <=> p.pc = "system"
      PROVE  AsksOf(query') = AsksOf(query)
  BY <1>1, <1>4 DEF AsksOf
<1>. QED
  BY <1>2, <1>3, <1>4

LEMMA Counted ==
    /\ PermitsAccounted <=>
         permits + Cardinality(RunsOf(attempt)) + Cardinality(AsksOf(query)) = MaxAttempts
    /\ PermitsAccounted' <=>
         permits' + Cardinality(RunsOf(attempt')) + Cardinality(AsksOf(query')) = MaxAttempts
  BY DEF PermitsAccounted, RunsOf, AsksOf, At

\* Every step of a query keeps the count.
LEMMA CountSteps ==
    ASSUME IInv, NEW q \in Query
    PROVE  /\ \A u \in Upstream : Ends(q, u) \/ InlineSlow(q, u) \/ JoinFails(q, u) \/ JoinAnswers(q, u)
                                    => PermitsAccounted'
           /\ StartNext(q) => PermitsAccounted'
           /\ Begin(q) \/ HedgeBlocked(q) \/ HedgeDue(q) \/ System(q) => PermitsAccounted'
<1>. USE DEF At, Goto, SetAttempt
<1>. DEFINE runs == Cardinality(RunsOf(attempt))
            asks == Cardinality(AsksOf(query))
<1>1. /\ TypesInv /\ query \in [Query -> Progress] /\ attempt \in [Query -> [Upstream -> AttemptState]]
      /\ permits \in Nat /\ runs \in Nat /\ asks \in Nat /\ permits + runs + asks = MaxAttempts
  BY Counted, FiniteRuns, FiniteAsks DEF IInv, TypesInv
<1>2. ASSUME NEW u \in Upstream, NEW state, attempt' = [attempt EXCEPT ![q][u] = state],
             attempt[q][u] \in Running, state \notin Running, permits' = permits + 1,
             AsksOf(query') = AsksOf(query)
      PROVE  PermitsAccounted'
  <2>1. Cardinality(RunsOf(attempt')) = runs - 1
    BY <1>1, <1>2, RunsChange
  <2>. QED
    BY <1>1, <1>2, <2>1, Counted
<1>3. ASSUME RunsOf(attempt') = RunsOf(attempt), AsksOf(query') = AsksOf(query), permits' = permits
      PROVE  PermitsAccounted'
  BY <1>1, <1>3, Counted
<1>4. ASSUME NEW p, query' = [query EXCEPT ![q] = p], query[q].pc # "system", p.pc # "system"
      PROVE  AsksOf(query') = AsksOf(query)
  BY <1>1, <1>4, AsksChange
<1>5. query[q] \in Progress
  BY <1>1
<1>6. ASSUME NEW u \in Upstream,
             Ends(q, u) \/ InlineSlow(q, u) \/ JoinFails(q, u) \/ JoinAnswers(q, u)
      PROVE  PermitsAccounted'
  <2>1. CASE InlineAnswers(q, u)
    <3>1. query' = [query EXCEPT ![q] = [query[q] EXCEPT !.pc = "answered"]]
          /\ [query[q] EXCEPT !.pc = "answered"].pc = "answered"
      BY <2>1, <1>1, <1>5 DEF InlineAnswers, Progress
    <3>2. query[q].pc = "inline" /\ attempt[q][u] \in Running /\ "won" \notin Running
      BY <2>1 DEF InlineAnswers, Running
    <3>3. AsksOf(query') = AsksOf(query)
      BY <1>4, <3>1, <3>2
    <3>. QED
      BY <1>2, <2>1, <3>2, <3>3 DEF InlineAnswers
  <2>2. CASE InlineFails(q, u)
    <3>1. query' = [query EXCEPT ![q] = [query[q] EXCEPT !.pc = "race"]]
          /\ [query[q] EXCEPT !.pc = "race"].pc = "race"
      BY <2>2, <1>1, <1>5 DEF InlineFails, Progress
    <3>2. query[q].pc = "inline" /\ attempt[q][u] \in Running /\ "failed" \notin Running
      BY <2>2 DEF InlineFails, Running
    <3>3. AsksOf(query') = AsksOf(query)
      BY <1>4, <3>1, <3>2
    <3>. QED
      BY <1>2, <2>2, <3>2, <3>3 DEF InlineFails
  <2>3. CASE LoserEnds(q, u)
    <3>1. attempt[q][u] \in Running /\ "over" \notin Running /\ query' = query
      BY <2>3 DEF LoserEnds, Running
    <3>. QED
      BY <1>2, <2>3, <3>1 DEF LoserEnds
  <2>4. ASSUME NEW result \in {"good", "bad"}, TaskEnds(q, u, result)
        PROVE  PermitsAccounted'
    <3>1. attempt[q][u] \in Running /\ result \notin Running /\ query' = query
      BY <2>4 DEF TaskEnds, Running
    <3>. QED
      BY <1>2, <2>4, <3>1 DEF TaskEnds
  <2>5. CASE InlineSlow(q, u)
    <3>. DEFINE p == [query[q] EXCEPT !.pc = "race", !.hedge = "due"]
    <3>1. query' = [query EXCEPT ![q] = p] /\ p.pc = "race"
      BY <2>5, <1>1, <1>5 DEF InlineSlow, Progress
    <3>2. query[q].pc = "inline" /\ attempt[q][u] \in Running /\ "task" \in Running
      BY <2>5 DEF InlineSlow, Running
    <3>. HIDE DEF p
    <3>3. AsksOf(query') = AsksOf(query)
      BY <1>4, <3>1, <3>2
    <3>4. RunsOf(attempt') = RunsOf(attempt)
      BY <1>1, <2>5, <3>2, RunsChange DEF InlineSlow
    <3>. QED
      BY <1>3, <2>5, <3>3, <3>4 DEF InlineSlow
  <2>6. CASE JoinFails(q, u)
    <3>1. attempt[q][u] \notin Running /\ "failed" \notin Running
      BY <2>6 DEF JoinFails, Running
    <3>2. RunsOf(attempt') = RunsOf(attempt)
      BY <1>1, <2>6, <3>1, RunsChange DEF JoinFails
    <3>. QED
      BY <1>3, <2>6, <3>2 DEF JoinFails
  <2>7. CASE JoinAnswers(q, u)
    <3>1. query' = [query EXCEPT ![q] = [query[q] EXCEPT !.pc = "answered"]]
          /\ [query[q] EXCEPT !.pc = "answered"].pc = "answered" /\ query[q].pc = "race"
          /\ permits' = permits
      BY <2>7, <1>1, <1>5 DEF JoinAnswers, Progress
    <3>2. AsksOf(query') = AsksOf(query)
      BY <1>4, <3>1
    <3>3. \A r \in Query, v \in Upstream : attempt'[r][v] \in Running <=> attempt[r][v] \in Running
      BY <1>1, <2>7 DEF JoinAnswers, Loser, AttemptState, Running
    <3>4. RunsOf(attempt') = RunsOf(attempt)
      <4>1. \A a \in Query \X Upstream : a[1] \in Query /\ a[2] \in Upstream
        OBVIOUS
      <4>. QED
        BY <3>3, <4>1 DEF RunsOf
    <3>. QED
      BY <1>3, <3>1, <3>2, <3>4
  <2>. QED
    BY <1>6, <2>1, <2>2, <2>3, <2>4, <2>5, <2>6, <2>7 DEF Ends
<1>7. ASSUME StartNext(q) PROVE PermitsAccounted'
  <2>. DEFINE u == query[q].next
              state == IF Pending(q) = {} THEN "inline" ELSE "task"
              p == [query[q] EXCEPT !.next = u + 1,
                                    !.pc = IF Pending(q) = {} THEN "inline" ELSE "race",
                                    !.hedge = IF MayHedge(u) THEN "armed" ELSE "off"]
  <2>1. u \in Upstream /\ attempt[q][u] \notin Running /\ state \in Running
    BY <1>7, StartSteps DEF IInv, Running
  <2>2. query' = [query EXCEPT ![q] = p] /\ p.pc # "system" /\ query[q].pc # "system"
    BY <1>1, <1>5, <1>7 DEF StartNext, Progress
  <2>3. attempt' = [attempt EXCEPT ![q][u] = state] /\ permits' = permits - 1
    BY <1>7 DEF StartNext
  <2>. HIDE DEF u, state, p
  <2>4. Cardinality(RunsOf(attempt')) = runs + 1
    BY <1>1, <2>1, <2>3, RunsChange
  <2>5. AsksOf(query') = AsksOf(query)
    BY <1>4, <2>2
  <2>. QED
    BY <1>1, <2>3, <2>4, <2>5, Counted
<1>8. CASE Begin(q) \/ HedgeBlocked(q) \/ HedgeDue(q) \/ NoSystem(q)
  <2>1. query[q].pc # "system" /\ UNCHANGED <<attempt, permits>>
    BY <1>8 DEF Begin, HedgeBlocked, HedgeDue, NoSystem, Exhausted
  <2>2. PICK p : query' = [query EXCEPT ![q] = p] /\ p.pc # "system"
    <3>1. CASE Begin(q)
      BY <3>1, <1>5, query' = [query EXCEPT ![q] = [query[q] EXCEPT !.pc = "race"]]
      DEF Begin, Progress
    <3>2. CASE NoSystem(q)
      <4>1. query' = [query EXCEPT ![q] = [query[q] EXCEPT !.pc = "servfail"]]
        BY <3>2 DEF NoSystem
      <4>2. [query[q] EXCEPT !.pc = "servfail"].pc = "servfail"
        BY <1>5 DEF Progress
      <4>. QED
        BY <4>1, <4>2
    <3>3. CASE HedgeBlocked(q)
      BY <3>3, <1>5, <2>1, query' = [query EXCEPT ![q] = [query[q] EXCEPT !.hedge = "blocked"]]
      DEF HedgeBlocked, Progress
    <3>4. CASE HedgeDue(q)
      BY <3>4, <1>5, <2>1, query' = [query EXCEPT ![q] = [query[q] EXCEPT !.hedge = "due"]]
      DEF HedgeDue, Progress
    <3>. QED
      BY <1>8, <3>1, <3>2, <3>3, <3>4
  <2>3. AsksOf(query') = AsksOf(query)
    BY <1>4, <2>1, <2>2
  <2>. QED
    BY <1>3, <2>1, <2>3
<1>9. CASE AskSystem(q)
  <2>. DEFINE p == [query[q] EXCEPT !.pc = "system", !.servers = system]
  <2>1. /\ query' = [query EXCEPT ![q] = p] /\ p.pc = "system" /\ query[q].pc # "system"
        /\ permits' = permits - 1 /\ attempt' = attempt
    BY <1>1, <1>5, <1>9 DEF AskSystem, Exhausted, Progress
  <2>. HIDE DEF p
  <2>2. Cardinality(AsksOf(query')) = asks + 1
    BY <1>1, <2>1, AsksChange
  <2>. QED
    BY <1>1, <2>1, <2>2, Counted
<1>10. ASSUME NEW p, query' = [query EXCEPT ![q] = p], query[q].pc = "system", p.pc # "system",
              permits' = permits + 1, attempt' = attempt
       PROVE  PermitsAccounted'
  <2>1. Cardinality(AsksOf(query')) = asks - 1
    BY <1>1, <1>10, AsksChange
  <2>. QED
    BY <1>1, <1>10, <2>1, Counted
<1>11. CASE SystemAnswers(q)
  <2>1. query' = [query EXCEPT ![q] = [query[q] EXCEPT !.pc = "answered"]]
        /\ [query[q] EXCEPT !.pc = "answered"].pc = "answered"
    BY <1>1, <1>5, <1>11 DEF SystemAnswers, Progress
  <2>. QED
    BY <1>10, <1>11, <2>1 DEF SystemAnswers
<1>12. CASE ServerFails(q)
  <2>. DEFINE last == query[q].servers = 1
              p == [query[q] EXCEPT !.servers = @ - 1, !.pc = IF last THEN "servfail" ELSE "system"]
  <2>1. /\ query' = [query EXCEPT ![q] = p] /\ p.pc = IF last THEN "servfail" ELSE "system"
        /\ query[q].pc = "system" /\ attempt' = attempt
        /\ permits' = IF last THEN permits + 1 ELSE permits
    BY <1>1, <1>5, <1>12 DEF ServerFails, Progress
  <2>. HIDE DEF p
  <2>2. CASE last
    BY <1>10, <2>1, <2>2
  <2>3. CASE ~last
    BY <1>1, <1>3, <2>1, <2>3, AsksChange
  <2>. QED
    BY <2>2, <2>3
<1>. QED
  BY <1>6, <1>7, <1>8, <1>9, <1>11, <1>12 DEF System

-----------------------------------------------------------------------------
(* Theorems *)

\* A step of a query.
LEMMA QueryStep ==
    ASSUME IInv, NEW q \in Query,
           Loop(q) \/ System(q) \/ Slow(q) \/ \E u \in Upstream : Ends(q, u)
    PROVE  IInv'
<1>1. TypesInv /\ QueryInv
  BY DEF IInv
<1>2. CASE Begin(q) \/ HedgeBlocked(q) \/ HedgeDue(q) \/ System(q)
  <2>1. TypesInv' /\ QueryInv'
    BY <1>1, <1>2, ProgressSteps DEF System
  <2>. QED
    BY <1>2, <2>1, CountSteps DEF IInv
<1>3. CASE StartNext(q)
  BY <1>1, <1>3, StartSteps, CountSteps DEF IInv
<1>4. ASSUME NEW u \in Upstream, JoinAnswers(q, u) PROVE IInv'
  BY <1>1, <1>4, AnswerSteps, CountSteps DEF IInv
<1>5. ASSUME NEW u \in Upstream, InlineSlow(q, u) \/ Ends(q, u) \/ JoinFails(q, u) PROVE IInv'
  BY <1>1, <1>5, AttemptSteps, CountSteps DEF IInv
<1>. QED
  BY <1>2, <1>3, <1>4, <1>5 DEF Loop, Slow

LEMMA Initial == Init => IInv
<1>. SUFFICES ASSUME Init PROVE IInv
  OBVIOUS
<1>1. TypesInv
  BY Upstreams DEF Init, TypesInv, Progress, AttemptState
<1>2. QueryInv
  BY Upstreams DEF Init, QueryInv, Stage, Raced
<1>3. RunsOf(attempt) = {} /\ AsksOf(query) = {}
  <2>1. \A a \in Query \X Upstream : attempt[a[1]][a[2]] = "unused"
    BY DEF Init
  <2>. QED
    BY <2>1 DEF Init, RunsOf, AsksOf, Running
<1>4. PermitsAccounted
  <2>1. Cardinality(RunsOf(attempt)) = 0 /\ Cardinality(AsksOf(query)) = 0
    BY <1>3, FS_EmptySet
  <2>2. permits = MaxAttempts /\ MaxAttempts \in Nat
    BY Upstreams DEF Init
  <2>3. permits + Cardinality(RunsOf(attempt)) + Cardinality(AsksOf(query)) = MaxAttempts
    BY <2>1, <2>2
  <2>. QED
    BY <2>3, Counted
<1>. QED
  BY <1>1, <1>2, <1>4 DEF IInv

LEMMA Step == IInv /\ [Next]_vars => IInv'
<1>. SUFFICES ASSUME IInv, [Next]_vars PROVE IInv'
  OBVIOUS
<1>1. ASSUME NEW q \in Query,
             Loop(q) \/ System(q) \/ Slow(q) \/ \E u \in Upstream : Ends(q, u)
      PROVE  IInv'
  BY <1>1, QueryStep
<1>2. ASSUME NEW n \in 0..MaxServers, SetSystemFallback(n) PROVE IInv'
  BY <1>2 DEF IInv, SetSystemFallback, TypesInv, QueryInv, Stage, Raced, PermitsAccounted, At
<1>3. CASE UNCHANGED vars
  BY <1>3 DEF IInv, vars, TypesInv, QueryInv, Stage, Raced, PermitsAccounted, At
<1>. QED
  BY <1>1, <1>2, <1>3 DEF Next

\* The inductive invariant holds of every run of forward_hedged: the stages of
\* the queries, what a hedge is armed between, and the count of the permits.
THEOREM ForwardInvariance == Spec => []IInv
  BY Initial, Step, PTL DEF Spec

\* The budget is never overdrawn nor overfilled, and the progress of the
\* queries and their attempts stay within their types.
THEOREM ForwardTypeCorrect == Spec => []TypeOK
<1>1. IInv => TypeOK
  BY Counted, FiniteRuns, FiniteAsks, Upstreams DEF IInv, TypesInv, TypeOK
<1>. QED
  BY <1>1, ForwardInvariance, PTL

\* Whatever way an attempt ends, its permit comes back once: the free permits,
\* the running attempts and the queries at the system's resolvers always add
\* up to MAX_ATTEMPTS.
THEOREM PermitsStayAccounted == Spec => []PermitsAccounted
  BY ForwardInvariance, PTL DEF IInv

\* A query reaches the system's own resolvers only after every configured
\* upstream was asked and failed.
THEOREM PlaintextStaysLast == Spec => []PlaintextLast
<1>1. IInv => PlaintextLast
  BY DEF IInv, QueryInv, Stage, PlaintextLast, At
<1>. QED
  BY <1>1, ForwardInvariance, PTL

\* An attempt without a deadline is never raced and never outlives its query.
THEOREM UntimedStaysAlone == Spec => []UntimedAlone
<1>1. ASSUME IInv, NEW q \in Query, NEW u \in Upstream \ Timed
      PROVE  /\ attempt[q][u] \notin {"task", "aborted", "detached"}
             /\ attempt[q][u] = "inline" => Pending(q) = {}
  <2>1. /\ Stage(query[q], attempt[q]) /\ Raced(query[q], attempt[q])
        /\ query[q] \in Progress /\ query[q].next \in 1..N + 1
    BY <1>1 DEF IInv, QueryInv, TypesInv, Progress
  <2>2. attempt[q][u] \notin {"task", "aborted", "detached"}
    BY <2>1 DEF Raced
  <2>3. ASSUME attempt[q][u] = "inline" PROVE Pending(q) = {}
    <3>1. query[q].pc = "inline"
      BY <2>1, <2>3 DEF Stage, Progress
    <3>. QED
      BY <2>1, <3>1, Upstreams DEF Stage, Pending
  <2>. QED
    BY <2>2, <2>3
<1>2. IInv => UntimedAlone
  BY <1>1 DEF UntimedAlone
<1>. QED
  BY <1>2, ForwardInvariance, PTL

\* A query is answered with SERVFAIL only when no attempt can still answer it,
\* and while permits are left only after every upstream failed.
THEOREM GivesUpOnlyForCause == Spec => GivesUpForCause
<1>. DEFINE Cause(q) ==
       query'[q].pc = "servfail" /\ ~At(q, "servfail") =>
         /\ \A u \in Upstream : attempt[q][u] \in {"failed", "unused"}
         /\ permits > 0 => \A u \in Upstream : attempt[q][u] = "failed"
<1>1. ASSUME IInv, [Next]_vars, NEW q \in Query PROVE Cause(q)
  <2>1. /\ Stage(query[q], attempt[q]) /\ query \in [Query -> Progress]
        /\ query[q] \in Progress /\ query[q].next \in 1..N + 1
    BY <1>1 DEF IInv, QueryInv, TypesInv, Progress
  <2>2. CASE NoSystem(q)
    <3>1. /\ query[q].pc = "race" /\ Pending(q) = {} /\ (query[q].next > N \/ permits = 0)
      BY <2>2 DEF NoSystem, Exhausted, At
    <3>. QED
      BY <2>1, <3>1, Upstreams DEF Stage, Pending
  <2>3. CASE ServerFails(q)
    BY <2>1, <2>3 DEF Stage, ServerFails, At
  <2>4. CASE ~NoSystem(q) /\ ~ServerFails(q)
    <3>1. query'[q].pc # "servfail" \/ query[q].pc = "servfail"
      <4>1. ASSUME NEW r \in Query, r # q,
                   Loop(r) \/ System(r) \/ Slow(r) \/ \E u \in Upstream : Ends(r, u)
            PROVE  query'[q] = query[q]
        BY <2>1, <4>1 DEF Loop, System, Slow, Ends, Begin, StartNext, HedgeBlocked, JoinFails,
           JoinAnswers, AskSystem, NoSystem, SystemAnswers, ServerFails, HedgeDue, InlineSlow,
           InlineAnswers, InlineFails, LoserEnds, TaskEnds, Goto
      <4>2. CASE Loop(q) \/ System(q) \/ Slow(q) \/ \E u \in Upstream : Ends(q, u)
        <5>1. CASE StartNext(q)
          BY <2>1, <5>1 DEF StartNext, Progress
        <5>2. CASE Begin(q) \/ HedgeBlocked(q) \/ HedgeDue(q) \/ AskSystem(q) \/ SystemAnswers(q)
          BY <2>1, <5>2 DEF Begin, HedgeBlocked, HedgeDue, AskSystem, SystemAnswers, Goto, Progress
        <5>3. ASSUME NEW u \in Upstream,
                     \/ JoinFails(q, u) \/ JoinAnswers(q, u) \/ InlineSlow(q, u) \/ Ends(q, u)
              PROVE  query'[q].pc # "servfail" \/ query[q].pc = "servfail"
          BY <2>1, <5>3 DEF JoinFails, JoinAnswers, InlineSlow, Ends, InlineAnswers, InlineFails,
             LoserEnds, TaskEnds, Goto, Progress
        <5>. QED
          BY <2>4, <4>2, <5>1, <5>2, <5>3 DEF Loop, System, Slow
      <4>3. CASE UNCHANGED vars \/ \E n \in 0..MaxServers : SetSystemFallback(n)
        BY <4>3 DEF vars, SetSystemFallback
      <4>. QED
        BY <1>1, <4>1, <4>2, <4>3 DEF Next
    <3>. QED
      BY <3>1 DEF At
  <2>. QED
    BY <2>2, <2>3, <2>4
<1>2. IInv /\ [Next]_vars => [\A q \in Query : Cause(q)]_vars
  BY <1>1
<1>. QED
  BY <1>2, ForwardInvariance, PTL DEF Spec, GivesUpForCause
=============================================================================
