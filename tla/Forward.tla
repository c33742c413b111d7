------------------------------ MODULE Forward -------------------------------
(***************************************************************************)
(* Ordered, hedged failover (upstream/mod.rs): queries that try the        *)
(* configured upstreams in order, race one that stays silent against the   *)
(* next, and turn to the system's own resolvers last.  Every attempt, the  *)
(* ones that outlive their query included, takes a permit of one budget    *)
(* and never waits for it.                                                 *)
(*                                                                         *)
(* The runtime has one thread: what the loop does between two awaits is    *)
(* one step.  "hedge" is hedge_at, with the history of a None: "blocked"   *)
(* after a race for which no permit was left, "off" otherwise.             *)
(***************************************************************************)
EXTENDS Naturals, FiniteSets

CONSTANTS Query,       \* client queries
          N,           \* upstreams 1..N, in the order of the configuration
          Timed,       \* the ones with a timeout (timeout > 0)
          Legacy,      \* the ones without a connection to keep healthy
          MaxAttempts, \* MAX_ATTEMPTS
          MaxServers   \* bound on the list of system resolvers

Upstream == 1..N

ASSUME ForwardConstants ==
    /\ N \in Nat \ {0} /\ MaxAttempts \in Nat /\ MaxServers \in Nat
    /\ Timed \subseteq Upstream /\ Legacy \subseteq Upstream
    /\ IsFiniteSet(Query)

VARIABLES permits, \* free permits of the budget
          query,   \* progress of each query
          attempt, \* what became of a query's attempt at each upstream
          system   \* length of the list of system resolvers

vars == <<permits, query, attempt, system>>

\* An attempt is polled by the query itself ("inline") or runs as a task that
\* ends with a result for the query to collect ("good", "bad": an error or
\* SERVFAIL).  A task that lost the race is cancelled, which takes effect when
\* the runtime gets to it ("aborted"), or goes on alone ("detached").
AttemptState == {"unused", "inline", "task", "good", "bad", "failed", "won",
                 "aborted", "detached", "over"}
Running == {"inline", "task", "aborted", "detached"}

Progress == [pc : {"new", "race", "inline", "system", "answered", "servfail"},
             next : 1..N + 1, hedge : {"off", "armed", "due", "blocked"},
             servers : 0..MaxServers]

TypeOK == /\ permits \in 0..MaxAttempts
          /\ query \in [Query -> Progress]
          /\ attempt \in [Query -> [Upstream -> AttemptState]]
          /\ system \in 0..MaxServers

-----------------------------------------------------------------------------
(* The state of a query *)

At(q, pc) == query[q].pc = pc
Goto(q, pc) == query' = [query EXCEPT ![q].pc = pc]
SetAttempt(q, u, state) == attempt' = [attempt EXCEPT ![q][u] = state]

\* The attempts of the JoinSet.
Pending(q) == {u \in Upstream : attempt[q][u] \in {"task", "good", "bad"}}
\* Mutation of TimeToStart: a failure does not start the next upstream.
TimeToStartRace(q) == query[q].next = 1 \/ query[q].hedge = "due"

TimeToStart(q) == Pending(q) = {} \/ query[q].hedge = "due"

\* Mutation of MayHedge: the upstream to start is not looked at.
MayHedgeAny(u) == u \in Timed /\ u < N

\* An upstream without a timeout is never raced and never started as a race.
MayHedge(u) == u \in Timed /\ u + 1 \in Timed

-----------------------------------------------------------------------------
(* The loop of forward_hedged *)

Begin(q) ==
    /\ At(q, "new") /\ Goto(q, "race")
    /\ UNCHANGED <<permits, attempt, system>>

\* The first attempt is polled in the caller, a race runs as a task.
StartNext(q) ==
    LET u == query[q].next
        alone == Pending(q) = {}
    IN  /\ At(q, "race") /\ TimeToStart(q)
        /\ u <= N /\ permits > 0
        /\ permits' = permits - 1
        /\ SetAttempt(q, u, IF alone THEN "inline" ELSE "task")
        /\ query' = [query EXCEPT ![q].next = u + 1,
                                  ![q].pc = IF alone THEN "inline" ELSE "race",
                                  ![q].hedge = IF MayHedge(u) THEN "armed" ELSE "off"]
        /\ UNCHANGED system

\* Mutation of HedgeBlocked: the upstream is given up with its race.
HedgeBlockedSkips(q) ==
    /\ At(q, "race") /\ query[q].hedge = "due" /\ Pending(q) # {}
    /\ query[q].next <= N /\ permits = 0
    /\ query' = [query EXCEPT ![q].hedge = "blocked", ![q].next = @ + 1]
    /\ UNCHANGED <<permits, attempt, system>>

HedgeBlocked(q) ==
    /\ At(q, "race") /\ query[q].hedge = "due" /\ Pending(q) # {}
    /\ query[q].next > N \/ permits = 0
    /\ query' = [query EXCEPT ![q].hedge = "blocked"]
    /\ UNCHANGED <<permits, attempt, system>>

InlineAnswers(q, u) ==
    /\ At(q, "inline") /\ attempt[q][u] = "inline"
    /\ permits' = permits + 1
    /\ SetAttempt(q, u, "won") /\ Goto(q, "answered")
    /\ UNCHANGED system

InlineFails(q, u) ==
    /\ At(q, "inline") /\ attempt[q][u] = "inline"
    /\ permits' = permits + 1
    /\ SetAttempt(q, u, "failed") /\ Goto(q, "race")
    /\ UNCHANGED system

\* The attempt moves unchanged into a task.
InlineSlow(q, u) ==
    /\ At(q, "inline") /\ attempt[q][u] = "inline" /\ query[q].hedge = "armed"
    /\ SetAttempt(q, u, "task")
    /\ query' = [query EXCEPT ![q].pc = "race", ![q].hedge = "due"]
    /\ UNCHANGED <<permits, system>>

HedgeDue(q) ==
    /\ At(q, "race") /\ query[q].hedge = "armed" /\ Pending(q) # {}
    /\ query' = [query EXCEPT ![q].hedge = "due"]
    /\ UNCHANGED <<permits, attempt, system>>

\* Mutation of TaskEnds: a task that fails keeps its permit.
TaskEndsLeaks(q, u, result) ==
    /\ attempt[q][u] = "task"
    /\ permits' = IF result = "good" THEN permits + 1 ELSE permits
    /\ SetAttempt(q, u, result)
    /\ UNCHANGED <<query, system>>

\* A task returns its permit when it ends, not when its result is collected.
TaskEnds(q, u, result) ==
    /\ attempt[q][u] = "task"
    /\ permits' = permits + 1
    /\ SetAttempt(q, u, result)
    /\ UNCHANGED <<query, system>>

LoserEnds(q, u) ==
    /\ attempt[q][u] \in {"aborted", "detached"}
    /\ permits' = permits + 1
    /\ SetAttempt(q, u, "over")
    /\ UNCHANGED <<query, system>>

JoinFails(q, u) ==
    /\ At(q, "race") /\ attempt[q][u] = "bad"
    /\ SetAttempt(q, u, "failed")
    /\ UNCHANGED <<permits, query, system>>

\* Mutation of Loser: a cancelled task is forgotten with its permit.
LoserForgotten(u, state) ==
    CASE state = "task" -> IF u \in Legacy THEN "over" ELSE "detached"
      [] state \in {"good", "bad"} -> "over"
      [] OTHER -> state

\* Losing legacy attempts are cancelled; encrypted ones run on, to notice that
\* their connection stalled.
Loser(u, state) ==
    CASE state = "task" -> IF u \in Legacy THEN "aborted" ELSE "detached"
      [] state \in {"good", "bad"} -> "over"
      [] OTHER -> state

JoinAnswers(q, u) ==
    /\ At(q, "race") /\ attempt[q][u] = "good"
    /\ attempt' = [attempt EXCEPT ![q] =
         [v \in Upstream |-> IF v = u THEN "won" ELSE Loser(v, @[v])]]
    /\ Goto(q, "answered")
    /\ UNCHANGED <<permits, system>>

-----------------------------------------------------------------------------
(* The system's own resolvers *)

\* Mutation of Exhausted: pending attempts are not waited for.
ExhaustedEarly(q) == At(q, "race") /\ (query[q].next > N \/ permits = 0)

Exhausted(q) == At(q, "race") /\ Pending(q) = {} /\ (query[q].next > N \/ permits = 0)

\* The list is copied, and its servers are asked in turn.
AskSystem(q) ==
    /\ Exhausted(q) /\ permits > 0 /\ system > 0
    /\ permits' = permits - 1
    /\ query' = [query EXCEPT ![q].pc = "system", ![q].servers = system]
    /\ UNCHANGED <<attempt, system>>

NoSystem(q) ==
    /\ Exhausted(q)
    /\ permits = 0 \/ system = 0
    /\ Goto(q, "servfail")
    /\ UNCHANGED <<permits, attempt, system>>

SystemAnswers(q) ==
    /\ At(q, "system")
    /\ permits' = permits + 1 /\ Goto(q, "answered")
    /\ UNCHANGED <<attempt, system>>

ServerFails(q) ==
    LET last == query[q].servers = 1 IN
    /\ At(q, "system")
    /\ query' = [query EXCEPT ![q].servers = @ - 1,
                              ![q].pc = IF last THEN "servfail" ELSE "system"]
    /\ permits' = IF last THEN permits + 1 ELSE permits
    /\ UNCHANGED <<attempt, system>>

\* The watchdog hands over a list only if it captured one.
SetSystemFallback(n) ==
    /\ n > 0 /\ n # system
    /\ system' = n
    /\ UNCHANGED <<permits, query, attempt>>

-----------------------------------------------------------------------------
(* Specification *)

Init == /\ permits = MaxAttempts
        /\ query = [q \in Query |-> [pc |-> "new", next |-> 1, hedge |-> "off", servers |-> 0]]
        /\ attempt = [q \in Query |-> [u \in Upstream |-> "unused"]]
        /\ system \in 0..MaxServers

Loop(q) == \/ Begin(q) \/ StartNext(q) \/ HedgeBlocked(q)
           \/ \E u \in Upstream : JoinFails(q, u) \/ JoinAnswers(q, u)
System(q) == AskSystem(q) \/ NoSystem(q) \/ SystemAnswers(q) \/ ServerFails(q)
Ends(q, u) == \/ InlineAnswers(q, u) \/ InlineFails(q, u) \/ LoserEnds(q, u)
              \/ \E result \in {"good", "bad"} : TaskEnds(q, u, result)
Slow(q) == HedgeDue(q) \/ \E u \in Upstream : InlineSlow(q, u)

Next == \/ \E q \in Query : \/ Loop(q) \/ System(q) \/ Slow(q)
                            \/ \E u \in Upstream : Ends(q, u)
        \/ \E n \in 0..MaxServers : SetSystemFallback(n)

Spec == Init /\ [][Next]_vars

\* Tasks and queries are polled, attempts with a timeout end, an aborted task
\* is dropped, and a system resolver has two seconds.  An attempt without a
\* timeout may last forever.
Fairness ==
    \A q \in Query : /\ WF_vars(Loop(q)) /\ WF_vars(System(q))
                     /\ \A u \in Timed : WF_vars(Ends(q, u))

FairSpec == Spec /\ Fairness
-----------------------------------------------------------------------------
(* Properties *)

\* No path leaks or returns a permit twice: success, failure, promotion to a
\* task, cancellation of a loser, a loser that outlives its query.
PermitsAccounted ==
    permits + Cardinality({a \in Query \X Upstream : attempt[a[1]][a[2]] \in Running})
            + Cardinality({q \in Query : At(q, "system")}) = MaxAttempts

\* The system's resolvers, which may be unencrypted, see a query only after
\* every configured upstream failed it: no attempt is pending and none was
\* skipped for want of a permit.
PlaintextLast ==
    \A q \in Query : At(q, "system") => \A u \in Upstream : attempt[q][u] = "failed"

\* A query that gets SERVFAIL abandoned no attempt and lost no answer, and left
\* no upstream unasked unless the budget was spent.
GivesUpForCause ==
    [][\A q \in Query : query'[q].pc = "servfail" /\ ~At(q, "servfail") =>
         /\ \A u \in Upstream : attempt[q][u] \in {"failed", "unused"}
         /\ permits > 0 => \A u \in Upstream : attempt[q][u] = "failed"]_vars

\* An attempt without a deadline is never part of a race nor left behind in the
\* background, where it could keep its permit forever.
UntimedAlone ==
    \A q \in Query : \A u \in Upstream \ Timed :
        /\ attempt[q][u] \notin {"task", "aborted", "detached"}
        /\ attempt[q][u] = "inline" => Pending(q) = {}

\* Once clients are served the whole budget comes back, but for the permits of
\* queries that wait for an upstream without a timeout.
BudgetReturns ==
    <>[](permits + Cardinality({a \in Query \X (Upstream \ Timed) :
                                    attempt[a[1]][a[2]] = "inline"}) = MaxAttempts)

\* Every query ends, or waits for an upstream without a timeout.
QueriesEnd ==
    \A q \in Query : At(q, "race") ~>
        \/ query[q].pc \in {"answered", "servfail"}
        \/ \E u \in Upstream \ Timed : attempt[q][u] = "inline"

\* The comment in forward_hedged: an upstream whose race found no permit is
\* retried when a pending attempt completes and returns its own.
BlockedHedgeRetried ==
    [][\A q \in Query :
         /\ query[q].hedge = "blocked" /\ permits > 0
         /\ \E u \in Upstream : attempt[q][u] = "bad" /\ attempt'[q][u] = "failed"
         => TimeToStart(q)']_vars
=============================================================================
