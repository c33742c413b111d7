------------------------------ MODULE Channel -------------------------------
(***************************************************************************)
(* An encrypted upstream (upstream/encrypted.rs): queries that share one   *)
(* multiplexed connection through a generation-tracked slot behind an      *)
(* async mutex.                                                            *)
(*                                                                         *)
(* The runtime has one thread: code between two awaits is one step.  A     *)
(* query holds the mutex across an await only while it resolves and dials; *)
(* every other critical section is a single step taken when the mutex is   *)
(* free.  Deadlines, network outcomes, sleeps of the host and the end of a *)
(* cooldown come at any time.  Candidate addresses are dialed in order     *)
(* without touching the slot, so only the outcome of the loop is a step.   *)
(***************************************************************************)
EXTENDS Naturals

CONSTANTS Query,         \* queries in progress at the same time
          Nobody,        \* not a query: the mutex is free
          MaxShift,      \* MAX_BACKOFF_SHIFT: more failures count as that many
          MaxGeneration, \* bound on connections
          MaxSleeps      \* bound on sleeps of the host

ASSUME ChannelConstants ==
    /\ Nobody \notin Query
    /\ {MaxShift, MaxGeneration, MaxSleeps} \subseteq Nat

VARIABLES timed,  \* the upstream has a timeout (timeout > 0); never changes
          slot,   \* Slot: the connection, its generation, failures, cooldown
          mutex,  \* the query that holds the slot across an await
          query,  \* progress of each query
          slept,  \* the host slept since the slot was last used
          sleeps

vars == <<timed, slot, mutex, query, slept, sleeps>>

Slot == [live : BOOLEAN, generation : Nat, failures : 0..MaxShift, cooling : BOOLEAN]

\* "failed" waits for the mutex with the error of its lease; "lost" is the
\* generation of the lease whose failure made the query try again.
Progress == [pc : {"idle", "acquiring", "dialing", "sending", "failed"},
             generation : Nat, reused : BOOLEAN, retried : BOOLEAN,
             deadline : BOOLEAN, lost : Nat]

Idle == [pc |-> "idle", generation |-> 0, reused |-> FALSE, retried |-> FALSE,
         deadline |-> FALSE, lost |-> 0]

TypeOK == /\ timed \in BOOLEAN
          /\ slot \in Slot
          /\ mutex \in Query \cup {Nobody}
          /\ query \in [Query -> Progress]
          /\ slept \in BOOLEAN
          /\ sleeps \in Nat

-----------------------------------------------------------------------------
(* The slot *)

\* Mutation of Store: a success does not end the backoff.
StoreBackedOff == [slot EXCEPT !.live = TRUE, !.generation = @ + 1]

Store == [live |-> TRUE, generation |-> slot.generation + 1,
          failures |-> 0, cooling |-> FALSE]

Backoff(s) == [s EXCEPT !.failures = IF @ < MaxShift THEN @ + 1 ELSE @,
                        !.cooling = TRUE]

\* Mutation of Current: the generation is not compared.
CurrentAny(g) == slot.live

\* The failed lease is the current connection, and it is still there.
Current(g) == slot.live /\ slot.generation = g
\* Mutation of Invalidated: the failed connection stays in the slot.
InvalidatedNever(g) == slot

Invalidated(g) == IF Current(g) THEN [slot EXCEPT !.live = FALSE] ELSE slot

\* Mutation of Charged: failures of superseded leases count too.
ChargedAlways(g) == Backoff(Invalidated(g))

\* A failure that is not followed by a redial counts against the upstream,
\* unless its connection was replaced or dropped already.
Charged(g) == IF Current(g) THEN Backoff(Invalidated(g)) ELSE slot

-----------------------------------------------------------------------------
(* Steps of a query *)

At(q, pc) == query[q].pc = pc
Finish(q) == query' = [query EXCEPT ![q] = Idle]

Begin(q) ==
    /\ At(q, "idle")
    /\ query' = [query EXCEPT ![q].pc = "acquiring"]
    /\ UNCHANGED <<slot, mutex, slept, sleeps>>

\* The critical section at the start of acquire.  It notes the time of use,
\* which makes an earlier sleep history.
Enter(q) == At(q, "acquiring") /\ mutex = Nobody /\ slept' = FALSE /\ UNCHANGED sleeps

\* A connection from before a sleep is dropped without blame.
Lendable == slot.live /\ ~slept
Dropped == [slot EXCEPT !.live = FALSE]

LeaseReused(q) ==
    /\ Enter(q) /\ Lendable
    /\ query' = [query EXCEPT ![q].pc = "sending", ![q].reused = TRUE,
                              ![q].generation = slot.generation]
    /\ UNCHANGED <<slot, mutex>>

InCooldown(q) ==
    /\ Enter(q) /\ ~Lendable
    /\ slot.cooling
    /\ slot' = Dropped /\ Finish(q)
    /\ UNCHANGED mutex

StartDial(q) ==
    /\ Enter(q) /\ ~Lendable
    /\ ~slot.cooling
    /\ slot' = Dropped /\ mutex' = q
    /\ query' = [query EXCEPT ![q].pc = "dialing"]

DialSucceeds(q) ==
    /\ At(q, "dialing") /\ slot.generation < MaxGeneration
    /\ slot' = Store /\ mutex' = Nobody
    /\ query' = [query EXCEPT ![q].pc = "sending", ![q].reused = FALSE,
                              ![q].generation = slot.generation + 1]
    /\ slept' = FALSE /\ UNCHANGED sleeps

\* Mutation of DialFails: the guard of the mutex is leaked.
DialFailsLocked(q) ==
    /\ At(q, "dialing")
    /\ slot' = Backoff(slot) /\ Finish(q)
    /\ UNCHANGED <<mutex, slept, sleeps>>

\* The bootstrap lookup failed, or every candidate address did.
DialFails(q) ==
    /\ At(q, "dialing")
    /\ slot' = Backoff(slot) /\ mutex' = Nobody /\ Finish(q)
    /\ UNCHANGED <<slept, sleeps>>

Answered(q) ==
    /\ At(q, "sending") /\ Finish(q)
    /\ UNCHANGED <<slot, mutex, slept, sleeps>>

SendFails(q, deadline) ==
    /\ At(q, "sending")
    /\ deadline => timed
    /\ query' = [query EXCEPT ![q].pc = "failed", ![q].deadline = deadline]
    /\ UNCHANGED <<slot, mutex, slept, sleeps>>

\* A query tries again once, after a transport error of a reused lease, if
\* enough of its budget remains.
MayRedial(q) == query[q].reused /\ ~query[q].retried /\ ~query[q].deadline

GiveUp(q) ==
    /\ At(q, "failed") /\ mutex = Nobody
    /\ timed \/ ~MayRedial(q)
    /\ slot' = Charged(query[q].generation)
    /\ Finish(q)
    /\ UNCHANGED <<mutex, slept, sleeps>>

\* Mutation of Redial: the guard is still held when the query acquires again.
RedialLocked(q) ==
    /\ At(q, "failed") /\ mutex = Nobody
    /\ MayRedial(q)
    /\ slot' = Invalidated(query[q].generation) /\ mutex' = q
    /\ query' = [query EXCEPT ![q].pc = "acquiring", ![q].retried = TRUE,
                              ![q].lost = query[q].generation]
    /\ UNCHANGED <<slept, sleeps>>

Redial(q) ==
    /\ At(q, "failed") /\ mutex = Nobody
    /\ MayRedial(q)
    /\ slot' = Invalidated(query[q].generation)
    /\ query' = [query EXCEPT ![q].pc = "acquiring", ![q].retried = TRUE,
                              ![q].lost = query[q].generation]
    /\ UNCHANGED <<mutex, slept, sleeps>>

\* The manager's outer timeout, 250 ms after the deadline, drops the query at
\* the await it is stopped at.  While it sends, its own deadline comes first;
\* when the mutex is free it is polled within those 250 ms.
Cancelled(q) ==
    /\ timed
    /\ At(q, "dialing") \/ (query[q].pc \in {"acquiring", "failed"} /\ mutex # Nobody)
    /\ mutex' = IF mutex = q THEN Nobody ELSE mutex
    /\ Finish(q)
    /\ UNCHANGED <<slot, slept, sleeps>>

-----------------------------------------------------------------------------
(* Time *)

CooldownExpires ==
    /\ slot.cooling
    /\ slot' = [slot EXCEPT !.cooling = FALSE]
    /\ UNCHANGED <<mutex, query, slept, sleeps>>

HostSleeps ==
    /\ sleeps < MaxSleeps /\ sleeps' = sleeps + 1
    /\ slept' = TRUE
    /\ UNCHANGED <<slot, mutex, query>>

-----------------------------------------------------------------------------
(* Specification *)

Init == /\ timed \in BOOLEAN
        /\ slot = [live |-> FALSE, generation |-> 0, failures |-> 0, cooling |-> FALSE]
        /\ mutex = Nobody /\ query = [q \in Query |-> Idle]
        /\ slept = FALSE /\ sleeps = 0

Acquire(q) == LeaseReused(q) \/ InCooldown(q) \/ StartDial(q)
DialEnds(q) == DialSucceeds(q) \/ DialFails(q)
SendEnds(q) == Answered(q) \/ \E deadline \in BOOLEAN : SendFails(q, deadline)
HandleFailure(q) == GiveUp(q) \/ Redial(q)

QueryNext(q) == Begin(q) \/ Acquire(q) \/ DialEnds(q) \/ SendEnds(q)
                \/ HandleFailure(q) \/ Cancelled(q)

Next == /\ (\E q \in Query : QueryNext(q)) \/ CooldownExpires \/ HostSleeps
        /\ UNCHANGED timed

Spec == Init /\ [][Next]_vars

steps == <<slot, mutex, query, slept, sleeps>>

\* Every dial is bounded (by CONNECT_TIMEOUT if by nothing else) and the
\* mutex serves its waiters in order.  A send ends only if it has a deadline;
\* nothing makes clients ask again, servers answer or hosts sleep.
Fairness ==
    \A q \in Query : /\ WF_steps(DialEnds(q))
                     /\ SF_steps(Acquire(q)) /\ SF_steps(HandleFailure(q))
                     /\ WF_steps(timed /\ SendEnds(q))

FairSpec == Spec /\ Fairness

-----------------------------------------------------------------------------
(* Properties *)

\* The connection of this generation is gone and will not come back.
Retired(g) == g < slot.generation \/ (g = slot.generation /\ ~slot.live)

Status == IF slot.live THEN "live" ELSE IF slot.cooling THEN "cooling" ELSE "empty"
Promise == INSTANCE Connection WITH generation <- slot.generation,
                                    status <- Status, failures <- slot.failures

\* The channel implements the abstract slot: no dial during a cooldown or
\* next to a live connection, and one outage noticed by many queries doubles
\* the backoff once, whatever cancellations and stale failures do
\* (encrypted.rs: acquire, invalidate, backoff).
KeepsPromise == Promise!Spec

\* A query's failure reaches the slot exactly when it is about the current
\* connection: a late failure of a superseded lease tears down nothing and
\* charges nobody, and no failure of the current connection is dropped, by
\* a cancellation for instance.
FailuresAccounted ==
    [][\A q \in Query : At(q, "failed") /\ query'[q].pc # "failed" =>
          IF Retired(query[q].generation) THEN UNCHANGED slot ELSE ~slot'.live]_vars

\* A query that tries again never does so on the connection that failed it.
RetryIsFresh ==
    \A q \in Query : At(q, "sending") /\ query[q].retried =>
                         query[q].generation > query[q].lost

\* A connection that works has no failure on record: one success ends the
\* backoff of everyone (store), and nobody starts one behind it.
HealthyIsClean == slot.live => slot.failures = 0 /\ ~slot.cooling

\* Nobody waits for the slot forever, the query that retries included, which
\* must have let go of the mutex before it acquires again.
AcquireEnds == \A q \in Query : At(q, "acquiring") ~> ~At(q, "acquiring")

\* With a timeout, every query ends.
QueriesEnd == timed => \A q \in Query : ~At(q, "idle") ~> At(q, "idle")
=============================================================================
