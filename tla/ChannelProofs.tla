--------------------------- MODULE ChannelProofs ----------------------------
(***************************************************************************)
(* Proofs about Channel: any number of queries, connections and sleeps.    *)
(*                                                                         *)
(* The inductive invariant ties the mutex to the query that dials and says *)
(* that nothing is connected or cooling down behind its back (DialInv);    *)
(* that no query knows of a generation the slot has not reached (LeaseInv) *)
(* and that a query that tries again knows its first connection is gone    *)
(* (RetryInv).                                                             *)
(***************************************************************************)
EXTENDS Channel, TLAPS

\* The mutex belongs to the query that dials, the lost connection of a query
\* that tries again is gone, and nobody is ahead of the slot.
MutexInv == \A q \in Query : At(q, "dialing") <=> mutex = q
DialInv == mutex # Nobody => ~slot.live /\ ~slot.cooling
LeaseInv == \A q \in Query :
    query[q].pc \in {"sending", "failed"} => query[q].generation <= slot.generation
RetryInv == \A q \in Query : query[q].retried =>
    /\ ~At(q, "idle")
    /\ query[q].pc \in {"acquiring", "dialing"} => Retired(query[q].lost)
    /\ query[q].pc \in {"sending", "failed"} => query[q].generation > query[q].lost

IInv == TypeOK /\ MutexInv /\ DialInv /\ HealthyIsClean /\ LeaseInv /\ RetryInv

-----------------------------------------------------------------------------
(* The slot *)

\* What the operations on the slot return is a slot again.
LEMMA SlotOps ==
    ASSUME slot \in Slot, NEW g \in Nat
    PROVE  /\ Store \in Slot /\ Dropped \in Slot
           /\ Backoff(slot) \in Slot /\ Invalidated(g) \in Slot /\ Charged(g) \in Slot
<1>1. MaxShift \in Nat
  BY ChannelConstants
<1>2. \A s \in Slot : Backoff(s) \in Slot
  <2>. SUFFICES ASSUME NEW s \in Slot PROVE Backoff(s) \in Slot
    OBVIOUS
  <2>. DEFINE n == IF s.failures < MaxShift THEN s.failures + 1 ELSE s.failures
  <2>1. s.failures \in 0..MaxShift
    BY DEF Slot
  <2>2. n \in 0..MaxShift
    BY <1>1, <2>1
  <2>. HIDE DEF n
  <2>3. Backoff(s) = [s EXCEPT !.failures = n, !.cooling = TRUE]
    BY DEF Backoff, n
  <2>. QED
    BY <2>2, <2>3 DEF Slot
<1>3. Store \in Slot /\ Dropped \in Slot
  <2>1. slot.generation + 1 \in Nat /\ 0 \in 0..MaxShift
    BY <1>1 DEF Slot
  <2>2. Store \in Slot
    BY <2>1 DEF Store, Slot
  <2>. QED
    BY <2>2 DEF Dropped, Slot
<1>4. Invalidated(g) \in Slot
  BY DEF Invalidated, Slot
<1>. QED
  BY <1>2, <1>3, <1>4 DEF Charged

-----------------------------------------------------------------------------
(* Type correctness *)

\* The empty slot and the idle queries are typed (Slot::default).
LEMMA TypeInit == Init => TypeOK
<1>1. MaxShift \in Nat
  BY ChannelConstants
<1>2. [live |-> FALSE, generation |-> 0, failures |-> 0, cooling |-> FALSE] \in Slot
  <2>1. 0 \in 0..MaxShift
    BY <1>1
  <2>. QED
    BY <2>1 DEF Slot
<1>3. Idle \in Progress
  BY DEF Idle, Progress
<1>. SUFFICES ASSUME Init PROVE TypeOK
  OBVIOUS
<1>4. slot \in Slot /\ mutex \in Query \cup {Nobody}
  BY <1>2 DEF Init
<1>5. query \in [Query -> Progress]
  BY <1>3 DEF Init
<1>. QED
  BY <1>4, <1>5 DEF Init, TypeOK

\* Every step of a query, the timer and the host keeps the types.
LEMMA TypeNext == ASSUME TypeOK, [Next]_vars PROVE TypeOK'
<1>. timed \in BOOLEAN /\ timed' = timed
  BY DEF TypeOK, Next, vars
<1>1. ASSUME NEW q \in Query, QueryNext(q) PROVE TypeOK'
  <2>. /\ slot \in Slot /\ mutex \in Query \cup {Nobody}
       /\ query \in [Query -> Progress] /\ slept \in BOOLEAN /\ sleeps \in Nat
    BY DEF TypeOK
  <2>. query[q] \in Progress
    OBVIOUS
  <2>. query[q].generation \in Nat /\ slot.generation \in Nat
    BY DEF Progress, Slot
  <2>. /\ Store \in Slot /\ Dropped \in Slot /\ Backoff(slot) \in Slot
       /\ Invalidated(query[q].generation) \in Slot /\ Charged(query[q].generation) \in Slot
    BY SlotOps
  <2>. Idle \in Progress
    BY DEF Idle, Progress
  <2>1. CASE Begin(q)
    BY <2>1 DEF Begin, TypeOK, Progress
  <2>2. CASE LeaseReused(q)
    BY <2>2 DEF LeaseReused, Enter, TypeOK, Progress
  <2>3. CASE InCooldown(q)
    BY <2>3 DEF InCooldown, Enter, Finish, TypeOK
  <2>4. CASE StartDial(q)
    BY <2>4 DEF StartDial, Enter, TypeOK, Progress
  <2>5. CASE DialSucceeds(q)
    <3>. DEFINE g == slot.generation + 1
                p == [query[q] EXCEPT !.pc = "sending", !.reused = FALSE,
                                      !.generation = g]
    <3>1. p \in Progress
      <4>1. g \in Nat
        OBVIOUS
      <4>. HIDE DEF g
      <4>. QED
        BY <4>1 DEF Progress
    <3>2. query' = [query EXCEPT ![q] = p]
      BY <2>5 DEF DialSucceeds
    <3>. HIDE DEF p
    <3>. QED
      BY <2>5, <3>1, <3>2 DEF DialSucceeds, TypeOK
  <2>6. CASE DialFails(q)
    BY <2>6 DEF DialFails, Finish, TypeOK
  <2>7. CASE Answered(q)
    BY <2>7 DEF Answered, Finish, TypeOK
  <2>8. ASSUME NEW deadline \in BOOLEAN, SendFails(q, deadline) PROVE TypeOK'
    <3>. DEFINE p == [query[q] EXCEPT !.pc = "failed", !.deadline = deadline]
    <3>1. p \in Progress
      BY DEF Progress
    <3>2. query' = [query EXCEPT ![q] = p]
      BY <2>8 DEF SendFails
    <3>. QED
      BY <2>8, <3>1, <3>2 DEF SendFails, TypeOK
  <2>9. CASE GiveUp(q)
    BY <2>9 DEF GiveUp, Finish, TypeOK
  <2>10. CASE Redial(q)
    <3>. DEFINE p == [query[q] EXCEPT !.pc = "acquiring", !.retried = TRUE,
                                      !.lost = query[q].generation]
    <3>1. p \in Progress
      BY DEF Progress
    <3>2. query' = [query EXCEPT ![q] = p]
      BY <2>10 DEF Redial
    <3>. HIDE DEF p
    <3>. QED
      BY <2>10, <3>1, <3>2 DEF Redial, TypeOK
  <2>11. CASE Cancelled(q)
    BY <2>11 DEF Cancelled, Finish, TypeOK
  <2>. QED
    BY <1>1, <2>1, <2>2, <2>3, <2>4, <2>5, <2>6, <2>7, <2>8, <2>9, <2>10, <2>11
    DEF QueryNext, Acquire, DialEnds, SendEnds, HandleFailure
<1>2. CASE CooldownExpires
  BY <1>2 DEF CooldownExpires, TypeOK, Slot
<1>3. CASE HostSleeps
  BY <1>3 DEF HostSleeps, TypeOK
<1>4. CASE UNCHANGED vars
  BY <1>4 DEF vars, TypeOK
<1>. QED
  BY <1>1, <1>2, <1>3, <1>4 DEF Next

\* Spec keeps every variable of the channel in its type: the slot's failure
\* count stays within MAX_BACKOFF_SHIFT, the mutex belongs to a query.
THEOREM ChannelTypeCorrect == Spec => []TypeOK
<1>. QED
  BY TypeInit, TypeNext, PTL DEF Spec
-----------------------------------------------------------------------------
(* The inductive invariant *)

\* What is retired stays retired: generations only grow.
LEMMA RetiredStays ==
    ASSUME TypeOK, [Next]_vars, NEW g \in Nat, Retired(g) PROVE Retired(g)'
<1>1. slot' = slot \/ slot' = Store \/ slot' = Dropped
      \/ slot' = Backoff(slot) \/ slot' = [slot EXCEPT !.cooling = FALSE]
      \/ \E q \in Query : slot' = Charged(query[q].generation)
                         \/ slot' = Invalidated(query[q].generation)
  BY DEF Next, QueryNext, Begin, Acquire, LeaseReused, InCooldown, StartDial, DialEnds,
         DialSucceeds, DialFails, SendEnds, Answered, SendFails, HandleFailure, GiveUp,
         Redial, Cancelled, CooldownExpires, HostSleeps, vars
<1>2. \/ slot'.generation = slot.generation /\ (slot'.live => slot.live)
      \/ slot' = Store
  BY <1>1 DEF Dropped, Backoff, Charged, Invalidated, TypeOK, Slot
<1>3. slot'.generation = slot.generation + 1 \/ slot' # Store
  BY DEF Store
<1>. QED
  BY <1>2, <1>3 DEF Retired, TypeOK, Slot

\* Only the query that dials holds the mutex (the guard in acquire), and it
\* gives it up on every way out: answer, error and cancellation.
LEMMA MutexNext == ASSUME TypeOK, MutexInv, [Next]_vars PROVE MutexInv'
<1>1. ASSUME NEW q \in Query, QueryNext(q) PROVE MutexInv'
  <2>. \A r \in Query : r # q => query'[r] = query[r]
    BY <1>1 DEF QueryNext, Begin, Acquire, LeaseReused, InCooldown, StartDial, DialEnds,
         DialSucceeds, DialFails, SendEnds, Answered, SendFails, HandleFailure, GiveUp,
         Redial, Cancelled, Finish, TypeOK
  <2>. Nobody \notin Query
    BY ChannelConstants
  <2>1. CASE Begin(q) \/ LeaseReused(q) \/ InCooldown(q) \/ Answered(q)
    BY <2>1 DEF Begin, LeaseReused, InCooldown, Answered, Enter, Finish, Idle,
                At, MutexInv, TypeOK, Progress
  <2>2. CASE StartDial(q)
    BY <2>2 DEF StartDial, Enter, At, MutexInv, TypeOK, Progress
  <2>3. CASE DialSucceeds(q)
    BY <2>3 DEF DialSucceeds, At, MutexInv, TypeOK, Progress
  <2>4. CASE DialFails(q)
    BY <2>4 DEF DialFails, Finish, Idle, At, MutexInv, TypeOK, Progress
  <2>5. CASE \E deadline \in BOOLEAN : SendFails(q, deadline)
    BY <2>5 DEF SendFails, At, MutexInv, TypeOK, Progress
  <2>6. CASE GiveUp(q) \/ Redial(q)
    BY <2>6 DEF GiveUp, Redial, Finish, Idle, At, MutexInv, TypeOK, Progress
  <2>7. CASE Cancelled(q)
    BY <2>7 DEF Cancelled, Finish, Idle, At, MutexInv, TypeOK, Progress
  <2>. QED
    BY <1>1, <2>1, <2>2, <2>3, <2>4, <2>5, <2>6, <2>7
    DEF QueryNext, Acquire, DialEnds, SendEnds, HandleFailure
<1>2. CASE CooldownExpires \/ HostSleeps \/ UNCHANGED vars
  BY <1>2 DEF CooldownExpires, HostSleeps, vars, MutexInv, At
<1>. QED
  BY <1>1, <1>2 DEF Next

\* What a step of query q does not touch.
LEMMA OthersKept ==
    ASSUME TypeOK, NEW q \in Query, QueryNext(q), NEW r \in Query, r # q
    PROVE  query'[r] = query[r]
  BY DEF QueryNext, Begin, Acquire, LeaseReused, InCooldown, StartDial, DialEnds,
         DialSucceeds, DialFails, SendEnds, Answered, SendFails, HandleFailure, GiveUp,
         Redial, Cancelled, Finish, TypeOK

\* A failure charged to the slot leaves it without a connection, or unchanged.
LEMMA ChargedSlot ==
    ASSUME TypeOK, NEW g \in Nat
    PROVE  /\ Charged(g) = slot \/ (Current(g) /\ ~Charged(g).live)
           /\ Charged(g).generation = slot.generation
           /\ Invalidated(g) = slot \/ (Current(g) /\ Invalidated(g) = Dropped)
  BY DEF Charged, Invalidated, Current, Backoff, Dropped, TypeOK, Slot

\* Nothing connects or cools down behind the back of the query that dials, and
\* a live connection has a clean record.
LEMMA DialNext == ASSUME IInv, [Next]_vars PROVE DialInv' /\ HealthyIsClean'
<1>. TypeOK /\ MutexInv /\ DialInv /\ HealthyIsClean
  BY DEF IInv
<1>1. ASSUME NEW q \in Query, QueryNext(q) PROVE DialInv' /\ HealthyIsClean'
  <2>. Nobody \notin Query
    BY ChannelConstants
  <2>. query[q].generation \in Nat
    BY DEF TypeOK, Progress
  <2>1. CASE Begin(q) \/ LeaseReused(q) \/ Answered(q)
             \/ \E deadline \in BOOLEAN : SendFails(q, deadline)
    BY <2>1 DEF Begin, LeaseReused, Answered, SendFails, Enter, DialInv, HealthyIsClean
  <2>2. CASE InCooldown(q)
    BY <2>2 DEF InCooldown, Enter, Dropped, DialInv, HealthyIsClean, TypeOK, Slot
  <2>3. CASE StartDial(q)
    BY <2>3 DEF StartDial, Enter, Dropped, DialInv, HealthyIsClean, TypeOK, Slot
  <2>4. CASE DialSucceeds(q)
    BY <2>4 DEF DialSucceeds, Store, DialInv, HealthyIsClean
  <2>5. CASE DialFails(q)
    <3>1. ~slot.live
      BY <2>5 DEF DialFails, MutexInv, DialInv
    <3>. QED
      BY <2>5, <3>1 DEF DialFails, Backoff, DialInv, HealthyIsClean, TypeOK, Slot
  <2>6. CASE GiveUp(q)
    BY <2>6, ChargedSlot DEF GiveUp, DialInv, HealthyIsClean
  <2>7. CASE Redial(q)
    BY <2>7, ChargedSlot DEF Redial, Dropped, DialInv, HealthyIsClean, TypeOK, Slot
  <2>8. CASE Cancelled(q)
    BY <2>8 DEF Cancelled, DialInv, HealthyIsClean
  <2>. QED
    BY <1>1, <2>1, <2>2, <2>3, <2>4, <2>5, <2>6, <2>7, <2>8
    DEF QueryNext, Acquire, DialEnds, SendEnds, HandleFailure
<1>2. CASE CooldownExpires
  BY <1>2 DEF CooldownExpires, DialInv, HealthyIsClean, TypeOK, Slot
<1>3. CASE HostSleeps \/ UNCHANGED vars
  BY <1>3 DEF HostSleeps, vars, DialInv, HealthyIsClean
<1>. QED
  BY <1>1, <1>2, <1>3 DEF Next

\* The slot's generation never goes back.
LEMMA GenerationGrows ==
    ASSUME TypeOK, [Next]_vars PROVE slot.generation <= slot'.generation
<1>1. ASSUME NEW q \in Query, QueryNext(q) PROVE slot.generation <= slot'.generation
  <2>. query[q].generation \in Nat
    BY DEF TypeOK, Progress
  <2>1. \/ slot' = slot \/ slot' = Store \/ slot' = Dropped \/ slot' = Backoff(slot)
        \/ slot' = Charged(query[q].generation) \/ slot' = Invalidated(query[q].generation)
    BY <1>1 DEF QueryNext, Begin, Acquire, LeaseReused, InCooldown, StartDial, DialEnds,
         DialSucceeds, DialFails, SendEnds, Answered, SendFails, HandleFailure, GiveUp,
         Redial, Cancelled
  <2>2. slot'.generation \in {slot.generation, slot.generation + 1}
    <3>. slot \in Slot /\ slot.generation \in Nat
      BY DEF TypeOK, Slot
    <3>1. \/ slot' = slot \/ slot' = Store \/ slot' = Dropped \/ slot' = Backoff(slot)
          \/ slot'.generation = slot.generation
      BY <2>1, ChargedSlot DEF Dropped, Slot
    <3>2. Store.generation = slot.generation + 1
      BY DEF Store
    <3>3. Dropped.generation = slot.generation /\ Backoff(slot).generation = slot.generation
      BY DEF Dropped, Backoff, Slot
    <3>. QED
      BY <3>1, <3>2, <3>3
  <2>. QED
    BY <2>2 DEF TypeOK, Slot
<1>2. CASE CooldownExpires
  BY <1>2 DEF CooldownExpires, TypeOK, Slot
<1>3. CASE HostSleeps \/ UNCHANGED vars
  BY <1>3 DEF HostSleeps, vars, TypeOK, Slot
<1>. QED
  BY <1>1, <1>2, <1>3 DEF Next

\* No query holds a lease newer than the slot.
LEMMA LeaseNext == ASSUME IInv, [Next]_vars PROVE LeaseInv'
<1>. TypeOK /\ LeaseInv
  BY DEF IInv
<1>. slot.generation <= slot'.generation /\ slot.generation \in Nat /\ slot'.generation \in Nat
  BY GenerationGrows, TypeNext DEF TypeOK, Slot
<1>. SUFFICES ASSUME NEW r \in Query, query'[r].pc \in {"sending", "failed"}
              PROVE  query'[r].generation <= slot'.generation
  BY DEF LeaseInv
<1>. query[r] \in Progress /\ query[r].generation \in Nat
  BY DEF TypeOK, Progress
<1>1. CASE query'[r] = query[r]
  BY <1>1 DEF LeaseInv
<1>2. CASE QueryNext(r)
  <2>1. CASE LeaseReused(r)
    BY <2>1 DEF LeaseReused, TypeOK, Progress
  <2>2. CASE DialSucceeds(r)
    BY <2>2 DEF DialSucceeds, Store, TypeOK, Progress
  <2>3. CASE \E deadline \in BOOLEAN : SendFails(r, deadline)
    BY <2>3 DEF SendFails, At, LeaseInv, TypeOK, Progress
  <2>4. CASE Begin(r) \/ InCooldown(r) \/ StartDial(r) \/ DialFails(r) \/ Answered(r)
             \/ GiveUp(r) \/ Redial(r) \/ Cancelled(r)
    BY <2>4 DEF Begin, InCooldown, StartDial, DialFails, Answered, GiveUp, Redial,
                Cancelled, Finish, Idle, TypeOK, Progress
  <2>. QED
    BY <1>2, <2>1, <2>2, <2>3, <2>4 DEF QueryNext, Acquire, DialEnds, SendEnds, HandleFailure
<1>3. CASE CooldownExpires \/ HostSleeps \/ UNCHANGED vars
  BY <1>1, <1>3 DEF CooldownExpires, HostSleeps, vars
<1>. QED
  BY <1>1, <1>2, <1>3, OthersKept DEF Next

\* A query that redials knows its first connection to be gone, and gets a later
\* one.
LEMMA RetryNext == ASSUME IInv, [Next]_vars PROVE RetryInv'
<1>. TypeOK /\ LeaseInv /\ RetryInv
  BY DEF IInv
<1>. slot \in Slot /\ slot.generation \in Nat /\ slot.live \in BOOLEAN
  BY DEF TypeOK, Slot
<1>. SUFFICES ASSUME NEW r \in Query, query'[r].retried
              PROVE  /\ query'[r].pc # "idle"
                     /\ query'[r].pc \in {"acquiring", "dialing"} =>
                           \/ query'[r].lost < slot'.generation
                           \/ query'[r].lost = slot'.generation /\ ~slot'.live
                     /\ query'[r].pc \in {"sending", "failed"}
                           => query'[r].generation > query'[r].lost
  BY DEF RetryInv, Retired, At
<1>. query[r] \in Progress /\ query[r].generation \in Nat /\ query[r].lost \in Nat
  BY DEF TypeOK, Progress
<1>0. \A g \in Nat : Retired(g) => Retired(g)'
  BY RetiredStays
<1>1. CASE query'[r] = query[r]
  BY <1>0, <1>1 DEF RetryInv, Retired, At
<1>2. CASE QueryNext(r)
  <2>1. CASE LeaseReused(r)
    <3>1. query'[r].lost = query[r].lost /\ query[r].retried /\ query'[r].pc = "sending"
          /\ query'[r].generation = slot.generation /\ query[r].pc = "acquiring" /\ slot.live
      BY <2>1 DEF LeaseReused, Lendable, Enter, At, TypeOK, Progress
    <3>2. query[r].lost < slot.generation
      BY <3>1 DEF RetryInv, Retired
    <3>. QED
      BY <3>1, <3>2
  <2>2. CASE DialSucceeds(r)
    <3>1. query'[r].lost = query[r].lost /\ query[r].retried /\ query'[r].pc = "sending"
          /\ query'[r].generation = slot.generation + 1 /\ query[r].pc = "dialing"
      BY <2>2 DEF DialSucceeds, At, TypeOK, Progress
    <3>2. query[r].lost <= slot.generation
      BY <3>1 DEF RetryInv, Retired
    <3>. QED
      BY <3>1, <3>2
  <2>3. CASE \E deadline \in BOOLEAN : SendFails(r, deadline)
    BY <2>3 DEF SendFails, At, RetryInv, TypeOK, Progress
  <2>4. CASE Redial(r)
    <3>1. query'[r].lost = query[r].generation /\ query'[r].pc = "acquiring"
      BY <2>4 DEF Redial, TypeOK, Progress
    <3>2. query[r].generation <= slot.generation
      BY <2>4 DEF Redial, At, LeaseInv
    <3>3. slot' = Invalidated(query[r].generation)
      BY <2>4 DEF Redial
    <3>4. \/ query[r].generation < slot'.generation
          \/ query[r].generation = slot'.generation /\ ~slot'.live
      BY <3>2, <3>3 DEF Current, Invalidated, Slot
    <3>. QED
      BY <3>1, <3>4
  <2>5. CASE StartDial(r)
    <3>1. query'[r].lost = query[r].lost /\ query[r].retried
          /\ query'[r].pc = "dialing" /\ query[r].pc = "acquiring"
      BY <2>5 DEF StartDial, Enter, At, TypeOK, Progress
    <3>. QED
      BY <1>0, <3>1 DEF RetryInv, Retired
  <2>7. CASE Begin(r)
    BY <2>7 DEF Begin, RetryInv, TypeOK, Progress
  <2>6. CASE InCooldown(r) \/ DialFails(r) \/ Answered(r) \/ GiveUp(r) \/ Cancelled(r)
    BY <2>6 DEF InCooldown, DialFails, Answered, GiveUp, Cancelled, Finish, Idle, TypeOK
  <2>. QED
    BY <1>2, <2>1, <2>2, <2>3, <2>4, <2>5, <2>6, <2>7
    DEF QueryNext, Acquire, DialEnds, SendEnds, HandleFailure
<1>3. CASE CooldownExpires \/ HostSleeps \/ UNCHANGED vars
  BY <1>1, <1>3 DEF CooldownExpires, HostSleeps, vars
<1>. QED
  BY <1>1, <1>2, <1>3, OthersKept DEF Next

\* The invariant holds initially.
LEMMA InvInit == Init => IInv
  BY TypeInit, ChannelConstants
  DEF Init, IInv, MutexInv, DialInv, HealthyIsClean, LeaseInv, RetryInv, At, Idle

\* The inductive invariant holds throughout.
THEOREM ChannelInvariance == Spec => []IInv
<1>1. IInv /\ [Next]_vars => IInv'
  BY TypeNext, MutexNext, DialNext, LeaseNext, RetryNext DEF IInv
<1>. QED
  BY InvInit, <1>1, PTL DEF Spec

-----------------------------------------------------------------------------
(* The properties *)

\* A retried query sends on a younger connection than the one that failed it.
THEOREM RetriesAreFresh == Spec => []RetryIsFresh
<1>1. IInv => RetryIsFresh
  BY DEF IInv, RetryInv, RetryIsFresh, At
<1>. QED
  BY <1>1, ChannelInvariance, PTL

\* A live connection has no failures on record and no cooldown.
THEOREM HealthyStaysClean == Spec => []HealthyIsClean
<1>1. IInv => HealthyIsClean
  BY DEF IInv
<1>. QED
  BY <1>1, ChannelInvariance, PTL

\* A failure reaches the slot exactly when it is about the current connection.
THEOREM FailuresAreAccounted == Spec => FailuresAccounted
<1>1. ASSUME IInv, [Next]_vars, NEW q \in Query, At(q, "failed"), query'[q].pc # "failed"
      PROVE  IF Retired(query[q].generation) THEN UNCHANGED slot ELSE ~slot'.live
  <2>. TypeOK /\ DialInv /\ LeaseInv
    BY <1>1 DEF IInv
  <2>. slot \in Slot /\ slot.generation \in Nat /\ query[q].generation \in Nat
    BY DEF TypeOK, Slot, Progress
  <2>1. query[q].generation <= slot.generation
    BY <1>1 DEF LeaseInv, At
  <2>2. Retired(query[q].generation) <=> ~Current(query[q].generation)
    BY <2>1 DEF Retired, Current
  <2>3. GiveUp(q) \/ Redial(q) \/ Cancelled(q)
    <3>1. QueryNext(q)
      BY <1>1, OthersKept DEF Next, CooldownExpires, HostSleeps, vars, At
    <3>. QED
      BY <1>1, <3>1 DEF QueryNext, Begin, Acquire, LeaseReused, InCooldown, StartDial, Enter,
         DialEnds, DialSucceeds, DialFails, SendEnds, Answered, SendFails, HandleFailure, At
  <2>4. CASE GiveUp(q)
    <3>1. slot' = Charged(query[q].generation)
      BY <2>4 DEF GiveUp
    <3>2. CASE Current(query[q].generation)
      BY <2>2, <3>1, <3>2 DEF Charged, Invalidated, Backoff, Slot
    <3>3. CASE ~Current(query[q].generation)
      BY <2>2, <3>1, <3>3 DEF Charged
    <3>. QED
      BY <3>2, <3>3
  <2>5. CASE Redial(q)
    BY <2>2, <2>5, ChargedSlot DEF Redial, Dropped, Invalidated
  <2>6. CASE Cancelled(q)
    BY <1>1, <2>2, <2>6 DEF Cancelled, At, DialInv, Current
  <2>. QED
    BY <2>3, <2>4, <2>5, <2>6
<1>2. IInv /\ [Next]_vars =>
        [\A q \in Query : At(q, "failed") /\ query'[q].pc # "failed" =>
          IF Retired(query[q].generation) THEN UNCHANGED slot ELSE ~slot'.live]_vars
  BY <1>1
<1>. QED
  BY <1>2, ChannelInvariance, PTL DEF Spec, FailuresAccounted

\* Every step of the channel is a step of the abstract slot or none.
THEOREM ImplementsConnection == Spec => KeepsPromise
<1>1. Init => Promise!Init
  BY DEF Init, Promise!Init, Status
<1>2. ASSUME IInv, [Next]_vars PROVE [Promise!Next]_(Promise!vars)
  <2>. TypeOK /\ MutexInv /\ DialInv /\ HealthyIsClean
    BY <1>2 DEF IInv
  <2>. slot \in Slot /\ slot.generation \in Nat /\ slot.live \in BOOLEAN
       /\ slot.cooling \in BOOLEAN
    BY DEF TypeOK, Slot
  <2>. USE DEF Promise!Next, Promise!vars
  <2>1. CASE UNCHANGED slot
    BY <2>1 DEF Status
  <2>2. CASE slot' = Dropped
    BY <2>2 DEF Dropped, Promise!Drop, Status, HealthyIsClean, Slot
  <2>3. ASSUME slot.live \/ ~slot.cooling, slot' = Backoff(Dropped)
        PROVE  Promise!DialFails \/ Promise!ConnectionFails
    BY <2>3 DEF Backoff, Dropped, Promise!DialFails, Promise!ConnectionFails, Promise!Fails, Status, Slot
  <2>4. CASE slot' = Store /\ ~slot.live /\ ~slot.cooling
    BY <2>4 DEF Store, Promise!Open, Status
  <2>5. CASE CooldownExpires
    BY <2>5 DEF CooldownExpires, Promise!CooldownExpires, Status, HealthyIsClean, Slot
  <2>6. ASSUME NEW q \in Query, QueryNext(q)
        PROVE  \/ UNCHANGED slot \/ slot' = Dropped
               \/ slot' = Store /\ ~slot.live /\ ~slot.cooling
               \/ /\ slot.live \/ ~slot.cooling
                  /\ slot' = Backoff(Dropped)
    <3>. query[q].generation \in Nat /\ Nobody \notin Query
      BY ChannelConstants DEF TypeOK, Progress
    <3>1. CASE Begin(q) \/ LeaseReused(q) \/ Answered(q) \/ Cancelled(q)
               \/ \E deadline \in BOOLEAN : SendFails(q, deadline)
      BY <3>1 DEF Begin, LeaseReused, Answered, Cancelled, SendFails
    <3>2. CASE InCooldown(q) \/ StartDial(q)
      BY <3>2 DEF InCooldown, StartDial
    <3>3. CASE DialSucceeds(q) \/ DialFails(q)
      <4>1. ~slot.live /\ ~slot.cooling
        BY <3>3 DEF DialSucceeds, DialFails, MutexInv, DialInv
      <4>2. slot = Dropped
        BY <4>1 DEF Dropped, Slot
      <4>. QED
        BY <3>3, <4>1, <4>2 DEF DialSucceeds, DialFails
    <3>4. CASE Redial(q)
      BY <3>4, ChargedSlot DEF Redial
    <3>5. CASE GiveUp(q)
      <4>1. CASE Current(query[q].generation)
        BY <3>5, <4>1 DEF GiveUp, Charged, Current, Invalidated, Dropped
      <4>2. CASE ~Current(query[q].generation)
        BY <3>5, <4>2 DEF GiveUp, Charged
      <4>. QED
        BY <4>1, <4>2
    <3>. QED
      BY <2>6, <3>1, <3>2, <3>3, <3>4, <3>5
      DEF QueryNext, Acquire, DialEnds, SendEnds, HandleFailure
  <2>7. CASE HostSleeps \/ UNCHANGED vars
    BY <2>1, <2>7 DEF HostSleeps, vars
  <2>. QED
    BY <1>2, <2>1, <2>2, <2>3, <2>4, <2>5, <2>6, <2>7 DEF Next
<1>. QED
  BY <1>1, <1>2, ChannelInvariance, PTL DEF Spec, KeepsPromise, Promise!Spec
=============================================================================
