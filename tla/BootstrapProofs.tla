--------------------------- MODULE BootstrapProofs --------------------------
(***************************************************************************)
(* Safety of hostname resolution for any number of callers and keys.  The  *)
(* refresh lock is held exactly while a lookup of its key is in flight,    *)
(* whoever started it; everything else follows step by step.               *)
(***************************************************************************)
EXTENDS Bootstrap, TLAPS

\* The lock and the lookups of a key agree.
LockedWhileLooking == \A k \in Key : lookups[k] = IF held[k] THEN 1 ELSE 0

\* A caller that awaits a lookup keeps its key locked: only the end of the
\* lookup, which answers the caller, unlocks it.
AwaitsTheHolder == \A c \in Caller : caller[c].pc = "refreshing" => held[caller[c].key]

Inv == TypeOK /\ LockedWhileLooking /\ AwaitsTheHolder

\* The initial states are typed, with every lock free and nothing in flight.
LEMMA InitInv == Init => Inv
<1> SUFFICES ASSUME Init PROVE Inv
  OBVIOUS
<1>1. TypeOK
  BY DEF Init, TypeOK, Slot, Progress
<1>2. LockedWhileLooking /\ AwaitsTheHolder
  BY DEF Init, LockedWhileLooking, AwaitsTheHolder
<1> QED
  BY <1>1, <1>2 DEF Inv

\* What the operators on a slot return.
LEMMA SlotTypes ==
  ASSUME NEW s \in Slot, NEW found \in BOOLEAN
  PROVE  /\ Planned(s) \in Slot
         /\ Recorded(s, found) \in Slot
         /\ Reply(s) \in {"addresses", "error"}
  BY DEF Slot, Planned, Recorded, Reply, Servable

\* A step that starts a lookup for a caller takes a lock nobody held.
LEMMA StartInv ==
  ASSUME Inv, NEW c \in Caller, NEW k \in Key, ~held[k], Plan(k), StartLookup(c, k)
  PROVE  Inv'
<1>1. TypeOK'
  BY SlotTypes DEF Inv, TypeOK, Plan, StartLookup, Goto, Progress
<1>2. LockedWhileLooking'
  BY DEF Inv, TypeOK, LockedWhileLooking, StartLookup
<1>3. AwaitsTheHolder'
  BY DEF Inv, TypeOK, AwaitsTheHolder, StartLookup, Goto, Progress
<1> QED
  BY <1>1, <1>2, <1>3 DEF Inv

\* A step that moves a caller without giving it a lookup changes no lock.
LEMMA GotoInv ==
  ASSUME Inv, NEW c \in Caller, NEW k \in Key,
         NEW pc \in {"idle", "waiting", "addresses", "error"},
         Goto(c, k, pc), slot' \in [Key -> Slot], UNCHANGED <<held, lookups>>
  PROVE  Inv'
<1>1. TypeOK'
  BY DEF Inv, TypeOK, Goto, Progress
<1>2. LockedWhileLooking'
  BY DEF Inv, LockedWhileLooking
<1>3. AwaitsTheHolder'
  BY DEF Inv, TypeOK, AwaitsTheHolder, Goto, Progress
<1> QED
  BY <1>1, <1>2, <1>3 DEF Inv

\* The end of a lookup releases its key and answers the caller that awaits it.
LEMMA LookupInv ==
  ASSUME Inv, NEW k \in Key, NEW found \in BOOLEAN, LookupEnds(k, found)
  PROVE  Inv'
<1>1. TypeOK'
  <2>1. Recorded(slot[k], found) \in Slot /\ Reply(Recorded(slot[k], found)) \in {"addresses", "error"}
    BY SlotTypes DEF Inv, TypeOK
  <2>2. slot' \in [Key -> Slot] /\ held' \in [Key -> BOOLEAN]
    BY <2>1 DEF Inv, TypeOK, LookupEnds
  <2>3. lookups' \in [Key -> Nat]
    BY DEF Inv, TypeOK, LookupEnds
  <2>4. caller' \in [Caller -> Progress]
    BY <2>1 DEF Inv, TypeOK, LookupEnds, Progress
  <2> QED
    BY <2>2, <2>3, <2>4 DEF TypeOK
<1>2. LockedWhileLooking'
  BY DEF Inv, TypeOK, LockedWhileLooking, LookupEnds
<1>3. AwaitsTheHolder'
  <2> SUFFICES ASSUME NEW c \in Caller, caller'[c].pc = "refreshing"
               PROVE  held'[caller'[c].key]
    BY DEF AwaitsTheHolder
  <2>1. caller[c] # [pc |-> "refreshing", key |-> k]
    BY SlotTypes DEF Inv, TypeOK, LookupEnds
  <2>2. caller'[c] = caller[c] /\ caller[c].key # k
    BY <2>1 DEF Inv, TypeOK, LookupEnds, Progress
  <2> QED
    BY <2>2 DEF Inv, TypeOK, AwaitsTheHolder, LookupEnds, Progress
<1> QED
  BY <1>1, <1>2, <1>3 DEF Inv

\* Every step keeps the invariant.
LEMMA NextInv == Inv /\ [Next]_vars => Inv'
<1> SUFFICES ASSUME Inv, [Next]_vars PROVE Inv'
  OBVIOUS
<1>1. ASSUME NEW c \in Caller, NEW k \in Key, Resolve(c, k) PROVE Inv'
  <2>1. Reply(slot[k]) \in {"addresses", "error"}
    BY DEF Reply
  <2>2. Plan(k) => slot' \in [Key -> Slot]
    BY SlotTypes DEF Inv, TypeOK, Plan
  <2>3. CASE AnswerAtOnce(c, k)
    BY <2>1, <2>2, <2>3, GotoInv DEF AnswerAtOnce
  <2>4. CASE Refresh(c, k)
    BY <2>4, StartInv DEF Refresh, Free
  <2>5. CASE AnswerStale(c, k)
    BY <2>5, GotoInv DEF AnswerStale, Inv, TypeOK
  <2>6. CASE Wait(c, k)
    BY <2>2, <2>6, GotoInv DEF Wait
  <2> QED
    BY <1>1, <2>3, <2>4, <2>5, <2>6 DEF Resolve
<1>2. ASSUME NEW c \in Caller, GetLock(c) PROVE Inv'
  <2> PICK k \in Key : ShareOutcome(c, k) \/ RefreshInTurn(c, k)
    BY <1>2 DEF GetLock
  <2>1. CASE ShareOutcome(c, k)
    <3>1. Reply(slot[k]) \in {"addresses", "error"} /\ slot' \in [Key -> Slot]
      BY <2>1, SlotTypes DEF ShareOutcome, Reply, Inv, TypeOK, Plan
    <3> QED
      BY <2>1, <3>1, GotoInv DEF ShareOutcome
  <2>2. CASE RefreshInTurn(c, k)
    BY <2>2, StartInv DEF RefreshInTurn
  <2> QED
    BY <2>1, <2>2
<1>3. ASSUME NEW c \in Caller, Cancelled(c) PROVE Inv'
  <2>1. caller[c] \in Progress
    BY DEF Inv, TypeOK
  <2>2. [caller[c] EXCEPT !.pc = "idle"] = [pc |-> "idle", key |-> caller[c].key]
    BY <2>1 DEF Progress
  <2>3. Goto(c, caller[c].key, "idle") /\ caller[c].key \in Key
    BY <1>3, <2>1, <2>2 DEF Cancelled, Goto, Progress
  <2> QED
    BY <1>3, <2>3, GotoInv DEF Cancelled, Inv, TypeOK
<1>4. ASSUME NEW k \in Key, Lookup(k) PROVE Inv'
  BY <1>4, LookupInv DEF Lookup
<1>5. ASSUME NEW k \in Key, Time(k) PROVE Inv'
  <2>1. UNCHANGED <<held, lookups, caller>>
    BY <1>5 DEF Time, Ages, PauseEnds
  <2>2. slot[k] \in Slot
    BY DEF Inv, TypeOK
  <2>3. \A age \in {"stale", "dead"} : [slot[k] EXCEPT !.age = age] \in Slot
    BY <2>2 DEF Slot
  <2>4. [slot[k] EXCEPT !.paused = FALSE] \in Slot
    BY <2>2 DEF Slot
  <2>5. slot' \in [Key -> Slot]
    BY <1>5, <2>3, <2>4 DEF Time, Ages, PauseEnds, Inv, TypeOK
  <2> QED
    BY <2>1, <2>5 DEF Inv, TypeOK, LockedWhileLooking, AwaitsTheHolder
<1>6. ASSUME Invalidate PROVE Inv'
  BY <1>6 DEF Invalidate, Inv, TypeOK, Slot, LockedWhileLooking, AwaitsTheHolder
<1>7. ASSUME UNCHANGED vars PROVE Inv'
  BY <1>7 DEF vars, Inv, TypeOK, LockedWhileLooking, AwaitsTheHolder
<1> QED
  BY <1>1, <1>2, <1>3, <1>4, <1>5, <1>6, <1>7 DEF Next

\* The inductive invariant of resolution: a key is locked exactly while a
\* lookup of it is in flight.
THEOREM BootstrapInvariance == Spec => []Inv
<1> QED
  BY InitInv, NextInv, PTL DEF Spec

\* One lookup per key is in flight, and who awaits a lookup has one
\* (Slot::refresh, held by the task and not by its caller).
THEOREM LookupsAreShared == Spec => []OneLookup
<1>1. Inv => OneLookup
  BY DEF Inv, TypeOK, Progress, LockedWhileLooking, AwaitsTheHolder, OneLookup
<1> QED
  BY <1>1, BootstrapInvariance, PTL

-----------------------------------------------------------------------------
(* Steps *)

\* Only a caller that planned a refresh starts a lookup.
LEMMA SpacedStep ==
  ASSUME Inv, [Next]_vars, NEW k \in Key, lookups'[k] > lookups[k]
  PROVE  slot[k].age # "fresh" /\ ~slot[k].paused
<1>1. ASSUME NEW c \in Caller, NEW j \in Key, StartLookup(c, j), NeedsRefresh(slot[j])
      PROVE  slot[k].age # "fresh" /\ ~slot[k].paused
  <2>1. j = k
    BY <1>1 DEF StartLookup, Inv, TypeOK
  <2> QED
    BY <1>1, <2>1 DEF NeedsRefresh
<1>2. ASSUME UNCHANGED lookups PROVE FALSE
  BY <1>2 DEF Inv, TypeOK
<1>3. ASSUME NEW j \in Key, Lookup(j) PROVE FALSE
  BY <1>3 DEF Lookup, LookupEnds, Inv, TypeOK
<1>4. ASSUME NEW c \in Caller, NEW j \in Key, Resolve(c, j)
      PROVE  slot[k].age # "fresh" /\ ~slot[k].paused
  BY <1>1, <1>2, <1>4 DEF Resolve, AnswerAtOnce, Refresh, AnswerStale, Wait
<1>5. ASSUME NEW c \in Caller, GetLock(c)
      PROVE  slot[k].age # "fresh" /\ ~slot[k].paused
  BY <1>1, <1>2, <1>5 DEF GetLock, ShareOutcome, RefreshInTurn
<1> QED
  BY <1>2, <1>3, <1>4, <1>5 DEF Next, Cancelled, Time, Ages, PauseEnds, Invalidate, vars

\* Lookups start only when the answer has expired and no failure is recent,
\* however many callers queue (Slot::plan before and after lock_owned).
THEOREM LookupsAreSpaced == Spec => LookupsSpaced
<1>1. Inv /\ [Next]_vars =>
        [\A k \in Key : lookups'[k] > lookups[k] =>
            slot[k].age # "fresh" /\ ~slot[k].paused]_vars
  BY SpacedStep
<1> QED
  BY <1>1, BootstrapInvariance, PTL DEF Spec, LookupsSpaced

\* Only the end of a lookup takes one out of flight, and it records.
LEMMA RecordedStep ==
  ASSUME Inv, [Next]_vars, NEW k \in Key, lookups'[k] < lookups[k]
  PROVE  slot'[k].age = "fresh" \/ slot'[k].paused
<1>1. ASSUME NEW c \in Caller, NEW j \in Key, StartLookup(c, j) PROVE FALSE
  BY <1>1 DEF StartLookup, Inv, TypeOK
<1>2. ASSUME UNCHANGED lookups PROVE FALSE
  BY <1>2 DEF Inv, TypeOK
<1>3. ASSUME NEW j \in Key, NEW found \in BOOLEAN, LookupEnds(j, found)
      PROVE  slot'[k].age = "fresh" \/ slot'[k].paused
  <2>1. j = k
    BY <1>3 DEF LookupEnds, Inv, TypeOK
  <2>2. slot'[k] = Recorded(slot[k], found)
    BY <1>3, <2>1 DEF LookupEnds, Inv, TypeOK
  <2> QED
    BY <2>2 DEF Recorded
<1>4. ASSUME NEW c \in Caller, NEW j \in Key, Resolve(c, j) PROVE FALSE
  BY <1>1, <1>2, <1>4 DEF Resolve, AnswerAtOnce, Refresh, AnswerStale, Wait
<1>5. ASSUME NEW c \in Caller, GetLock(c) PROVE FALSE
  BY <1>1, <1>2, <1>5 DEF GetLock, ShareOutcome, RefreshInTurn
<1> QED
  BY <1>2, <1>3, <1>4, <1>5 DEF Next, Lookup, Cancelled, Time, Ages, PauseEnds, Invalidate, vars

\* Every lookup that ends leaves fresh addresses or a pause, whether or not its
\* caller still waits (resolve: the lookup is a task of its own).
THEOREM OutcomesAreRecorded == Spec => OutcomeRecorded
<1>1. Inv /\ [Next]_vars =>
        [\A k \in Key : lookups'[k] < lookups[k] =>
            slot'[k].age = "fresh" \/ slot'[k].paused]_vars
  BY RecordedStep
<1> QED
  BY <1>1, BootstrapInvariance, PTL DEF Spec, OutcomeRecorded

-----------------------------------------------------------------------------
(* Answers *)

\* What a single answer promises about the slot it came from.
Honest(c) == IF caller'[c].pc = "error" THEN ~Servable(slot[caller'[c].key])
                                        ELSE Servable(slot'[caller'[c].key])

\* Planning keeps what can be served and adds nothing to it.
LEMMA PlanServes ==
  ASSUME NEW s \in Slot, NEW found \in BOOLEAN
  PROVE  /\ Servable(Planned(s)) <=> Servable(s)
         /\ Servable(s) => Servable(Recorded(s, found))
         /\ Reply(s) = "error" <=> ~Servable(s)
  BY DEF Slot, Planned, Recorded, Reply, Servable

\* A caller answered from its own plan.
LEMMA PlanAnswers ==
  ASSUME Inv, NEW c \in Caller, NEW d \in Caller, NEW k \in Key,
         Answered(c), Plan(k), Goto(d, k, Reply(slot[k]))
  PROVE  Honest(c)
<1>1. c = d
  BY DEF Answered, Goto, Inv, TypeOK
<1>2. caller'[c] = [pc |-> Reply(slot[k]), key |-> k]
  BY <1>1 DEF Goto, Inv, TypeOK
<1>3. slot[k] \in Slot /\ slot'[k] = Planned(slot[k])
  BY DEF Plan, Inv, TypeOK
<1>4. Reply(slot[k]) = "error" <=> ~Servable(slot[k])
  BY DEF Reply
<1>5. Servable(slot'[k]) <=> Servable(slot[k])
  BY <1>3, PlanServes
<1> QED
  BY <1>2, <1>4, <1>5 DEF Honest

\* A caller moved to a place that is no answer answers nobody.
LEMMA NoAnswer ==
  ASSUME Inv, NEW c \in Caller, NEW d \in Caller, NEW k \in Key,
         NEW pc \in {"idle", "waiting", "refreshing"}, Goto(d, k, pc)
  PROVE  ~Answered(c)
  BY DEF Answered, Goto, Inv, TypeOK

\* The answers of every step.
LEMMA HonestStep ==
  ASSUME Inv, [Next]_vars, NEW c \in Caller, Answered(c)
  PROVE  Honest(c)
<1>1. ASSUME NEW d \in Caller, NEW k \in Key, Resolve(d, k) PROVE Honest(c)
  <2>1. CASE AnswerAtOnce(d, k)
    BY <2>1, PlanAnswers DEF AnswerAtOnce
  <2>2. CASE Refresh(d, k)
    BY <2>2, NoAnswer DEF Refresh, StartLookup
  <2>3. CASE AnswerStale(d, k)
    <3>1. c = d /\ caller'[c] = [pc |-> "addresses", key |-> k]
      BY <2>3 DEF AnswerStale, Answered, Goto, Inv, TypeOK
    <3> QED
      BY <2>3, <3>1 DEF AnswerStale, Honest
  <2>4. CASE Wait(d, k)
    BY <2>4, NoAnswer DEF Wait
  <2> QED
    BY <1>1, <2>1, <2>2, <2>3, <2>4 DEF Resolve
<1>2. ASSUME NEW d \in Caller, GetLock(d) PROVE Honest(c)
  <2> PICK k \in Key : ShareOutcome(d, k) \/ RefreshInTurn(d, k)
    BY <1>2 DEF GetLock
  <2>1. CASE ShareOutcome(d, k)
    BY <2>1, PlanAnswers DEF ShareOutcome
  <2>2. CASE RefreshInTurn(d, k)
    BY <2>2, NoAnswer DEF RefreshInTurn, StartLookup
  <2> QED
    BY <2>1, <2>2
<1>3. ASSUME NEW d \in Caller, Cancelled(d) PROVE FALSE
  BY <1>3 DEF Cancelled, Answered, Inv, TypeOK, Progress
<1>4. ASSUME NEW k \in Key, NEW found \in BOOLEAN, LookupEnds(k, found) PROVE Honest(c)
  <2> DEFINE s == Recorded(slot[k], found)
  <2>1. caller'[c] = [pc |-> Reply(s), key |-> k]
    BY <1>4 DEF LookupEnds, Answered, Inv, TypeOK
  <2>2. slot[k] \in Slot /\ s \in Slot /\ slot'[k] = s
    BY <1>4, SlotTypes DEF LookupEnds, Inv, TypeOK
  <2>3. Reply(s) = "error" => ~Servable(slot[k])
    BY <2>2, PlanServes
  <2>4. Reply(s) # "error" => Servable(s)
    BY DEF Reply
  <2> HIDE DEF s
  <2> QED
    BY <2>1, <2>2, <2>3, <2>4 DEF Honest
<1>5. ASSUME UNCHANGED caller PROVE FALSE
  BY <1>5 DEF Answered
<1> QED
  BY <1>1, <1>2, <1>3, <1>4, <1>5 DEF Next, Lookup, Time, Ages, PauseEnds, Invalidate, vars

\* A failed lookup costs no caller addresses that could still be served, and
\* nobody gets addresses past MAX_STALE (Slot::plan, Slot::record).
THEOREM AnswersAreHonest == Spec => AnswersHonest
<1>1. Inv /\ [Next]_vars =>
        [\A c \in Caller : Answered(c) =>
          IF caller'[c].pc = "error" THEN ~Servable(slot[caller'[c].key])
                                     ELSE Servable(slot'[caller'[c].key])]_vars
  BY HonestStep DEF Honest
<1> QED
  BY <1>1, BootstrapInvariance, PTL DEF Spec, AnswersHonest

-----------------------------------------------------------------------------
(* Stale answers *)

\* Who else makes a stale answer good: a recent failure, the lookup that holds
\* the key, or a caller in line to start one.
Tried(k) == \/ slot'[k].paused \/ held'[k]
            \/ \E d \in Caller : caller'[d] = [pc |-> "waiting", key |-> k]

\* A plan that answers with expired addresses met a pause.
LEMMA PlanTried ==
  ASSUME Inv, NEW c \in Caller, NEW d \in Caller, NEW k \in Key,
         Answered(c), Plan(k), Goto(d, k, Reply(slot[k])), ~NeedsRefresh(slot[k]),
         slot'[caller'[c].key].age = "stale"
  PROVE  Tried(caller'[c].key)
<1>1. caller'[c].key = k
  BY DEF Answered, Goto, Inv, TypeOK
<1>2. slot[k] \in Slot /\ slot'[k] = Planned(slot[k])
  BY DEF Plan, Inv, TypeOK
<1>3. slot[k].age = "stale" /\ slot'[k] = slot[k]
  BY <1>1, <1>2 DEF Planned, Slot
<1> QED
  BY <1>1, <1>3 DEF NeedsRefresh, Tried

\* The stale answers of every step.
LEMMA TriedStep ==
  ASSUME Inv, [Next]_vars, NEW c \in Caller, Answered(c), slot'[caller'[c].key].age = "stale"
  PROVE  Tried(caller'[c].key)
<1>1. ASSUME NEW d \in Caller, NEW k \in Key, Resolve(d, k) PROVE Tried(caller'[c].key)
  <2>1. CASE AnswerAtOnce(d, k)
    BY <2>1, PlanTried DEF AnswerAtOnce
  <2>2. CASE Refresh(d, k)
    BY <2>2, NoAnswer DEF Refresh, StartLookup
  <2>3. CASE AnswerStale(d, k)
    <3>1. c = d /\ caller'[c].key = k
      BY <2>3 DEF AnswerStale, Answered, Goto, Inv, TypeOK
    <3>2. CASE held[k]
      BY <2>3, <3>1, <3>2 DEF AnswerStale, Tried
    <3>3. CASE ~held[k]
      <4>1. PICK e \in Caller : Waiting(e, k)
        BY <2>3, <3>3 DEF AnswerStale, Free
      <4>2. e # d
        BY <2>3, <4>1 DEF AnswerStale, Asks, Waiting
      <4>3. caller'[e] = caller[e] /\ caller[e] \in Progress
        BY <2>3, <4>2 DEF AnswerStale, Goto, Inv, TypeOK
      <4>4. caller'[e] = [pc |-> "waiting", key |-> k]
        BY <4>1, <4>3 DEF Waiting, Progress
      <4> QED
        BY <3>1, <4>4 DEF Tried
    <3> QED
      BY <3>2, <3>3
  <2>4. CASE Wait(d, k)
    BY <2>4, NoAnswer DEF Wait
  <2> QED
    BY <1>1, <2>1, <2>2, <2>3, <2>4 DEF Resolve
<1>2. ASSUME NEW d \in Caller, GetLock(d) PROVE Tried(caller'[c].key)
  <2> PICK k \in Key : ShareOutcome(d, k) \/ RefreshInTurn(d, k)
    BY <1>2 DEF GetLock
  <2>1. CASE ShareOutcome(d, k)
    BY <2>1, PlanTried DEF ShareOutcome
  <2>2. CASE RefreshInTurn(d, k)
    BY <2>2, NoAnswer DEF RefreshInTurn, StartLookup
  <2> QED
    BY <2>1, <2>2
<1>3. ASSUME NEW d \in Caller, Cancelled(d) PROVE FALSE
  BY <1>3 DEF Cancelled, Answered, Inv, TypeOK, Progress
<1>4. ASSUME NEW k \in Key, NEW found \in BOOLEAN, LookupEnds(k, found)
      PROVE  Tried(caller'[c].key)
  <2>1. caller'[c].key = k /\ slot'[k] = Recorded(slot[k], found)
    BY <1>4 DEF LookupEnds, Answered, Inv, TypeOK
  <2> QED
    BY <2>1 DEF Recorded, Tried
<1>5. ASSUME UNCHANGED caller PROVE FALSE
  BY <1>5 DEF Answered
<1> QED
  BY <1>1, <1>2, <1>3, <1>4, <1>5 DEF Next, Lookup, Time, Ages, PauseEnds, Invalidate, vars

\* Expired addresses are answered only while somebody works on newer ones or
\* just failed to get them (resolve: use stale addresses rather than wait).
THEOREM StaleAnswersAreTried == Spec => StaleMeansTried
<1>1. Inv /\ [Next]_vars =>
        [\A c \in Caller : Answered(c) /\ slot'[caller'[c].key].age = "stale" =>
          slot'[caller'[c].key].paused \/ held'[caller'[c].key]
             \/ \E d \in Caller : caller'[d] = [pc |-> "waiting", key |-> caller'[c].key]]_vars
  BY TriedStep DEF Tried
<1> QED
  BY <1>1, BootstrapInvariance, PTL DEF Spec, StaleMeansTried
=============================================================================
