----------------------------- MODULE Bootstrap ------------------------------
(***************************************************************************)
(* Hostname resolution for upstreams (upstream/bootstrap.rs): callers      *)
(* share one cached answer per key, one lookup in flight per key, and a    *)
(* pause after a lookup that failed.  A lookup runs as a task of its own   *)
(* that holds the key's refresh lock and records its outcome even when     *)
(* its caller was cancelled.                                               *)
(*                                                                         *)
(* The runtime has one thread and the map of slots is never locked across  *)
(* an await, so planning and what follows from the plan are one step.      *)
(* Which bootstrap server answered, over UDP or TCP, and with which        *)
(* addresses is left to the outcome of the lookup; a lifetime is only      *)
(* whether it has passed.                                                  *)
(***************************************************************************)
EXTENDS Naturals, FiniteSets

CONSTANTS Caller, \* concurrent calls of resolve
          Key     \* hosts with an address stack each

ASSUME BootstrapConstants == IsFiniteSet(Caller)

VARIABLES slot,    \* per key: the cached entry, and whether lookups pause
          held,    \* per key: a task holds the refresh lock
          lookups, \* per key: lookups in flight
          caller   \* progress of each caller and the key it wants

vars == <<slot, held, lookups, caller>>

\* "dead" addresses expired more than MAX_STALE ago.
Slot == [age : {"none", "fresh", "stale", "dead"}, paused : BOOLEAN]

\* "addresses" and "error" are the answers of resolve.
Progress == [pc : {"idle", "waiting", "refreshing", "addresses", "error"}, key : Key]

TypeOK == /\ slot \in [Key -> Slot]
          /\ held \in [Key -> BOOLEAN]
          /\ lookups \in [Key -> Nat]
          /\ caller \in [Caller -> Progress]

-----------------------------------------------------------------------------
(* The plan of a slot *)

Servable(s) == s.age \in {"fresh", "stale"}

\* Addresses nobody should dial any more are forgotten when a plan is made.
Planned(s) == IF s.age = "dead" THEN [s EXCEPT !.age = "none"] ELSE s

\* Mutation of NeedsRefresh: expired addresses are good enough.
NeedsRefreshIfNone(s) == ~Servable(s) /\ ~s.paused

NeedsRefresh(s) == s.age # "fresh" /\ ~s.paused

Reply(s) == IF Servable(s) THEN "addresses" ELSE "error"

Waiting(c, k) == caller[c].pc = "waiting" /\ caller[c].key = k

\* The lock is free; one that was released is handed to a caller that waits.
Free(k) == ~held[k] /\ \A c \in Caller : ~Waiting(c, k)

-----------------------------------------------------------------------------
(* resolve *)

Asks(c) == caller[c].pc \notin {"waiting", "refreshing"}
Goto(c, k, pc) == caller' = [caller EXCEPT ![c] = [pc |-> pc, key |-> k]]
Plan(k) == slot' = [slot EXCEPT ![k] = Planned(@)]
StartLookup(c, k) == /\ held' = [held EXCEPT ![k] = TRUE]
                     /\ lookups' = [lookups EXCEPT ![k] = @ + 1]
                     /\ Goto(c, k, "refreshing")

\* The addresses are fresh, or the last lookup failed a moment ago.
AnswerAtOnce(c, k) ==
    /\ Asks(c) /\ ~NeedsRefresh(slot[k])
    /\ Plan(k) /\ Goto(c, k, Reply(slot[k]))
    /\ UNCHANGED <<held, lookups>>

Refresh(c, k) ==
    /\ Asks(c) /\ NeedsRefresh(slot[k]) /\ Free(k)
    /\ Plan(k) /\ StartLookup(c, k)

\* Another caller is refreshing: stale addresses beat its timeouts.
AnswerStale(c, k) ==
    /\ Asks(c) /\ NeedsRefresh(slot[k]) /\ ~Free(k)
    /\ Servable(slot[k])
    /\ Goto(c, k, "addresses")
    /\ UNCHANGED <<slot, held, lookups>>

Wait(c, k) ==
    /\ Asks(c) /\ NeedsRefresh(slot[k]) /\ ~Free(k)
    /\ ~Servable(slot[k])
    /\ Plan(k) /\ Goto(c, k, "waiting")
    /\ UNCHANGED <<held, lookups>>

\* A caller that got the lock plans again: it shares the outcome it waited for.
ShareOutcome(c, k) ==
    /\ Waiting(c, k) /\ ~held[k] /\ ~NeedsRefresh(slot[k])
    /\ Plan(k) /\ Goto(c, k, Reply(slot[k]))
    /\ UNCHANGED <<held, lookups>>

\* Mutation of RefreshInTurn: the caller does not plan again.
RefreshUnplanned(c, k) ==
    /\ Waiting(c, k) /\ ~held[k]
    /\ Plan(k) /\ StartLookup(c, k)

RefreshInTurn(c, k) ==
    /\ Waiting(c, k) /\ ~held[k] /\ NeedsRefresh(slot[k])
    /\ Plan(k) /\ StartLookup(c, k)

\* Mutations of Cancelled: the lock goes with the caller; so does the lookup.
CancelledUnlocks(c) ==
    /\ ~Asks(c)
    /\ held' = [held EXCEPT ![caller[c].key] = @ /\ caller[c].pc # "refreshing"]
    /\ caller' = [caller EXCEPT ![c].pc = "idle"]
    /\ UNCHANGED <<slot, lookups>>
CancelledAborts(c) ==
    /\ ~Asks(c)
    /\ LET mine == caller[c].pc = "refreshing" IN
       /\ held' = [held EXCEPT ![caller[c].key] = @ /\ ~mine]
       /\ lookups' = [lookups EXCEPT ![caller[c].key] = IF mine THEN @ - 1 ELSE @]
    /\ caller' = [caller EXCEPT ![c].pc = "idle"]
    /\ UNCHANGED slot

\* The caller's own timeout drops it; a lookup it started goes on.
Cancelled(c) ==
    /\ ~Asks(c)
    /\ caller' = [caller EXCEPT ![c].pc = "idle"]
    /\ UNCHANGED <<slot, held, lookups>>

-----------------------------------------------------------------------------
(* The lookup *)

\* Mutation of Recorded: a failure throws the old addresses away.
RecordedBare(s, found) ==
    IF found THEN [age |-> "fresh", paused |-> FALSE] ELSE [age |-> "none", paused |-> TRUE]

\* A failure starts the pause and keeps addresses that can still be served.
Recorded(s, found) ==
    IF found THEN [age |-> "fresh", paused |-> FALSE]
             ELSE [age |-> IF Servable(s) THEN s.age ELSE "none", paused |-> TRUE]

\* Mutation of LookupEnds: the task keeps the lock.
LookupEndsLocked(k, found) ==
    LET s == Recorded(slot[k], found) IN
    /\ lookups[k] > 0
    /\ lookups' = [lookups EXCEPT ![k] = @ - 1]
    /\ slot' = [slot EXCEPT ![k] = s]
    /\ caller' = [c \in Caller |->
         IF caller[c] = [pc |-> "refreshing", key |-> k]
         THEN [pc |-> Reply(s), key |-> k] ELSE caller[c]]
    /\ UNCHANGED held

\* The outcome is recorded, the lock released, and the caller answered if it is
\* still there.
LookupEnds(k, found) ==
    LET s == Recorded(slot[k], found) IN
    /\ lookups[k] > 0
    /\ lookups' = [lookups EXCEPT ![k] = @ - 1]
    /\ held' = [held EXCEPT ![k] = FALSE]
    /\ slot' = [slot EXCEPT ![k] = s]
    /\ caller' = [c \in Caller |->
         IF caller[c] = [pc |-> "refreshing", key |-> k]
         THEN [pc |-> Reply(s), key |-> k] ELSE caller[c]]

-----------------------------------------------------------------------------
(* Time, and upstreams that reconnect *)

Ages(k, from, to) == /\ slot[k].age = from
                     /\ slot' = [slot EXCEPT ![k].age = to]
                     /\ UNCHANGED <<held, lookups, caller>>

PauseEnds(k) == /\ slot[k].paused
                /\ slot' = [slot EXCEPT ![k].paused = FALSE]
                /\ UNCHANGED <<held, lookups, caller>>

\* A channel that failed to connect or slept expires the host's addresses.
Invalidate ==
    /\ slot' = [k \in Key |-> IF slot[k].age = "fresh"
                              THEN [slot[k] EXCEPT !.age = "stale"] ELSE slot[k]]
    /\ UNCHANGED <<held, lookups, caller>>

-----------------------------------------------------------------------------
(* Specification *)

Init == /\ slot = [k \in Key |-> [age |-> "none", paused |-> FALSE]]
        /\ held = [k \in Key |-> FALSE]
        /\ lookups = [k \in Key |-> 0]
        /\ caller \in [Caller -> [pc : {"idle"}, key : Key]]

Resolve(c, k) == AnswerAtOnce(c, k) \/ Refresh(c, k) \/ AnswerStale(c, k) \/ Wait(c, k)
GetLock(c) == \E k \in Key : ShareOutcome(c, k) \/ RefreshInTurn(c, k)
Lookup(k) == \E found \in BOOLEAN : LookupEnds(k, found)
Time(k) == Ages(k, "fresh", "stale") \/ Ages(k, "stale", "dead") \/ PauseEnds(k)

Next == \/ \E c \in Caller : \/ \E k \in Key : Resolve(c, k)
                             \/ GetLock(c) \/ Cancelled(c)
        \/ \E k \in Key : Lookup(k) \/ Time(k)
        \/ Invalidate

Spec == Init /\ [][Next]_vars

\* Four servers with three seconds each bound a lookup, and the refresh lock
\* serves its waiters in order.
Fairness == /\ \A k \in Key : WF_vars(Lookup(k))
            /\ \A c \in Caller : SF_vars(GetLock(c))

FairSpec == Spec /\ Fairness

-----------------------------------------------------------------------------
(* Properties *)

\* One lookup per key is in flight at a time, the ones of cancelled callers
\* included, and a caller that awaits a lookup has one (Slot::refresh: "one
\* refresh runs per key at a time").
OneLookup ==
    /\ \A k \in Key : lookups[k] <= 1
    /\ \A c \in Caller : caller[c].pc = "refreshing" => lookups[caller[c].key] = 1

\* However many callers queue, a lookup of a key starts only when the answer of
\* that key has expired and no failure of it is recent (Slot::plan after a wait
\* for the refresh lock).  This is per host and stack, as the slots are: two
\* stacks of one host pause apart, although the comment of RETRY_AFTER_FAILURE
\* promises one paying caller per host.
LookupsSpaced ==
    [][\A k \in Key : lookups'[k] > lookups[k] =>
          slot[k].age # "fresh" /\ ~slot[k].paused]_vars

\* A lookup that ends leaves fresh addresses or a pause behind, whoever asked
\* for it and whether or not that caller still waits (resolve: a cancelled
\* caller still records the outcome).
OutcomeRecorded ==
    [][\A k \in Key : lookups'[k] < lookups[k] =>
          slot'[k].age = "fresh" \/ slot'[k].paused]_vars

Answered(c) == caller'[c].pc \in {"addresses", "error"} /\ caller'[c] # caller[c]

\* A failed lookup never costs a caller addresses that could still be served,
\* and addresses past MAX_STALE are never answered.
AnswersHonest ==
    [][\A c \in Caller : Answered(c) =>
          IF caller'[c].pc = "error" THEN ~Servable(slot[caller'[c].key])
                                     ELSE Servable(slot'[caller'[c].key])]_vars

\* Expired addresses, the ones an upstream invalidated among them, are answered
\* only while a lookup or a caller in line for one is at work, or after one
\* just failed.
StaleMeansTried ==
    [][\A c \in Caller : Answered(c) /\ slot'[caller'[c].key].age = "stale" =>
          slot'[caller'[c].key].paused \/ held'[caller'[c].key]
             \/ \E d \in Caller : caller'[d] = [pc |-> "waiting", key |-> caller'[c].key]]_vars

\* Every caller is answered or gives up: nobody waits for a lock that no task
\* will release.
CallersEnd == \A c \in Caller : ~Asks(c) ~> Asks(c)
=============================================================================
