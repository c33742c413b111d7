------------------------------ MODULE Watchdog ------------------------------
(***************************************************************************)
(* The takeover watchdog of the daemon (proxy/mod.rs: watchdog_loop): when *)
(* it looks at the system's DNS settings, how it backs off from another    *)
(* tool that keeps rewriting them, and which resolvers of the network it   *)
(* hands to the upstream manager as the last resort (osdns/macos.rs).      *)
(*                                                                         *)
(* What a tick writes, service by service, is the subject of Takeover;     *)
(* here a tick reads, captures, and ends with an outcome.  Time passes in  *)
(* units of WATCHDOG_INTERVAL, and a tick takes less than one.             *)
(***************************************************************************)
EXTENDS Naturals

CONSTANTS Address,     \* addresses of resolvers
          Server,      \* the takeover address
          Listeners,   \* the addresses the proxy listens on
          Unusable,    \* loopback, unspecified and multicast addresses
          Networks,    \* what macOS may show of a network
          Lists,       \* what the explicit lists of services may name together
          Slow,        \* WATCHDOG_SLOW_INTERVAL, in units
          FlapWindow,  \* FLAP_WINDOW_TICKS
          FlapStrikes, \* FLAP_STRIKES
          MaxChanges, MaxFaults \* bounds on the environment

\* The resolvers of the main section of scutil --dns, and those of its blocks
\* for one domain.
Network == [global : SUBSET Address, scoped : SUBSET Address]

ASSUME WatchdogConstants ==
    /\ Server \in Listeners \cap Unusable
    /\ Listeners \subseteq Address /\ Unusable \subseteq Address
    /\ Networks \subseteq Network
    /\ Lists \subseteq SUBSET Address /\ {} \in Lists
    /\ FlapWindow \in Nat \ {0} /\ FlapStrikes \in Nat \ {0, 1}
    /\ Slow \in Nat /\ Slow > FlapWindow + 1
    /\ MaxChanges \in Nat /\ MaxFaults \in Nat

VARIABLES loop,     \* the local variables of watchdog_loop
          tick,     \* the tick that runs
          fallback, \* the manager's list of system resolvers
          active,   \* backup and marker exist
          backup,   \* the resolvers that the backup records
          drifted,  \* how far the services are from the takeover
          network,
          history,  \* the ages of the last complete corrections, newest first
          changes, faults

vars == <<loop, tick, fallback, active, backup, drifted, network, history, changes, faults>>
world == <<active, backup, drifted, network, changes>>

\* "hidden": some service lists something else than the proxy, and macOS still
\* shows the proxy; "shown": macOS shows the network's own resolvers.
Drifts == {"no", "hidden", "shown"}

\* "due": units until the interval fires.  Strikes past FlapStrikes make no
\* difference and are not counted; "since" is FlapWindow when it is None.
Loop == [due : 0..Slow, slow : BOOLEAN, since : 0..FlapWindow,
         strikes : 0..FlapStrikes]
Tick == [pc : {"waiting", "reading", "ending"}, drifted : Drifts,
         captured : SUBSET Address]
Backup == [exists : BOOLEAN, fallback : SUBSET Address, services : SUBSET Address]

\* One correction more than a daemon may make in a row; ages from LongAgo on are
\* not told apart.
Recent == 1..FlapStrikes + 1
LongAgo == FlapWindow + 2

TypeOK == /\ loop \in Loop /\ tick \in Tick
          /\ fallback \in SUBSET Address
          /\ active \in BOOLEAN /\ drifted \in Drifts
          /\ backup \in Backup
          /\ network \in Networks
          /\ history \in [Recent -> 0..LongAgo]
          /\ changes \in Nat /\ faults \in Nat

-----------------------------------------------------------------------------
(* What macOS shows, and what of it is usable *)

\* While DNS points at the proxy, macOS shows the proxy.
Effective == IF drifted = "shown" \/ ~active THEN network.global ELSE {Server}

Usable(candidates, denied) == candidates \ (Unusable \cup denied)

\* The list of a daemon that starts, when it can read the backup or macOS.
Candidates ==
    IF ~backup.exists THEN Effective
    ELSE IF backup.fallback # {} THEN backup.fallback ELSE backup.services
StartingFallback == Usable(Candidates, Listeners)

-----------------------------------------------------------------------------
(* A tick *)

FirstLoop == [due |-> 0, slow |-> FALSE, since |-> FlapWindow, strikes |-> 0]
NoBackup == [exists |-> FALSE, fallback |-> {}, services |-> {}]
NoCorrections == [i \in Recent |-> LongAgo]
NoTick == [pc |-> "waiting", drifted |-> "no", captured |-> {}]

Period(slow) == IF slow THEN Slow ELSE 1

At(pc) == tick.pc = pc

\* The interval schedules its next tick when it fires.
Fired == [loop EXCEPT !.due = Period(loop.slow)]

TickIdle ==
    /\ At("waiting") /\ loop.due = 0
    /\ ~active
    /\ loop' = Fired
    /\ UNCHANGED <<tick, fallback, world, history, faults>>

\* The gate, the recording of new services, and the snapshot of all.
TickStarts ==
    /\ At("waiting") /\ loop.due = 0
    /\ active
    /\ loop' = Fired
    /\ \E new \in Lists : backup' = [backup EXCEPT !.services = @ \cup new]
    /\ tick' = [NoTick EXCEPT !.pc = "reading", !.drifted = drifted]
    /\ UNCHANGED <<fallback, active, drifted, network, changes, history, faults>>

\* Most of the time macOS shows the proxy alone while DNS points at it.
Capture ==
    /\ At("reading")
    /\ \E seen \in {Effective, Effective \cup network.global} :
         tick' = [tick EXCEPT !.pc = "ending", !.captured = Usable(seen, {Server})]
    /\ UNCHANGED <<loop, fallback, world, history, faults>>

\* scutil fails: the tick goes on without.
CaptureFails ==
    /\ At("reading")
    /\ faults < MaxFaults /\ faults' = faults + 1
    /\ tick' = [tick EXCEPT !.pc = "ending"]
    /\ UNCHANGED <<loop, fallback, world, history>>

\* Mutation of Captured: an empty capture replaces the list.
CapturedAlways == tick.captured

Captured == IF tick.captured = {} THEN fallback ELSE tick.captured

\* Mutation of Calmer: slow mode is not left.
CalmerStillSlow ==
    IF loop.slow THEN [FirstLoop EXCEPT !.due = Slow, !.slow = TRUE]
    ELSE IF loop.since = FlapWindow THEN loop
    ELSE [loop EXCEPT !.since = @ + 1,
                      !.strikes = IF loop.since + 1 = FlapWindow THEN 0 ELSE @]

\* A slow loop starts afresh, with a whole interval until its next tick.
Calmer ==
    IF loop.slow THEN [FirstLoop EXCEPT !.due = Period(FALSE)]
    ELSE IF loop.since = FlapWindow THEN loop
    ELSE [loop EXCEPT !.since = @ + 1,
                      !.strikes = IF loop.since + 1 = FlapWindow THEN 0 ELSE @]

TickClean ==
    /\ At("ending") /\ tick.drifted = "no"
    /\ fallback' = Captured
    /\ loop' = Calmer
    /\ tick' = NoTick
    /\ UNCHANGED <<world, history, faults>>

Strikes == IF loop.since = FlapWindow THEN 1
           ELSE IF loop.strikes < FlapStrikes THEN loop.strikes + 1 ELSE FlapStrikes

\* Mutation of Struck: the interval is replaced without a reset, and a new
\* interval fires at once.
StruckAtOnce ==
    [loop EXCEPT !.strikes = Strikes, !.since = 0,
                 !.slow = @ \/ Strikes = FlapStrikes,
                 !.due = IF Strikes = FlapStrikes /\ ~loop.slow THEN 0 ELSE @]

Struck ==
    [loop EXCEPT !.strikes = Strikes, !.since = 0,
                 !.slow = @ \/ Strikes = FlapStrikes,
                 !.due = IF Strikes = FlapStrikes /\ ~loop.slow THEN Slow ELSE @]

Corrected == [i \in Recent |-> IF i = 1 THEN 0 ELSE history[i - 1]]

\* What the snapshot did not show is not corrected.
Remaining == IF drifted = tick.drifted THEN "no" ELSE drifted

\* Mutation of TickReasserts: what macOS shows is captured after the writes.
TickReassertsFirst ==
    /\ At("ending") /\ tick.drifted # "no"
    /\ drifted' = Remaining
    /\ LET seen == Usable({Server}, {Server})
       IN  fallback' = IF seen = {} THEN fallback ELSE seen
    /\ loop' = Struck
    /\ history' = Corrected
    /\ tick' = NoTick
    /\ UNCHANGED <<active, backup, network, changes, faults>>

TickReasserts ==
    /\ At("ending") /\ tick.drifted # "no"
    /\ drifted' = Remaining
    /\ fallback' = Captured
    /\ loop' = Struck
    /\ history' = Corrected
    /\ tick' = NoTick
    /\ UNCHANGED <<active, backup, network, changes, faults>>

\* "reassert incomplete": some services are corrected and others are not.  The
\* loop learns neither that nor what was captured, and counts no strike.
TickIncomplete ==
    /\ At("ending") /\ tick.drifted # "no"
    /\ faults < MaxFaults /\ faults' = faults + 1
    /\ drifted' \in {drifted, IF tick.drifted = "shown" THEN "hidden" ELSE drifted}
    /\ tick' = NoTick
    /\ UNCHANGED <<loop, fallback, active, backup, network, changes, history>>

\* A tick that ends with an error before its first write, or panics.
TickFails ==
    /\ tick.pc # "waiting"
    /\ faults < MaxFaults /\ faults' = faults + 1
    /\ tick' = NoTick
    /\ UNCHANGED <<loop, fallback, world, history>>

-----------------------------------------------------------------------------
(* Time and the world *)

Older == [i \in Recent |-> IF history[i] < LongAgo THEN history[i] + 1 ELSE LongAgo]

TimePasses ==
    /\ At("waiting") /\ loop.due > 0
    /\ loop' = [loop EXCEPT !.due = @ - 1]
    /\ history' = Older
    /\ UNCHANGED <<tick, fallback, world, faults>>

\* The daemon crashes or is restarted: everything it learned is gone.
DaemonRestarts ==
    /\ faults < MaxFaults /\ faults' = faults + 1
    /\ fallback' \in {StartingFallback, {}}
    /\ loop' = FirstLoop /\ tick' = NoTick /\ history' = NoCorrections
    /\ UNCHANGED world

\* start takes the system's DNS over after the daemon has started.  The backup
\* keeps what macOS showed, unless scutil failed, and the lists of the services.
TakeOver ==
    /\ ~active
    /\ \E seen \in {{}, network.global}, services \in Lists :
         backup' = [exists |-> TRUE, services |-> services,
                    fallback |-> Usable(seen \cup services, {Server})]
    /\ active' = TRUE /\ drifted' = "no"
    /\ UNCHANGED <<loop, tick, fallback, network, history, changes, faults>>

\* Another tool, or macOS, rewrites the settings of a service, of the one whose
\* resolvers macOS shows or of another.
Drift ==
    /\ active /\ drifted # "shown"
    /\ drifted' \in Drifts \ {"no", drifted}
    /\ UNCHANGED <<loop, tick, fallback, active, backup, network, history, changes, faults>>

NetworkChanges ==
    /\ changes < MaxChanges /\ changes' = changes + 1
    /\ network' \in Networks
    /\ UNCHANGED <<loop, tick, fallback, active, backup, drifted, history, faults>>

-----------------------------------------------------------------------------
(* Specification *)

Init ==
    /\ network \in Networks /\ active = FALSE /\ backup = NoBackup /\ drifted = "no"
    /\ loop = FirstLoop /\ tick = NoTick /\ history = NoCorrections
    /\ fallback \in {StartingFallback, {}}
    /\ changes = 0 /\ faults = 0

TickEnds == TickClean \/ TickReasserts

Next == \/ TickIdle \/ TickStarts \/ Capture \/ CaptureFails \/ TickEnds
        \/ TickIncomplete \/ TickFails \/ TimePasses
        \/ DaemonRestarts \/ TakeOver \/ Drift \/ NetworkChanges

Spec == Init /\ [][Next]_vars

\* Time passes, the interval fires and subprocesses end.  Nothing makes
\* another tool rewrite DNS, a network change, or the user take DNS over.
Fairness == /\ WF_vars(TimePasses) /\ WF_vars(TickIdle \/ TickStarts)
            /\ WF_vars(Capture) /\ WF_vars(TickEnds)

FairSpec == Spec /\ Fairness

-----------------------------------------------------------------------------
(* Properties *)

\* However another tool rewrites DNS, a daemon completes at most FlapStrikes
\* corrections within FlapWindow + 2 units: a slow loop that calms down and
\* starts afresh, replaced intervals and ticks that fail in between included
\* (watchdog_loop).  Ticks that correct some services and then fail
\* (TickIncomplete) are not bounded by the code: they count no strike.
CorrectionsBounded == history[FlapStrikes + 1] = LongAgo

\* Once nobody rewrites DNS and no tick fails, the watchdog is back at its
\* normal cadence for good: one clean tick ends slow mode (watchdog_loop).
CalmRestoresCadence == <>[](active /\ drifted = "no") => <>[](~loop.slow)

\* As long as no tick fails, the watchdog learns the resolvers of the network
\* that macOS shows before it hides them again by correcting DNS
\* (watchdog_tick: capture, then reassert), whatever earlier ticks captured,
\* dropped or hid.  A tick that fails in the middle of its writes may hide them
\* and drops what it captured (TickIncomplete): then they are learned when macOS
\* shows them again.
Stable == changes = MaxChanges /\ faults = MaxFaults
CorrectionLearnsNetwork ==
    (Stable /\ drifted = "shown" /\ At("waiting") /\ Usable(network.global, {Server}) # {})
        ~> (drifted = "no" /\ fallback = Usable(network.global, {Server}))

\* A daemon that has resolvers to fall back on keeps some until it ends, whatever
\* captures return.  While it runs it takes only what macOS showed of one
\* network for all domains; when it starts, also what its backup recorded of the
\* services' own lists (Captured, filter_fallback_servers, fallback_servers,
\* parse_scutil_global_dns).
FallbackKept ==
    [][/\ fallback # {} /\ ~DaemonRestarts => fallback' # {}
       /\ fallback' # fallback =>
            LET listed == IF DaemonRestarts THEN UNION Lists ELSE {}
            IN  \E n \in Networks : fallback' \subseteq (n.global \cup listed) \ {Server}]_vars

\* "Loopback and self-listener addresses are discarded, so the fallback cannot
\* recurse through DNSRivet" (README.md).
FallbackNeverRecurses == fallback \cap Listeners = {}
=============================================================================
