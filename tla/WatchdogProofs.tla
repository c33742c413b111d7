--------------------------- MODULE WatchdogProofs ---------------------------
(***************************************************************************)
(* Proofs about Watchdog, for any addresses and networks, any cadence with *)
(* a slow interval longer than the flap window, and any number of faults   *)
(* and changes.                                                            *)
(*                                                                         *)
(* The bound on corrections needs the ages of all recent ones: a strike    *)
(* count below FlapStrikes says how many corrections are close, the age of *)
(* the last one is at least the clean ticks counted since, and slow mode   *)
(* makes the last correction old before the next.                          *)
(***************************************************************************)
EXTENDS Watchdog, TLAPS

Running == tick.pc # "waiting"

\* Two corrections never have the same age.
SpacedInv == \A i, j \in Recent : i < j => history[j] = LongAgo \/ history[i] < history[j]

\* At the normal cadence, each tick since the last correction took its own unit,
\* and strikes are counted from a correction that nothing preceded for a window.
NormalInv == ~loop.slow =>
    /\ loop.due <= 1
    /\ history[1] + loop.due >= loop.since + 1 + (IF Running THEN 1 ELSE 0)
    /\ Running => loop.due = 1
    /\ loop.since < FlapWindow =>
         /\ loop.strikes >= 1 /\ loop.strikes < FlapStrikes
         /\ loop.strikes = 1 => \/ history[2] = LongAgo
                                \/ history[2] >= FlapWindow + 1 + history[1]
         /\ loop.strikes >= 2 => history[loop.strikes + 1] = LongAgo

\* At the slow one, the last correction is as old as the interval when it fires.
SlowInv == loop.slow =>
    /\ loop.since = 0 /\ loop.strikes = FlapStrikes
    /\ history[1] = LongAgo \/ history[1] + loop.due >= Slow
    /\ Running => history[1] = LongAgo /\ loop.due = Slow

\* What was captured are global resolvers of one network; the backup also
\* records what the services list.
Listed == UNION Lists
Learned(servers) == \E n \in Networks : servers \subseteq n.global \ {Server}
Recorded(servers) == \E n \in Networks : servers \subseteq (n.global \cup Listed) \ {Server}
LearnedInv == /\ Learned(tick.captured)
              /\ Recorded(backup.fallback) /\ backup.services \subseteq Listed

IInv == TypeOK /\ SpacedInv /\ NormalInv /\ SlowInv /\ LearnedInv /\ CorrectionsBounded

-----------------------------------------------------------------------------
(* The constants and the initial values *)

\* What the assumptions say of the numbers.
LEMMA Numbers ==
    /\ FlapWindow \in Nat /\ FlapWindow >= 1 /\ FlapStrikes \in Nat /\ FlapStrikes >= 2
    /\ Slow \in Nat /\ Slow >= FlapWindow + 2
    /\ LongAgo = FlapWindow + 2 /\ 1 \in Recent /\ 2 \in Recent /\ FlapStrikes + 1 \in Recent
  BY WatchdogConstants DEF LongAgo, Recent

\* The loop, the tick and the history of a daemon that starts are typed.
LEMMA FirstFacts ==
    /\ FirstLoop \in Loop /\ NoTick \in Tick /\ NoBackup \in Backup
    /\ NoCorrections \in [Recent -> 0..LongAgo]
    /\ StartingFallback \in SUBSET Address \/ ~(network \in Networks /\ backup \in Backup)
<1>1. FirstLoop \in Loop
  BY Numbers DEF FirstLoop, Loop
<1>2. NoTick \in Tick /\ NoBackup \in Backup
  BY DEF NoTick, Tick, NoBackup, Backup, Drifts
<1>3. NoCorrections \in [Recent -> 0..LongAgo]
  BY Numbers DEF NoCorrections
<1>4. ASSUME network \in Networks, backup \in Backup PROVE StartingFallback \in SUBSET Address
  BY <1>4, WatchdogConstants DEF StartingFallback, Candidates, Effective, Usable, Network, Backup
<1>. QED
  BY <1>1, <1>2, <1>3, <1>4

-----------------------------------------------------------------------------
(* Type correctness *)

\* The daemon starts with an empty history.
LEMMA TypeInit == Init => TypeOK
<1>. SUFFICES ASSUME Init PROVE TypeOK
  OBVIOUS
<1>1. network \in Networks /\ backup \in Backup /\ fallback \in {StartingFallback, {}}
  BY FirstFacts DEF Init
<1>2. fallback \in SUBSET Address
  BY <1>1, FirstFacts
<1>. QED
  BY <1>1, <1>2, FirstFacts DEF Init, TypeOK, Drifts

\* The loop and the history stay in their types.
LEMMA LoopTypes ==
    ASSUME TypeOK
    PROVE  /\ Fired \in Loop /\ Calmer \in Loop /\ Struck \in Loop
           /\ Corrected \in [Recent -> 0..LongAgo] /\ Older \in [Recent -> 0..LongAgo]
<1>. USE Numbers
<1>. loop \in Loop /\ history \in [Recent -> 0..LongAgo]
  BY DEF TypeOK
<1>1. \A slow \in BOOLEAN : Period(slow) \in 0..Slow
  BY DEF Period
<1>2. Fired \in Loop
  <2>1. Period(loop.slow) \in 0..Slow
    BY <1>1 DEF Loop
  <2>. QED
    BY <2>1 DEF Fired, Loop
<1>3. Calmer \in Loop
  <2>1. CASE loop.slow
    <3>1. Calmer = [due |-> 1, slow |-> FALSE, since |-> FlapWindow, strikes |-> 0]
      BY <2>1 DEF Calmer, FirstLoop, Period
    <3>2. 1 \in 0..Slow /\ FlapWindow \in 0..FlapWindow /\ 0 \in 0..FlapStrikes
      OBVIOUS
    <3>. QED
      BY <3>1, <3>2 DEF Loop
  <2>2. CASE ~loop.slow /\ loop.since # FlapWindow
    <3>. DEFINE strikes == IF loop.since + 1 = FlapWindow THEN 0 ELSE loop.strikes
                since == loop.since + 1
    <3>1. since \in 0..FlapWindow /\ strikes \in 0..FlapStrikes
      BY <2>2 DEF Loop
    <3>2. Calmer = [loop EXCEPT !.since = since, !.strikes = strikes]
      BY <2>2 DEF Calmer
    <3>. HIDE DEF since, strikes
    <3>. QED
      BY <3>1, <3>2 DEF Loop
  <2>. QED
    BY <2>1, <2>2 DEF Calmer
<1>4. Struck \in Loop
  <2>. DEFINE strikes == Strikes
              slow == loop.slow \/ Strikes = FlapStrikes
              due == IF Strikes = FlapStrikes /\ ~loop.slow THEN Slow ELSE loop.due
  <2>1. strikes \in 0..FlapStrikes
    BY DEF Strikes, Loop
  <2>2. slow \in BOOLEAN /\ due \in 0..Slow
    BY DEF Loop
  <2>3. Struck = [loop EXCEPT !.strikes = strikes, !.since = 0, !.slow = slow, !.due = due]
    BY DEF Struck
  <2>4. 0 \in 0..FlapWindow
    OBVIOUS
  <2>. HIDE DEF strikes, slow, due
  <2>. QED
    BY <2>1, <2>2, <2>3, <2>4 DEF Loop
<1>5. Corrected \in [Recent -> 0..LongAgo]
  BY DEF Corrected, Recent
<1>6. Older \in [Recent -> 0..LongAgo]
  BY DEF Older
<1>. QED
  BY <1>2, <1>3, <1>4, <1>5, <1>6

\* What macOS shows, and what is captured of it, are addresses.
LEMMA CaptureTypes ==
    ASSUME TypeOK, NEW seen \in {Effective, Effective \cup network.global}
    PROVE  Usable(seen, {Server}) \in SUBSET Address
  BY WatchdogConstants DEF TypeOK, Usable, Effective, Network

\* Every step of the loop, its tick and the world keeps the types.
LEMMA TypeNext == ASSUME TypeOK, [Next]_vars PROVE TypeOK'
<1>. USE LoopTypes, FirstFacts DEF world
<1>1. CASE TickIdle \/ TickFails \/ TimePasses
  <2>1. loop.due > 0 => [loop EXCEPT !.due = loop.due - 1] \in Loop
    BY Numbers DEF TypeOK, Loop
  <2>. QED
    BY <1>1, <2>1 DEF TickIdle, TickFails, TimePasses, TypeOK
<1>2. CASE TickStarts
  <2>1. tick' \in Tick
    BY <1>2 DEF TickStarts, TypeOK, NoTick, Tick
  <2>2. backup' \in Backup
    BY <1>2, WatchdogConstants DEF TickStarts, TypeOK, Backup
  <2>. QED
    BY <1>2, <2>1, <2>2 DEF TickStarts, TypeOK
<1>3. CASE Capture \/ CaptureFails
  <2>1. tick' \in Tick
    BY <1>3, CaptureTypes DEF Capture, CaptureFails, TypeOK, Tick
  <2>. QED
    BY <1>3, <2>1 DEF Capture, CaptureFails, TypeOK
<1>4. CASE TickClean \/ TickReasserts
  <2>1. Captured \in SUBSET Address
    BY DEF Captured, TypeOK, Tick
  <2>2. Remaining \in Drifts
    BY DEF Remaining, TypeOK, Drifts
  <2>. QED
    BY <1>4, <2>1, <2>2 DEF TickClean, TickReasserts, TypeOK
<1>5. CASE DaemonRestarts
  BY <1>5 DEF DaemonRestarts, TypeOK
<1>6. CASE TakeOver
  <2>1. backup' \in Backup
    BY <1>6, WatchdogConstants DEF TakeOver, TypeOK, Usable, Backup, Network
  <2>. QED
    BY <1>6, <2>1 DEF TakeOver, TypeOK, Drifts
<1>7. CASE Drift
  BY <1>7 DEF Drift, TypeOK
<1>8. CASE NetworkChanges
  BY <1>8 DEF NetworkChanges, TypeOK
<1>9. CASE UNCHANGED vars
  BY <1>9 DEF vars, TypeOK
<1>10. CASE TickIncomplete
  BY <1>10 DEF TickIncomplete, TypeOK, Drifts
<1>. QED
  BY <1>1, <1>2, <1>3, <1>4, <1>5, <1>6, <1>7, <1>8, <1>9, <1>10 DEF Next, TickEnds

-----------------------------------------------------------------------------
(* The bound on corrections *)

Cadence == SpacedInv /\ NormalInv /\ SlowInv /\ CorrectionsBounded

\* A daemon that starts has no corrections behind it.
LEMMA FirstCadence ==
    /\ (loop = FirstLoop /\ tick = NoTick /\ history = NoCorrections => Cadence)
    /\ (loop' = FirstLoop /\ tick' = NoTick /\ history' = NoCorrections => Cadence')
<1>. USE Numbers
<1>1. /\ FirstLoop.due = 0 /\ FirstLoop.slow = FALSE /\ FirstLoop.since = FlapWindow
      /\ NoTick.pc = "waiting" /\ \A i \in Recent : NoCorrections[i] = LongAgo
  BY DEF FirstLoop, NoTick, NoCorrections
<1>. QED
  BY <1>1 DEF Cadence, SpacedInv, NormalInv, SlowInv, CorrectionsBounded, Running

\* When the interval fires, the unit or the slow interval it waited is over.
LEMMA FiringCadence ==
    ASSUME TypeOK, Cadence, TickIdle \/ TickStarts
    PROVE  Cadence'
<1>. USE Numbers
<1>. loop \in Loop /\ history \in [Recent -> 0..LongAgo]
  BY DEF TypeOK
<1>1. loop' = Fired /\ history' = history /\ loop.due = 0 /\ ~Running
  BY DEF TickIdle, TickStarts, At, Running
<1>2. /\ loop'.due = Period(loop.slow) /\ loop'.slow = loop.slow
      /\ loop'.since = loop.since /\ loop'.strikes = loop.strikes
  BY <1>1 DEF Fired, Loop
<1>3. NormalInv'
  BY <1>1, <1>2 DEF Cadence, NormalInv, Period, Running, Loop
<1>4. SlowInv'
  BY <1>1, <1>2 DEF Cadence, SlowInv, Period, Running, Loop
<1>. QED
  BY <1>1, <1>3, <1>4 DEF Cadence, SpacedInv, CorrectionsBounded

\* A tick that reads or fails leaves the loop alone.
LEMMA QuietCadence ==
    ASSUME TypeOK, Cadence, UNCHANGED <<loop, history>>, Running' => Running
    PROVE  Cadence'
<1>. USE Numbers
<1>. loop \in Loop /\ history \in [Recent -> 0..LongAgo]
  BY DEF TypeOK
<1>1. NormalInv'
  BY DEF Cadence, NormalInv, Running, Loop
<1>. QED
  BY <1>1 DEF Cadence, SpacedInv, SlowInv, CorrectionsBounded

\* Each unit makes every correction older.
LEMMA TimeCadence ==
    ASSUME TypeOK, Cadence, TimePasses
    PROVE  Cadence'
<1>. USE Numbers
<1>. loop \in Loop /\ history \in [Recent -> 0..LongAgo]
  BY DEF TypeOK
<1>1. /\ loop'.due = loop.due - 1 /\ loop'.slow = loop.slow /\ ~Running /\ ~Running'
      /\ loop'.since = loop.since /\ loop'.strikes = loop.strikes /\ loop.due > 0
  BY DEF TimePasses, Loop, At, Running
<1>2. \A i \in Recent : history'[i] = IF history[i] < LongAgo THEN history[i] + 1 ELSE LongAgo
  BY DEF TimePasses, Older
<1>3. SpacedInv'
  BY <1>2 DEF Cadence, SpacedInv
<1>4. NormalInv'
  <2>. SUFFICES ASSUME ~loop.slow PROVE NormalInv'
    BY <1>1 DEF NormalInv
  <2>1. history'[1] + loop'.due >= loop'.since + 1 /\ loop'.due <= 1
    BY <1>1, <1>2 DEF Cadence, NormalInv, Loop
  <2>2. ASSUME loop.since < FlapWindow, loop.strikes = 1
        PROVE  history'[2] = LongAgo \/ history'[2] >= FlapWindow + 1 + history'[1]
    BY <1>2, <2>2 DEF Cadence, NormalInv, Loop
  <2>3. ASSUME loop.since < FlapWindow, loop.strikes >= 2
        PROVE  history'[loop.strikes + 1] = LongAgo
    <3>1. loop.strikes < FlapStrikes /\ loop.strikes \in Nat /\ history[loop.strikes + 1] = LongAgo
      BY <2>3 DEF Cadence, NormalInv, Loop
    <3>2. loop.strikes + 1 \in Recent
      BY <3>1 DEF Recent
    <3>. QED
      BY <1>2, <3>1, <3>2
  <2>4. loop.since < FlapWindow => loop.strikes >= 1 /\ loop.strikes < FlapStrikes
    BY DEF Cadence, NormalInv
  <2>. QED
    BY <1>1, <2>1, <2>2, <2>3, <2>4 DEF NormalInv, Loop
<1>5. SlowInv'
  BY <1>1, <1>2 DEF Cadence, SlowInv, Loop
<1>6. CorrectionsBounded'
  BY <1>2 DEF Cadence, CorrectionsBounded
<1>. QED
  BY <1>3, <1>4, <1>5, <1>6 DEF Cadence

\* A clean tick counts one unit more, or forgets the strikes.
LEMMA CleanCadence ==
    ASSUME TypeOK, Cadence, TickClean
    PROVE  Cadence'
<1>. USE Numbers
<1>. loop \in Loop /\ history \in [Recent -> 0..LongAgo]
  BY DEF TypeOK
<1>1. loop' = Calmer /\ history' = history /\ Running /\ ~Running'
  BY DEF TickClean, At, Running, NoTick
<1>2. SpacedInv' /\ CorrectionsBounded'
  BY <1>1 DEF Cadence, SpacedInv, CorrectionsBounded
<1>3. CASE loop.slow
  <2>1. loop'.due = 1 /\ loop'.slow = FALSE /\ loop'.since = FlapWindow
    BY <1>1, <1>3 DEF Calmer, FirstLoop, Period
  <2>2. history[1] = LongAgo
    BY <1>1, <1>3 DEF Cadence, SlowInv
  <2>. QED
    BY <1>1, <1>2, <2>1, <2>2 DEF Cadence, NormalInv, SlowInv
<1>4. CASE ~loop.slow /\ loop.since = FlapWindow
  <2>1. loop' = loop
    BY <1>1, <1>4 DEF Calmer
  <2>. QED
    BY <1>1, <1>2, <1>4, <2>1, QuietCadence
<1>5. CASE ~loop.slow /\ loop.since # FlapWindow
  <2>1. /\ loop'.due = loop.due /\ loop'.slow = FALSE /\ loop'.since = loop.since + 1
        /\ loop.since + 1 # FlapWindow => loop'.strikes = loop.strikes
    BY <1>1, <1>5 DEF Calmer, Loop
  <2>2. loop.since < FlapWindow
    BY <1>5 DEF Loop
  <2>. QED
    BY <1>1, <1>2, <1>5, <2>1, <2>2 DEF Cadence, NormalInv, SlowInv, Loop
<1>. QED
  BY <1>3, <1>4, <1>5

\* A correction comes after one unit at least, or after a whole slow interval,
\* and takes the place of one that is long ago.
LEMMA StrikeCadence ==
    ASSUME TypeOK, Cadence, TickReasserts
    PROVE  Cadence'
<1>. USE Numbers
<1>. loop \in Loop /\ history \in [Recent -> 0..LongAgo]
  BY DEF TypeOK
<1>1. loop' = Struck /\ history' = Corrected /\ Running /\ ~Running'
  BY DEF TickReasserts, At, Running, NoTick
<1>2. /\ loop'.since = 0 /\ loop'.strikes = Strikes
      /\ Strikes = FlapStrikes => loop'.slow
      /\ Strikes # FlapStrikes => loop'.slow = loop.slow
      /\ Strikes = FlapStrikes /\ ~loop.slow => loop'.due = Slow
      /\ Strikes # FlapStrikes \/ loop.slow => loop'.due = loop.due
  BY <1>1 DEF Struck, Loop
<1>3. history'[1] = 0 /\ \A i \in Recent : i # 1 => i - 1 \in Recent /\ history'[i] = history[i - 1]
  BY <1>1 DEF Corrected, Recent
<1>4. history[1] > 0
  BY <1>1 DEF Cadence, NormalInv, SlowInv, Loop
<1>5. \A i \in Recent : i # 1 => history[i] = LongAgo \/ history[i] > history[1]
  BY DEF Cadence, SpacedInv, Recent
<1>6. SpacedInv'
  <2>. SUFFICES ASSUME NEW i \in Recent, NEW j \in Recent, i < j, history'[j] # LongAgo
                PROVE  history'[i] < history'[j]
    BY DEF SpacedInv
  <2>1. j # 1 /\ j - 1 \in Recent /\ history'[j] = history[j - 1]
    BY <1>3 DEF Recent
  <2>2. CASE i = 1
    <3>1. history[j - 1] \in 0..LongAgo /\ history[j - 1] > 0
      BY <1>4, <1>5, <2>1
    <3>. QED
      BY <1>3, <2>1, <2>2, <3>1
  <2>3. CASE i # 1
    <3>1. i - 1 \in Recent /\ history'[i] = history[i - 1] /\ i - 1 < j - 1
      BY <1>3, <2>3 DEF Recent
    <3>. QED
      BY <2>1, <3>1 DEF Cadence, SpacedInv
  <2>. QED
    BY <2>2, <2>3
<1>7. \A i, j \in Recent : i <= j /\ history[i] = LongAgo => history[j] = LongAgo
  BY DEF Cadence, SpacedInv, Recent
<1>8. CASE loop.slow
  <2>1. history[1] = LongAgo /\ loop.strikes = FlapStrikes /\ loop.since = 0 /\ loop.due = Slow
    BY <1>1, <1>8 DEF Cadence, SlowInv
  <2>2. Strikes = FlapStrikes
    BY <2>1 DEF Strikes
  <2>3. history[FlapStrikes] = LongAgo
    BY <1>7, <2>1 DEF Recent
  <2>4. CorrectionsBounded'
    BY <1>3, <2>3 DEF CorrectionsBounded
  <2>5. NormalInv' /\ SlowInv'
    <3>1. /\ loop'.slow /\ loop'.due = Slow /\ loop'.strikes = FlapStrikes /\ loop'.since = 0
          /\ history'[1] = 0 /\ ~Running'
      BY <1>1, <1>2, <1>3, <1>8, <2>1, <2>2
    <3>. QED
      BY <3>1 DEF NormalInv, SlowInv
  <2>. QED
    BY <1>6, <2>4, <2>5 DEF Cadence
<1>9. CASE ~loop.slow /\ loop.since = FlapWindow
  <2>1. Strikes = 1 /\ loop.due = 1 /\ history[1] >= FlapWindow + 1
    BY <1>1, <1>9 DEF Cadence, NormalInv, Strikes
  <2>2. history[2] = LongAgo
    <3>1. history[2] \in 0..LongAgo
      OBVIOUS
    <3>. QED
      BY <1>5, <2>1, <3>1
  <2>3. history[FlapStrikes] = LongAgo
    BY <1>7, <2>2 DEF Recent
  <2>4. CorrectionsBounded'
    BY <1>3, <2>3 DEF CorrectionsBounded
  <2>5. history'[2] = history[1]
    BY <1>3
  <2>6. NormalInv' /\ SlowInv'
    <3>1. /\ ~loop'.slow /\ loop'.due = 1 /\ loop'.strikes = 1 /\ loop'.since = 0
          /\ history'[1] = 0 /\ history'[2] >= FlapWindow + 1 /\ ~Running'
      BY <1>1, <1>2, <1>3, <1>9, <2>1, <2>5
    <3>. QED
      BY <3>1 DEF NormalInv, SlowInv
  <2>. QED
    BY <1>6, <2>4, <2>6 DEF Cadence
<1>10. CASE ~loop.slow /\ loop.since # FlapWindow
  <2>1. loop.since < FlapWindow /\ loop.since \in Nat /\ loop.strikes \in Nat
    BY <1>10 DEF Loop
  <2>2. /\ loop.strikes >= 1 /\ loop.strikes < FlapStrikes /\ loop.due = 1
        /\ loop.strikes >= 2 => history[loop.strikes + 1] = LongAgo
        /\ loop.strikes = 1 => history[2] = LongAgo \/ history[2] >= FlapWindow + 1 + history[1]
    BY <1>1, <1>10, <2>1 DEF Cadence, NormalInv
  <2>3. Strikes = loop.strikes + 1
    BY <1>10, <2>2 DEF Strikes
  <2>4. loop.strikes + 1 \in Recent /\ loop.strikes + 2 \in Recent
    <3>1. \A k \in Nat : k < FlapStrikes => k + 1 \in Recent /\ k + 2 \in Recent
      BY DEF Recent
    <3>. QED
      BY <2>1, <2>2, <3>1
  <2>5. history[loop.strikes + 1] = LongAgo
    <3>1. history[1] \in 0..LongAgo /\ history[2] \in 0..LongAgo
      OBVIOUS
    <3>. QED
      BY <1>4, <2>1, <2>2, <3>1
  <2>6. history'[loop.strikes + 2] = LongAgo
    <3>1. loop.strikes + 2 # 1 /\ (loop.strikes + 2) - 1 = loop.strikes + 1
      BY <2>1
    <3>. QED
      BY <1>3, <2>4, <2>5, <3>1
  <2>7. history[FlapStrikes] = LongAgo
    BY <1>7, <2>1, <2>2, <2>4, <2>5 DEF Recent
  <2>8. CorrectionsBounded'
    BY <1>3, <2>7 DEF CorrectionsBounded
  <2>9. NormalInv' /\ SlowInv'
    <3>1. loop'.strikes = loop.strikes + 1 /\ loop'.since = 0 /\ history'[1] = 0 /\ ~Running'
      BY <1>1, <1>2, <1>3, <2>3
    <3>2. loop'.strikes \in Nat /\ loop'.strikes >= 2 /\ loop'.strikes <= FlapStrikes
      BY <2>1, <2>2, <3>1
    <3>3. history'[loop'.strikes + 1] = LongAgo
      <4>1. loop'.strikes + 1 = loop.strikes + 2
        BY <2>1, <3>1
      <4>. QED
        BY <2>6, <4>1
    <3>4. CASE Strikes = FlapStrikes
      <4>1. loop'.slow /\ loop'.due = Slow /\ loop'.strikes = FlapStrikes
        BY <1>2, <1>10, <3>4
      <4>. QED
        BY <3>1, <4>1 DEF NormalInv, SlowInv
    <3>5. CASE Strikes # FlapStrikes
      <4>1. ~loop'.slow /\ loop'.due = 1 /\ loop'.strikes # FlapStrikes
        BY <1>2, <1>10, <2>2, <3>5
      <4>. QED
        BY <3>1, <3>2, <3>3, <4>1 DEF NormalInv, SlowInv
    <3>. QED
      BY <3>4, <3>5
  <2>. QED
    BY <1>6, <2>8, <2>9 DEF Cadence
<1>. QED
  BY <1>8, <1>9, <1>10

\* Every step keeps the bound.
LEMMA CadenceNext == ASSUME TypeOK, Cadence, [Next]_vars PROVE Cadence'
<1>1. CASE DaemonRestarts
  BY <1>1, FirstCadence DEF DaemonRestarts
<1>2. CASE UNCHANGED <<loop, history>> /\ (Running' => Running)
  BY <1>2, QuietCadence
<1>3. \/ DaemonRestarts \/ TickIdle \/ TickStarts \/ TickClean \/ TickReasserts \/ TimePasses
      \/ UNCHANGED <<loop, history>> /\ (Running' => Running)
  BY DEF Next, TickEnds, Capture, CaptureFails, TickIncomplete, TickFails, TakeOver, Drift, NetworkChanges,
         vars, At, Running, NoTick
<1>. QED
  BY <1>1, <1>2, <1>3, FiringCadence, CleanCadence, StrikeCadence, TimeCadence

-----------------------------------------------------------------------------
(* What is learned of the network *)

\* What is usable of what macOS shows comes from the network it is in.
LEMMA UsableIsLearned ==
    ASSUME TypeOK, NEW denied, Server \in denied, NEW seen \in SUBSET Address,
           seen \subseteq {Server} \cup network.global
    PROVE  Learned(Usable(seen, denied))
  BY DEF TypeOK, Learned, Usable

\* So does the list of a daemon that starts, or from its backup.
LEMMA StartIsRecorded == ASSUME TypeOK, LearnedInv PROVE Recorded(StartingFallback)
<1>. Server \in Listeners /\ Listeners \subseteq Address
  BY WatchdogConstants
<1>1. CASE ~backup.exists
  <2>1. Effective \in SUBSET Address /\ Effective \subseteq {Server} \cup network.global
    BY WatchdogConstants DEF Effective, TypeOK, Network
  <2>2. Learned(StartingFallback)
    BY <1>1, <2>1, UsableIsLearned DEF StartingFallback, Candidates
  <2>. QED
    BY <2>2 DEF Learned, Recorded
<1>2. CASE backup.exists /\ backup.fallback # {}
  BY <1>2 DEF LearnedInv, Recorded, StartingFallback, Candidates, Usable
<1>3. CASE backup.exists /\ backup.fallback = {}
  BY <1>3 DEF LearnedInv, Recorded, StartingFallback, Candidates, Usable
<1>. QED
  BY <1>1, <1>2, <1>3

\* Nothing is captured or recorded but what some network or service has shown.
LEMMA LearnedNext == ASSUME TypeOK, LearnedInv, [Next]_vars PROVE LearnedInv'
<1>. Learned({}) /\ Server \in Address
  BY WatchdogConstants DEF TypeOK, Learned
<1>1. CASE Capture
  <2>1. PICK seen \in {Effective, Effective \cup network.global} :
           tick' = [tick EXCEPT !.pc = "ending", !.captured = Usable(seen, {Server})]
    BY <1>1 DEF Capture
  <2>2. seen \in SUBSET Address /\ seen \subseteq {Server} \cup network.global
    BY WatchdogConstants DEF Effective, TypeOK, Network
  <2>3. tick'.captured = Usable(seen, {Server})
    BY <2>1 DEF TypeOK, Tick
  <2>. QED
    BY <1>1, <2>2, <2>3, UsableIsLearned DEF Capture, world, LearnedInv, Learned, Recorded
<1>2. CASE CaptureFails
  <2>1. tick'.captured = tick.captured
    BY <1>2 DEF CaptureFails, TypeOK, Tick
  <2>. QED
    BY <1>2, <2>1 DEF CaptureFails, world, LearnedInv, Learned, Recorded
<1>3. CASE TickStarts
  <2>1. tick'.captured = {}
    BY <1>3 DEF TickStarts, NoTick
  <2>2. PICK new \in Lists : backup' = [backup EXCEPT !.services = @ \cup new]
    BY <1>3 DEF TickStarts
  <2>3. backup'.services = backup.services \cup new /\ backup'.fallback = backup.fallback
    BY <2>2 DEF TypeOK, Backup
  <2>. QED
    BY <2>1, <2>3 DEF LearnedInv, Learned, Recorded, Listed
<1>4. CASE tick' = NoTick /\ UNCHANGED backup
  BY <1>4 DEF NoTick, LearnedInv, Learned, Recorded
<1>5. CASE TakeOver
  <2>1. PICK seen \in {{}, network.global}, services \in Lists :
           backup' = [exists |-> TRUE, services |-> services,
                      fallback |-> Usable(seen \cup services, {Server})]
    BY <1>5 DEF TakeOver
  <2>2. /\ backup'.services = services
        /\ backup'.fallback = Usable(seen \cup services, {Server})
    BY <2>1
  <2>3. Recorded(backup'.fallback)
    BY <2>1, <2>2 DEF TypeOK, Usable, Recorded, Listed
  <2>. QED
    BY <1>5, <2>2, <2>3 DEF TakeOver, LearnedInv, Learned, Listed
<1>6. CASE UNCHANGED <<tick, backup>>
  BY <1>6 DEF LearnedInv, Learned, Recorded
<1>. QED
  BY <1>1, <1>2, <1>3, <1>4, <1>5, <1>6 DEF Next, TickEnds, TickIdle, TickClean, TickReasserts,
     TickIncomplete, TickFails, TimePasses, DaemonRestarts, Drift, NetworkChanges, vars, world

\* Every reachable state satisfies the inductive invariant.
THEOREM WatchdogInvariance == Spec => []IInv
<1>1. Init => IInv
  <2>. SUFFICES ASSUME Init PROVE IInv
    OBVIOUS
  <2>1. Cadence
    BY FirstCadence DEF Init
  <2>2. LearnedInv
    BY DEF Init, NoTick, NoBackup, LearnedInv, Learned, Recorded
  <2>. QED
    BY <2>1, <2>2, TypeInit DEF IInv, Cadence
<1>2. IInv /\ [Next]_vars => IInv'
  <2>. SUFFICES ASSUME IInv, [Next]_vars PROVE IInv'
    OBVIOUS
  <2>1. TypeOK' /\ LearnedInv'
    BY TypeNext, LearnedNext DEF IInv
  <2>2. Cadence'
    BY CadenceNext DEF IInv, Cadence
  <2>. QED
    BY <2>1, <2>2 DEF IInv, Cadence
<1>. QED
  BY <1>1, <1>2, PTL DEF Spec

-----------------------------------------------------------------------------
(* The properties *)

\* Types hold for any addresses, networks and cadence.
THEOREM WatchdogTypeCorrect == Spec => []TypeOK
<1>1. IInv => TypeOK
  BY DEF IInv
<1>. QED
  BY <1>1, WatchdogInvariance, PTL

\* However another tool rewrites DNS and ticks fail, the daemon never completes
\* more than FlapStrikes corrections within a flap window and two units
\* (watchdog_loop).  Corrections by ticks that fail in the middle of their writes
\* count no strike and are not among them (TickIncomplete).
THEOREM CorrectionsStayBounded == Spec => []CorrectionsBounded
<1>1. IInv => CorrectionsBounded
  BY DEF IInv
<1>. QED
  BY <1>1, WatchdogInvariance, PTL

\* A running daemon keeps resolvers to fall back on, and learns only ones that a
\* network announced for all domains; a daemon that starts may also take what the
\* backup recorded of the services' own lists (watchdog_loop, fallback_servers).
THEOREM FallbackStays == Spec => FallbackKept
<1>. DEFINE From == IF DaemonRestarts THEN UNION Lists ELSE {}
            Kept == /\ fallback # {} /\ ~DaemonRestarts => fallback' # {}
                    /\ fallback' # fallback =>
                         \E n \in Networks : fallback' \subseteq (n.global \cup From) \ {Server}
<1>1. IInv /\ [Next]_vars => [Kept]_vars
  <2>. SUFFICES ASSUME IInv, Next PROVE Kept
    OBVIOUS
  <2>. TypeOK /\ LearnedInv
    BY DEF IInv
  <2>1. CASE DaemonRestarts
    <3>1. fallback' = StartingFallback \/ fallback' = {}
      BY <2>1 DEF DaemonRestarts
    <3>2. Recorded(fallback')
      BY <3>1, StartIsRecorded DEF Recorded, TypeOK
    <3>. QED
      BY <2>1, <3>2 DEF Recorded, Listed
  <2>2. CASE fallback' = Captured
    <3>1. fallback' # fallback => Learned(fallback')
      BY <2>2 DEF Captured, LearnedInv
    <3>2. fallback # {} => fallback' # {}
      BY <2>2 DEF Captured
    <3>. QED
      BY <3>1, <3>2 DEF Learned
  <2>3. CASE fallback' = fallback
    BY <2>3
  <2>. QED
    BY <2>1, <2>2, <2>3 DEF Next, TickEnds, TickIdle, TickStarts, Capture, CaptureFails, TickClean,
       TickReasserts, TickIncomplete, TickFails, TimePasses, TakeOver, Drift, NetworkChanges
<1>. QED
  BY <1>1, WatchdogInvariance, PTL DEF Spec, FallbackKept
=============================================================================
