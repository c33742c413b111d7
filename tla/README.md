# DNSRivet: TLA+ models, checks and proofs

DNSRivet is a local encrypted-DNS proxy for macOS. A daemon listens on a loopback
address, forwards queries over DoT, DoH, DoQ or plain DNS, and is started, stopped and
reconfigured by root commands that point the system's network services at it ("the
takeover") and restore them afterwards. This directory holds TLA+ models of the parts
whose state is shared, persisted or raced for, the TLC runs that check them on small
instances, and TLAPS proofs of what matters most.

Source paths below are relative to `src/src/`. `PROJECT.json` lists runs, hazards,
theorems, and the source lines every definition stands for.

## 1. The system

| Component | State | Operations | Hard behaviour | What makes it correct |
|---|---|---|---|---|
| DNS takeover (`osdns/macos.rs`, `osdns/lock.rs`) | `dns-backup.toml` (original settings by service name, history of takeover addresses), the `takeover-active` marker, the DNS settings of the network services, the DNS file lock | `take_over`, `release`, `restore_at`, `rollback`, `takeover_intact`, `watchdog_tick` | a kill or failing `networksetup` at any step; services renamed, added or changed between two reads; two processes; backups of older releases | a service steered to DNSRivet is always covered by restore data that recognises it; originals are recorded once and never replaced by DNSRivet's own address |
| Lifecycle commands (`service/mod.rs`) | lifecycle file lock, installed configuration and executable, command link, launchd job | `start`, `stop`, `uninstall`, `restart`, `restart --config`, their cleanups and rollbacks | each is a sequence of steps that may fail in the middle; `restart` waits for the daemon, which takes the DNS lock | no service is left at a resolver that does not run; success is reported only for a verified takeover; no file names what is missing; commands never wait for each other forever |
| Installer package (`../packaging/macos/scripts`) | the executable and the command link, shared with the commands without a lock | `preinstall`, payload, `postinstall` with a `restart` | runs beside any command | it replaces nobody's command; what it links is there |
| launchd job (`service/launchd.rs`) | plist, disabled override, loaded job | write, enable, bootstrap, kickstart, bootout | job and takeover must be removed in the right order; reboots | see above |
| Watchdog loop (`proxy/mod.rs:99-190`) | interval, strikes, flap window, slow mode, and the fallback resolvers it publishes | tick, capture, publish, slow down | cadence changes while it loops; macOS hides the network's resolvers while DNS points at the proxy; ticks that fail | drift is repaired; a fight with another tool slows the watchdog and never stops it; known resolvers are not forgotten |
| Encrypted channel (`upstream/encrypted.rs`) | per upstream: connection, generation, failures, cooldown, time of last use, behind an async mutex held across a dial | `query`, `acquire`, `invalidate`, `backoff`, `store`, redial | many queries see one failure, some late; cancellation during a dial; host sleep | one outage is charged once; a late failure harms no successor; the one redial uses a new connection |
| Upstream manager (`upstream/mod.rs`) | budget of attempt permits, system fallback list; per query a race of attempts | `forward`, `forward_hedged`, `configured_answer`, `forward_to_system` | hedged races, losers that outlive their query, exhausted budget, upstreams without a timeout | no permit is lost; order is kept; unencrypted resolvers come last |
| Bootstrap (`upstream/bootstrap.rs`) | per host and address stack: cached addresses, last failure, refresh lock | `resolve`, `invalidate`, detached lookups | cancelled callers, waiters with old plans, expiry against failure | lookups are shared and spaced; stale addresses are used exactly while they may be |
| Legacy transport (`upstream/legacy.rs`) | none shared | one UDP exchange, and one over TCP after a truncated answer | foreign and late datagrams | only an answer to the query counts |
| Proxy listeners (`proxy/mod.rs:192-`) | UDP and connection semaphores, cache | accept, admit, answer | overload; clients that leave; answers of one client kept for another | no permit is lost; each client gets an answer to its own query that it can take |
| Answer cache (`proxy/cache.rs`) | bounded map with expiry | `get`, `insert` | entries that age in steps, capacity, keys | never an expired answer, nor one to another question |
| Wire format (`wire.rs`) | none | cache keys, TTLs, truncation, validation | arithmetic at limits; answers about an absence | an answer is kept no longer than all it says allows |
| Atomic file (`atomic_file.rs`) | a temporary file beside the target | write, sync, rename | crash between steps | old or new file, never part of one |
| Configuration (`config.rs`), command line (`main.rs`, `cli.rs`), logger | none at run time | parse, dispatch | | |

**Interactions.** A command holds the lifecycle lock from its first read to its exit and
takes the DNS lock around its DNS transaction. The daemon, started by launchd, runs the
watchdog loop, whose ticks take the DNS lock, and publishes the system's resolvers to the
upstream manager. Listeners hand queries to the manager, which runs attempts; an attempt
at an encrypted upstream calls its channel, which calls bootstrap to resolve and to
invalidate. Inside the daemon everything runs on one thread (`main.rs:122`), so code
interleaves at awaits only.

## 2. Modules

| Module | Models | Variables and actions |
|---|---|---|
| `Takeover` | commands, DNS transactions, launchd job, watchdog ticks, user and macOS | `backup`, `marker`: the two files. `dns`, `present`, `off`: network services. `job`, `config`: launchd and the installed address. `cli`: the command under the lifecycle lock, `daemon`: the process and its tick, `dnsLock`. `hung`: the processes whose child does not return. `ours` is history: services whose setting a takeover wrote last. One action per write; failing variants (`...Fails`) beside them |
| `TakeoverProofs` | | theorems about `Takeover` |
| `Connection` | the abstract promise of an upstream's slot: no queries, no locks | `generation`, `status`, `failures` |
| `Channel` | `Slot`, `Channel::query`, `acquire` | `slot`, `mutex` (held across a dial), `query` (one program counter each), `slept`. `Promise == INSTANCE Connection` is the refinement |
| `ChannelProofs` | | theorems about `Channel`, its refinement included |
| `Forward` | `Manager::forward`, `forward_hedged`, `forward_to_system` | `permits`, `query` (the loop and its `hedge_at`), `attempt` (one state per query and upstream), `system` (fallback list) |
| `Bootstrap` | `Bootstrap::resolve`, its slots and lookups | `slot`, `held` (refresh lock), `lookups`, `caller` |
| `BootstrapProofs` | | theorems about `Bootstrap` |
| `ForwardProofs` | | theorems about `Forward` |
| `Watchdog` | `watchdog_loop`, and the fallback resolvers of `osdns/macos.rs` | `loop` (its local variables and the time to the next tick), `tick`, `fallback`, the files and the network it reads. `history` is history: the ages of the last corrections |
| `WatchdogProofs` | | theorems about `Watchdog` |
| `Install` | the files of `start`, `stop`, `uninstall` and `restart`, `atomic_file.rs`, and the scripts of the installer package | `file`, `cached` (contents a power loss would tear), `link` (the command path), `job`, `package` (Homebrew's executable), `installer` (its next step), `cmd` (the command with its program counter and the stage of its write) |
| `InstallProofs` | | theorems about `Install` |
| `Wire` | `wire.rs` on messages as records | operators only |
| `Cache` | `proxy/cache.rs`, over `Wire` | `entries`, most recently used first, and the clock `now` |
| `CacheProofs` | | theorems and lemmas about the operators of `Wire` and about `Cache` |
| `Proxy` | listeners and `legacy.rs`, composed with `Cache` and `Wire` | `free` and `queue` (the query semaphore), `slots` (connections), `task` (one per client) |
| `ProxyProofs` | | theorems about `Proxy` with its cache |
| `MC...` | | constants of the instances |

Operators introduced by a comment "Mutation of X" are wrong variants of `X`, placed
before it. No specification uses them; put in place of `X`, each makes a run fail, which
shows that the property depends on that piece of code (`PROJECT.json`, "mutants").

### Abstractions, and what they assume

*Takeover.* A DNS setting is a list of addresses, compared in order as the code does
(`macos.rs:310`). Groups of reads between which nothing is
decided are one step; each write, and each read of the verifying loop of `restore_at`, is
its own. A failing `networksetup` leaves the setting as it was; one that hangs (`ChildHangs`:
`networksetup` and `launchctl` have no timeout) keeps its command or its tick, with the
locks it holds, until the process is killed. What an older release left is a takeover by
an address that none of its originals listed, which it refused; other addresses that a
later configuration may take over with can be among them. The write of the backup is
atomic (`Install` shows it of `atomic_file.rs`). `CliAborts` stands for a kill and for any error returned with
`?`. A tick that ends between the daemon's SIGTERM and its exit is the tick that ends
just before `Kick` or `StopBootout`. A name that the
running command has still to process is not given to another service before the command
gets to it (`FreeName`): the code knows services by name and could not tell the two apart.
Detection of the services in use and the
capture of resolvers change no takeover state (`Watchdog` has the capture). Strings, TOML and log lines are left out.

*Channel.* Resolving and dialing all candidate addresses is one outcome, since the loop
over them never touches the slot. The protocol (TLS, HTTP/2, HTTP/3, QUIC) is an outcome
of the send. A query past its deadline is polled within the outer timeout's margin of
250 ms when the mutex is free, so it handles its failure before the outer timeout drops it.

*Forward.* An attempt ends with an answer, or with an error or SERVFAIL. The proxy never
drops a `forward` future. Panics of a task, the flags that only choose a log line, and
the check of a reply against its question are left out; the separate code for a single
upstream behaves as the general one with `N = 1`.

*Bootstrap.* The map of slots is never locked across an await, so a plan and what follows
from it are one step. Tokio's mutex hands a released lock to its first waiter, so
the lock is not free while someone waits. The loop over servers, UDP and TCP is the
outcome of the lookup; a lifetime is only whether it has passed (fresh, stale, or dead
after `MAX_STALE`), so the TTL clamp is a lifetime of some length.

*Watchdog.* Time passes in units of `WATCHDOG_INTERVAL`, and a tick takes less than one:
the corrections of a slow tick are counted when it began. Strikes past `FlapStrikes` and
ages past `FlapWindow + 2` make no difference and are not counted. What a tick
writes is the subject of `Takeover`; here the services drift together, in two ways: macOS
still shows the proxy ("hidden"), or shows the network's own resolvers ("shown"). A
correction is complete when every service of the tick's snapshot was written. A tick that
ends with "reassert incomplete" (`TickIncomplete`) has corrected some of them, drops what
it captured and counts no strike; one that fails before its writes changes nothing
(`TickFails`). The lists that services have of their own are sets in `Lists`, recorded by
a takeover and by the ticks that find new services. macOS shows the proxy, or the
network's resolvers beside it, while DNS points at the proxy.

*Install.* One command runs at a time (the lifecycle lock). The installer package runs
beside it: `preinstall`, the payload, the link and the restart are steps of their own, and
only the restart takes the lock. The payload, which macOS's Installer unpacks, is one
step. Homebrew and users may change the command path at any time, and put an executable of
DNSRivet itself there ("copy") or something else. The administrator edits the
configuration only of a service that is stopped (`ConfigEdited`). Renames and removals
reach the disk in the order they were made, contents when they are synced: this is what
`atomic_file.rs` relies on, too. Probing and DNS transactions are outcomes.

*Wire, Cache and Proxy.* Bytes are parsed before the model begins: a message is a record,
its size is one unit for the header, each question and each record, and a malformed
message has no key and no TTL. The class of a question is folded into its type, record
data is left out except what bounds a TTL. Servers may mark an answer as truncated over UDP,
over TCP and over encrypted transports; the code passes the latter two on as they are.
Which upstreams are asked in which order is `Forward`'s subject; here an answer comes over
UDP, over TCP after a truncated one, or from an encrypted upstream, or all fail. A clock
tick is a fraction of a second; an idle client is one that goes away.

## 3. Runs

| Run | Checks | Bounds |
|---|---|---|
| `takeover_safety` | recovery data, served services, recorded originals, arming of ticks, truth of `restart --config`, causes of a refused `stop` | two services and a spare name for a rename or a new service, two listener addresses and another local resolver, settings of up to two addresses in both orders, 3 commands, 1 failure or kill, 2 outside changes, at any point; or from a takeover by an older release whose originals list other listeners or local resolvers, or a marker without backup, with 2 commands |
| `takeover_live` | commands end unless a child keeps them; drift is repaired | one service and a spare name, 2 commands, 1 failure or hanging child, 1 change |
| `channel` | the slot implements `Connection`; redials are fresh; failures are accounted; queries end, and without a timeout none waits for the slot forever | 2 queries, 4 connections, 2 sleeps, backoff capped at 2, an upstream with a timeout and one without (`timed`) |
| `forward` | permits, order, causes of SERVFAIL, termination | 2 queries, 4 upstreams (one without connection, one without timeout), 3 permits, up to 2 system resolvers |
| `bootstrap` | lookups shared and spaced per host and stack, recorded outcomes, honest answers, callers end | 3 callers, 2 address stacks |
| `watchdog` | complete corrections are bounded, slow mode ends, the fallback is learned and kept | the constants of the code (3 strikes, a window of 3 ticks, slow ticks 15 times as rare), three networks, services without lists or with one resolver of their own, 2 changes of network, 2 failures, incomplete ticks or restarts |
| `proxy` | answers match and fit their clients, entries age exactly, permits, waiting connections are served | a UDP client and two connections, one permit for queries, one entry, five kinds of query, three bodies of answer, 2 clock ticks to a second |
| `install` | whole files, complete installations, other tools' commands, with an installer beside the commands | two executables, two configurations and a text that does not load, 3 commands, 2 failures, kills or power losses, 3 outside changes or installer runs |
| `watchdog_blocked`, `restore_own_address`, `blocked_hedge`, `fallback_recurses` | statements of the documentation that the code does not meet (section 6) | smallest instances that show it |

Why the bounds are enough: the hazards of the takeover need a command that stops in the
middle, a change between two of its reads, and a later command or tick that meets what is
left: 1 failure, 2 changes, 3 commands. Two services make a transaction partial, a third
name makes a rename. In `channel`, a stale failure needs two queries and a successor
connection, a redial a third one; four generations leave one more, and a backoff
capped at 2 reaches its cap. In `forward`, 3 permits are fewer than two races need, so the
budget is spent in every order, and four upstreams make a race, a blocked hedge and a rest
of the list. In `bootstrap` two callers can wait while a third refreshes, and a
caller can be cancelled and come back. In `watchdog` nothing bounds drift and time, so
fights of every rhythm occur; two changes show a network that comes and goes. In
`proxy`, one permit makes everybody else wait, one entry makes every insertion evict, a
life of two seconds with half seconds makes an entry age in uneven steps; messages over
the smallest limit are cut. The run's queries differ in EDNS, DO, size and number of questions;
AD and CD, names and types are the same in all of them, and no message exceeds the largest
limit: of these the theorems speak (`AnswersAlwaysMatch`, `AnswersAlwaysFit`), the run does
not. In `install`
a half-done command, a second one that dies on top of it and a third that meets both fit
into the bounds. `MaxFaults`, `MaxChanges`, `MaxCommands`, `MaxGeneration`, `MaxSleeps` and
`MaxNow` bound TLC's search; the proofs hold for all values. `Takeover`, `Forward` and
`Install` runs switch deadlock checking off because their machines stop when commands and
changes, or queries, are used up. `takeover_safety` treats the two services that exist at
first as symmetric, and the two listener addresses: it checks no liveness, the code
compares names and addresses only for equality, and the one value the model picks, `prev`
of a command that never reads it, affects nothing. Liveness runs use no symmetry.

### Fairness

* `Takeover`: the running command and the daemon take their next step unless a child
  process of theirs hangs, launchd restarts the daemon (`KeepAlive`) and the interval
  fires. A command that waits for the DNS lock gets it if it is free again and again: the
  next tick comes two minutes after the last. Nothing is assumed of the user, macOS,
  failures or children: `CommandsEnd` says that a command ends or waits for a child that
  hangs, its own or one of the tick that holds the lock, and `WatchdogRepairs` promises a
  repair only if no child hangs with the lock.
* `Channel`: a dial ends (`CONNECT_TIMEOUT`), Tokio's mutex is first-in first-out, a send
  ends if the upstream has a timeout. Nothing makes clients ask again or servers answer.
* `Forward`: tasks are polled, attempts with a timeout end, an aborted task is dropped, a
  system resolver has two seconds. An attempt without a timeout may last forever.
* `Bootstrap`: a lookup ends (four servers, three seconds each), the refresh lock is
  first-in first-out.
* `Watchdog`: time passes, the interval fires, and a tick ends, which takes its child
  processes to return (`Takeover` has those that do not). Nothing is
  assumed of drift, networks or failures; the liveness properties hold once these cease.
* `Proxy`: a task that holds a permit proceeds. This takes upstreams to have timeouts,
  which the configuration may switch off: a client that waits for such an upstream keeps
  its permit. The order of waiting connections is Tokio's semaphore, first-in first-out.

## 4. Proofs

All theorems hold for every value of the constants under the named assumptions of the
modules: listeners are loopback addresses and bounds are numbers (`ConstantsOK`), nobody
is not a query (`ChannelConstants`), slow ticks are rarer than the flap window is long
(`WatchdogConstants`), contents of files differ (`InstallConstants`), clients are finitely
many (`BootstrapConstants`, `ForwardConstants`, `ProxyConstants`), a header and one question
fit the smallest limit of a client (`WireConstants`; names have 255 bytes at most, the limit
512), and the OPT record of a reply is not part of its body (`ProxyConstants`).

**Takeover** (`TypeCorrect`, `Invariance`, `RecoveryData`, `Served`, `RecordsForeign`,
`OriginalsStay`, `StaysConsistent`, `TakenArmed`, `VerifiedSwitches`, `CalmRestores`). "A steered service is covered by restore data" is not inductive: whether
a step keeps it depends on which process is where in its transaction. `IInv` adds
* `LockInv`: the DNS lock is held exactly by the process inside a transaction, so a
  tick's reads stay valid until its write as far as other processes are concerned;
* `BackupInv`: at which points of a command the backup exists, and that a tick in progress
  has one;
* `JobInv`: the job is on disk, enabled and loaded while a backup exists;
* `HistoryInv`: an address is in the history before a service is pointed at it; while a
  backup has no history, every steered service lists a loopback address, so it is
  recognised unless its recorded original is that very list;
* `LoopInv`: in the loops that undo or verify, every steered service is still ahead, or
  the loop is bound to fail on a name that is gone. This is why a service that changes its
  name behind a restore cannot lose its data.

The proof has one lemma per process (`StartInductive`, `StopInductive`, ...), one step per
action and one leaf per conjunct it disturbs. Renames are the hard cases: a rename moves a
service past the loops, and is harmless because its old name then fails them.

Three action properties also depend on which command is where, on when the marker exists
and on which services a loop may set: `ArmedInv` (`ArmedInvariance`), inductive relative
to `IInv`. With it `StaysConsistent` looks only at the steps that write the marker or the
backup (`MarkerSteps`, `BackupSteps`), `TakenArmed` only at those that steer a service
(`SteeringSteps`), and `VerifiedSwitches` only at the one step that ends a `restart
--config` without a failure (`ReconfigEnds`).

`CalmRestores` says why a `stop` that nobody disturbs succeeds. `CalmInv`
(`CalmInvariance`) says what holds as long as there was no failure and no outside change:
the backup names every service that exists, the loop of `restore_at` has put the original
setting back wherever it is done, and the verification has failed only if an original
names an address of the history. Calm never returns once it is gone (`StaysCalm`), which
is why no step of the world needs a case of its own; `RestoreUndisturbed` is where the DNS
lock keeps the ticks out. The theorem names the only cause of a refusal, which
`restore_own_address` (section 6) shows to exist.

**Channel** (`ChannelTypeCorrect`, `ChannelInvariance`, `RetriesAreFresh`,
`HealthyStaysClean`, `FailuresAreAccounted`, `ImplementsConnection`). `IInv` says that the
mutex belongs to the query that dials, that a slot being dialed is empty and not cooling,
that no query knows a generation newer than the slot's, and that a query that tries again
knows its first connection to be retired. Refinement follows action by action: a step of a
query is a step of `Connection` when it changes the slot, and a stutter otherwise.

**Bootstrap** (`BootstrapInvariance`, `LookupsAreShared`, `LookupsAreSpaced`,
`OutcomesAreRecorded`, `AnswersAreHonest`, `StaleAnswersAreTried`). `Inv` says that a key
is locked exactly while a lookup of it is in flight, and that a caller that awaits one has
its key locked. Because the lock moves into the task, no cancellation can break either.

**Forward** (`ForwardInvariance`, `ForwardTypeCorrect`, `PermitsStayAccounted`,
`PlaintextStaysLast`, `UntimedStaysAlone`, `GivesUpOnlyForCause`). `Stage` says which
states the attempts of a query are in at each point of its progress: upstreams before the
next one were started in order, and none is abandoned but by an answer. `Raced` says that a
hedge is armed between two upstreams with a timeout. The count of the permits is a sum of
two cardinalities; one lemma for each says how it changes when one attempt or one query
does, and an answer that turns all losers at once changes none. That the budget is never
negative is a guard; that it is never above `MAX_ATTEMPTS` follows from the count.

**Watchdog** (`WatchdogInvariance`, `WatchdogTypeCorrect`, `CorrectionsStayBounded`,
`FallbackStays`). The bound on corrections needs to know why each interval between them
is long: `SpacedInv` spaces corrections by the interval, `NormalInv` ties the strikes and
the time since the last correction to the ages of the corrections they count, and
`SlowInv` says that a slow loop which fires has left its last correction behind. It holds
for any window and number of strikes of at least two, if slow ticks are rarer than the
window plus one. Only complete corrections are bounded: ticks that fail in the middle of
their writes leave the loop as it was, so they do not disturb the argument, and what they
corrected is not counted, by the code or by the property. `LearnedInv` says what a tick's
capture and the lists of a backup may contain, which `FallbackStays` needs when a daemon
starts.

**Install** (`InstallInvariance`, `InstallTypeCorrect`, `FilesStayWhole`,
`InstallationStaysComplete`, `ForeignCommandsStay`). `WholeInv` says that nothing unsynced
is ever renamed into place, `CommandInv` what a command checked when it began,
`PreparedInv` what its past steps have left for those ahead, `PathInv` what it knows
of the command path, and `InstallerInv` that what an installer is about to link is there.
Two exceptions are part of the statements, because the code has them: an `uninstall`
between the installer's payload and its link leaves the link dangling
(`installer.overlap`), and a foreign command that comes to the path between the look of
`start` or `uninstall` and the rename or removal is lost (`cmd.appeared`).

**Proxy and Cache** (`ProxyInvariance`, `ProxyTypeCorrect`, `ProxyPermits`,
`EntriesAgeExactly`, `CacheStaysBounded`, `AnswersAlwaysMatch`, `AnswersAlwaysFit`). The
invariant has one part per shared thing. `StoredInv`: the cache is a map within its
capacity, each entry states of its original answer what the clock left of it (`EntryInv`),
and that answer says exactly what the key does (`Kept`), so whoever has the same key may
have it. `AnswersInv`: what a task holds before the answer is cut to the client's limit.
`QueueInv`: the queue is the set of waiting connections, each once, which makes the count
of permits (`PermitsAccounted`) inductive. `CacheProofs` has the algebra it rests on:
`AdjustedTtls` (aging in steps loses nothing), `CacheTtlBounds` (no answer outlives what it
states), `Truncation` (what a cut answer keeps, and that it fits), `Pushed` and `WithoutKey`
(a map stays a map through hits, insertions and evictions). The minimum of a set of TTLs,
which the code finds with a loop, exists by the well-foundedness of the order of the
numbers (`NatMinimum`); nothing else needs an induction.

The proof of `AnswersAlwaysMatch` found a case no run reaches: a query of another opcode
with several questions, whose truncated answer keeps only the questions that fit
(`truncate_to`). `AnswersMatch` names this exception, for answers marked as truncated; for
all others, and for queries with one question, it claims the question in full.

**Only model-checked.** Liveness (`CommandsEnd`, `WatchdogRepairs`, `QueriesEnd`,
`AcquireEnds`, `BudgetReturns`, `CallersEnd`, `CalmRestoresCadence`,
`CorrectionLearnsNetwork`, `TcpServed`): liveness under fairness and ENABLED are beyond the
prover. Every safety and action property of the passing runs has a theorem.

## 5. What the properties are for

`PROJECT.json`, "hazards", lists what is hard to test, each with its line and properties.
In short:
* crash or failure in the middle of a transaction: `RecoveryDataKept`, `ServedWhileOurs`,
  `NeverCorrupts`;
* reads that are old when used, renames, older backups: `OriginalsKept`,
  `NeverRecordsOwn`, `VerifiedMeansSwitched`, `CalmRestoreSucceeds`;
* a tick that races with a command: `TakenOnlyWhenArmed`, `CommandsEnd`;
* late and repeated failures of one connection: `FailuresAccounted`, `KeepsPromise`,
  `RetryIsFresh`, `HealthyIsClean`;
* a shared budget: `PermitsAccounted`, `UntimedAlone`, `BudgetReturns`; order and loss in
  races: `PlaintextLast`, `GivesUpForCause`;
* the watchdog's rhythm and what it learns: `CorrectionsBounded`, `CalmRestoresCadence`,
  `CorrectionLearnsNetwork`, `FallbackKept`;
* kills and power losses between files: `FilesWhole`, `InstallationComplete`; a path that
  others use: `OthersKept`;
* answers shared by different clients: `AnswersMatch`, `AnswersFit`, `AgingExact`;
  admission under load: `PermitsAccounted` of `Proxy`, `TcpServed`;
* cancelled and queued callers: `OneLookup`, `OutcomeRecorded`, `LookupsSpaced`,
  `AnswersHonest`, `StaleMeansTried`, `CallersEnd`.

## 6. Where code and documentation disagree

* `watchdog_blocked`: the repository's README says the watchdog re-checks each backed-up
  service every two minutes and re-applies the takeover. One enabled service under an
  unrecorded name that still lists a takeover address (a renamed service) makes every
  tick return an error before it looks at the others.
* `restore_own_address`: a comment in `take_over` says why a service that lists the
  takeover address is refused; `restart --config` can still move the takeover to an
  address that a recorded original lists, after which the restore undoes itself.
* `blocked_hedge`: a comment in `forward_hedged` says a hedge without a permit is retried
  when a pending attempt completes; with two or more pending it is retried when
  the last one does.
* `fallback_recurses`: the repository's README says that loopback and self-listener
  addresses are discarded, so the fallback cannot recurse through DNSRivet. At start the
  addresses of all listeners are discarded; the watchdog's capture discards loopback
  and the takeover address alone, so another address the proxy listens on gets through.

Found while modelling, and named as exceptions by the properties they touch:
* The repository's README (line 213) says `start` "never replaces an unrelated path".
  `install_command_at` inspects the path (`service/mod.rs:452-482`) and later renames its
  link over whatever is there by then (`:491`); `remove_command_at` reads the link and
  removes the path likewise. `OthersKept` guarantees only what the look finds.
* An installer package takes no lifecycle lock. With an `uninstall` between its payload and
  `postinstall:14-17`, the command link is left without its executable until the next start
  or installation (`InstallationComplete`).
* The comments at `upstream/bootstrap.rs:5-6` and `:39-42` promise that one caller per host
  pays the timeouts in each window. Slots and pauses are per host and address stack
  (`:45`, `:167`): a host resolved for two stacks has two paying callers. `LookupsSpaced`
  is about the key that the code uses.
* The repository's README (line 252) says that the watchdog backs off if a tool keeps
  rewriting DNS. A tick that ends with "reassert incomplete" (`osdns/macos.rs:408-417`) has
  corrected services but counts no strike (`proxy/mod.rs:187`): as long as one write keeps
  failing, the others are rewritten at the normal cadence. It also drops the resolvers it
  captured before it hid them. `CorrectionsBounded` counts complete corrections, and
  `CorrectionLearnsNetwork` holds while no tick fails.
* The comment at `osdns/macos.rs:307-309` says that in a backup of version 1 an exact
  original list "proves that loopback DNS belonged to another tool". The older release
  refused originals with its own address only. After `restart --config` to an
  address that an original lists alone, the setting a tick reasserts is that original: `stop` then
  takes it for restored and removes the backup while the setting stays.
  `RecoveryDataKept` excepts exactly these services.

## 7. Not modelled

* Parsing and validation of the configuration, of names and of malformed messages, the
  command line, the logger, the rendering of the plist, `status`: pure input and output
  without shared state.
* TLS, HTTP and QUIC, sockets: external, seen as outcomes. Child processes succeed, fail or
  hang. The pause of the UDP receive loops after an error is left out.
* Tests and release scripts; of the packaging, the check of the installation volume.

## 8. Plan

What could come next, in this order:
1. A composition of `Channel` and `Bootstrap`: invalidation by failing channels, and the
   outer timeout against the length of a lookup.
2. A composition of `Install` and `Takeover` as one command, with the verification of DNS
   between the files.
