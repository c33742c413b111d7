------------------------------ MODULE Takeover ------------------------------
(***************************************************************************)
(* The system-DNS takeover of DNSRivet: the lifecycle commands             *)
(* (service/mod.rs), the transactions they run against networksetup        *)
(* (osdns/macos.rs), the launchd job, the daemon's watchdog tick, and the  *)
(* world around them (the user and macOS editing network services, a kill  *)
(* or a failing system call at any step, a reboot).                        *)
(*                                                                         *)
(* Two file locks order the processes.  The lifecycle lock is held by a    *)
(* command from its first read to its exit, so at most one command has any *)
(* state at a time: the variable "cli" is that command.  The DNS lock      *)
(* ("dnsLock") is taken by a command only around its DNS transaction and   *)
(* by the daemon around each watchdog tick.  The kernel drops both locks   *)
(* when their holder dies.                                                 *)
(*                                                                         *)
(* Groups of reads that decide nothing in between are one step; every      *)
(* write, and every read of the loop that verifies a restore, is a step of *)
(* its own.  networksetup and launchctl run without a timeout: a process   *)
(* may hang in one of these children, with whatever lock it holds.         *)
(***************************************************************************)
EXTENDS Naturals, Sequences, FiniteSets

CONSTANTS
    Service,      \* names of macOS network services
    Address,      \* resolver addresses
    Loopback,     \* the loopback ones
    Listener,     \* addresses a configuration can make DNSRivet take over with
    UserSettings, \* DNS settings the user, DHCP or another tool chooses
    OldSettings,  \* settings an older release found when it took over
    InitialNames, \* services present when the behaviour starts
    Starts,       \* kinds of initial state, see Init
    MaxFaults,    \* bound on failures, kills, reboots and children that hang
    MaxChanges,   \* bound on changes made from outside
    MaxCommands   \* bound on lifecycle commands

ASSUME ConstantsOK ==
    /\ Listener \subseteq Loopback /\ Listener # {}
    /\ Loopback \subseteq Address
    /\ UserSettings \subseteq Seq(Address) /\ UserSettings # {}
    /\ OldSettings \subseteq Seq(Address)
    /\ InitialNames \subseteq Service
    /\ Starts \subseteq {"fresh", "legacy", "corrupted"}
    /\ {MaxFaults, MaxChanges, MaxCommands} \subseteq Nat

VARIABLES
    present,  \* network services that exist
    off,      \* those of them that are disabled
    dns,      \* DNS setting of each service
    ours,     \* history: services whose setting a takeover wrote last, until the
              \* verification of a restore finds it to be their recorded original
    backup,   \* dns-backup.toml
    marker,   \* the takeover-active file exists
    job,      \* launchd: plist on disk, not disabled, loaded
    config,   \* takeover address of the installed configuration
    dnsLock,  \* holder of the DNS lock
    cli,      \* the command holding the lifecycle lock
    daemon,   \* the daemon process
    hung,     \* those of the two processes that wait for a child that never ends
    faults, changes, commands  \* how much of each bound is used

net  == <<present, off, dns, ours>>
disk == <<backup, marker>>
used == <<faults, changes, commands>>
vars == <<net, disk, job, config, dnsLock, cli, daemon, hung, used>>

-----------------------------------------------------------------------------
(* Types *)

\* The list networksetup prints for a service; empty when it has none of its own.
DnsSetting == Seq(Address)

Backup == [exists : BOOLEAN, names : SUBSET Service,
           original : [Service -> DnsSetting],
           history : SUBSET Listener, legacy : BOOLEAN]

NoBackup == [exists |-> FALSE, names |-> {},
             original |-> [s \in Service |-> <<>>],
             history |-> {}, legacy |-> FALSE]

StartPc     == {"plist", "enable", "bootstrap", "probe", "tk_lock", "tk_backup",
                "tk_set", "tk_undo", "cleanup", "cleanup_plist"}
StopPc      == {"rel_lock", "rel_gate", "rel_list", "rel_set", "rel_verify",
                "disable", "bootout", "rm_plist", "reenable"}
RestartPc   == {"kick", "rs_check"}
CliLocked   == {"tk_backup", "tk_set", "tk_undo",
                "rel_gate", "rel_list", "rel_set", "rel_verify"}

Command == [cmd : {"none", "start", "stop", "uninstall",
                   "restart", "reconfig", "revert"},
            pc : {"idle"} \cup StartPc \cup StopPc \cup RestartPc,
            todo : SUBSET Service, done : SUBSET Service, failed : BOOLEAN,
            prev : Listener, verify : BOOLEAN, managed : BOOLEAN]

Daemon == [pc : {"down", "up", "prepare", "snapshot", "set"},
           addr : Listener, todo : SUBSET Service]
TickLocked == {"prepare", "snapshot", "set"}

NetOK == /\ present \subseteq Service /\ off \subseteq present /\ ours \subseteq present
         /\ dns \in [Service -> DnsSetting]
DiskOK == backup \in Backup /\ marker \in BOOLEAN
JobOK == /\ job \in [plist : BOOLEAN, enabled : BOOLEAN, loaded : BOOLEAN]
         /\ config \in Listener
LockOK == dnsLock \in {"free", "cli", "daemon"}
CliOK == cli \in Command
DaemonOK == daemon \in Daemon
UsedOK == faults \in Nat /\ changes \in Nat /\ commands \in Nat
HungOK == hung \subseteq {"cli", "daemon"}

MachineOK == NetOK /\ DiskOK /\ JobOK /\ LockOK /\ CliOK /\ DaemonOK /\ UsedOK
TypeOK == MachineOK /\ HungOK

-----------------------------------------------------------------------------
(* Decisions of the code *)

\* The setting lists one of the addresses.
Uses(setting, addresses) == \E i \in DOMAIN setting : setting[i] \in addresses

\* A backup of version 1 has no address history.  For it a service has its own
\* setting back when that is the recorded list, in the recorded order.
OriginalBack(b, s, setting) == b.legacy /\ s \in b.names /\ setting = b.original[s]

\* Mutation of MayDepend: any loopback address counts, the original setting or
\* not.
MayDependIfLoopback(b, s, setting) == Uses(setting, IF b.legacy THEN Loopback ELSE b.history)

\* A setting on a service of this name may still send queries to DNSRivet.
MayDepend(b, s, setting) ==
    IF b.legacy
    THEN Uses(setting, Loopback) /\ ~OriginalBack(b, s, setting)
    ELSE Uses(setting, b.history)

Depends(s) == MayDepend(backup, s, dns[s])
HasOriginal(s) == OriginalBack(backup, s, dns[s])

\* What stop asks before it clears a marker that has no backup.
PointsAtLoopback == \E s \in present : Uses(dns[s], Loopback)

\* Mutation of Concerned: a renamed and disabled service escapes.
ConcernedByName == {s \in present : s \in backup.names \/ s \notin off}

\* takeover_intact: all the services the takeover is about have exactly this
\* setting, and there is at least one.
Concerned == {s \in present : s \in backup.names \/ s \notin off \/ Depends(s)}
Intact(a) == /\ backup.exists
             /\ Concerned # {}
             /\ \A s \in Concerned : dns[s] = <<a>>

Active == backup.exists /\ marker
NotTakenOver == ~backup.exists /\ ~marker

\* Enabled services the backup has not recorded, and those whose setting is
\* not exactly the takeover address.
NewServices == (present \ off) \ backup.names
Drifted(a) == {s \in backup.names \cap present : dns[s] # <<a>>}

\* Mutation of Unrecordable: earlier takeover addresses are forgotten.
UnrecordableNow(a) == {s \in NewServices : Uses(dns[s], {a})}

\* Services that make the watchdog refuse to record an unknown restore state.
Unrecordable(a) == {s \in NewServices : Uses(dns[s], {a}) \/ Depends(s)}

-----------------------------------------------------------------------------
(* Steps shared by the commands *)

IdleCli == [cmd |-> "none", pc |-> "idle", todo |-> {}, done |-> {},
            failed |-> FALSE, prev |-> CHOOSE a \in Listener : TRUE,
            verify |-> FALSE, managed |-> FALSE]

Fault == faults < MaxFaults /\ faults' = faults + 1 /\ UNCHANGED <<changes, commands>>
At(pc) == cli.pc = pc
Goto(pc) == cli' = [cli EXCEPT !.pc = pc]
Finish == cli' = IdleCli
Begin(name, pc) == /\ At("idle") /\ commands < MaxCommands
                   /\ commands' = commands + 1 /\ UNCHANGED <<faults, changes>>
                   /\ cli' = [IdleCli EXCEPT !.cmd = name, !.pc = pc]

Unlocked(who) == IF dnsLock = who THEN "free" ELSE dnsLock
TakeLock == dnsLock = "free" /\ dnsLock' = "cli"
ReleaseLock == dnsLock' = Unlocked("cli")

\* launchd or the kernel ends the daemon, whatever it is doing.
KillDaemon == /\ daemon' = [daemon EXCEPT !.pc = "down", !.todo = {}]
              /\ dnsLock' = Unlocked("daemon")

\* networksetup -setdnsservers
Write(s, setting, byTakeover) ==
    /\ s \in present
    /\ dns' = [dns EXCEPT ![s] = setting]
    /\ ours' = IF byTakeover THEN ours \cup {s} ELSE ours \ {s}
    /\ UNCHANGED <<present, off>>

\* networksetup fails for a name that is gone, or for a reason of its own; the
\* setting keeps its value.
WriteFails(s) ==
    /\ \/ s \notin present /\ UNCHANGED used
       \/ Fault
    /\ UNCHANGED net

\* An error the command returns with "?" and a kill leave the same state
\* behind: nothing is undone and both locks are free.
CliAborts ==
    /\ ~At("idle")
    /\ Fault /\ Finish /\ ReleaseLock
    /\ UNCHANGED <<net, disk, job, config, daemon>>

-----------------------------------------------------------------------------
(* dnsrivet start *)

\* Preconditions, the configuration file, the binary and the command link.
StartInstall(a) ==
    /\ Begin("start", "plist")
    /\ ~job.loaded /\ NotTakenOver
    /\ config' = a
    /\ UNCHANGED <<net, disk, job, dnsLock, daemon>>

StartPlist ==
    /\ At("plist") /\ Goto("enable")
    /\ job' = [job EXCEPT !.plist = TRUE]
    /\ UNCHANGED <<net, disk, config, dnsLock, daemon, used>>

StartEnable ==
    /\ At("enable") /\ Goto("bootstrap")
    /\ job' = [job EXCEPT !.enabled = TRUE]
    /\ UNCHANGED <<net, disk, config, dnsLock, daemon, used>>

StartBootstrap ==
    /\ At("bootstrap") /\ Goto("probe")
    /\ job' = [job EXCEPT !.loaded = TRUE]
    /\ UNCHANGED <<net, disk, config, dnsLock, daemon, used>>

\* The plist is removed on a best-effort basis.
StartBootstrapFails(left) ==
    /\ At("bootstrap") /\ Fault /\ Finish
    /\ job' = [job EXCEPT !.plist = left]
    /\ UNCHANGED <<net, disk, config, dnsLock, daemon>>

StartProbe ==
    /\ At("probe") /\ daemon.pc # "down" /\ Goto("tk_lock")
    /\ UNCHANGED <<net, disk, job, config, dnsLock, daemon, used>>

StartProbeFails ==
    /\ At("probe") /\ Fault /\ Goto("cleanup")
    /\ UNCHANGED <<net, disk, job, config, dnsLock, daemon>>

TakeOverLock ==
    /\ At("tk_lock") /\ TakeLock /\ Goto("tk_backup")
    /\ UNCHANGED <<net, disk, job, config, daemon, used>>

\* A backup is there already, no service is enabled, or one lists the address.
TakeOverUnsafe ==
    \/ backup.exists
    \/ present \ off = {}
    \/ \E s \in present \ off : Uses(dns[s], {config})

\* Snapshot every enabled service and write the backup before changing any.
TakeOverBackup ==
    LET names == present \ off IN
    /\ At("tk_backup") /\ ~TakeOverUnsafe
    /\ backup' = [exists |-> TRUE, names |-> names,
                  original |-> [s \in Service |-> IF s \in names THEN dns[s] ELSE <<>>],
                  history |-> {config}, legacy |-> FALSE]
    /\ cli' = [cli EXCEPT !.pc = "tk_set", !.todo = names, !.done = {}]
    /\ UNCHANGED <<net, marker, job, config, dnsLock, daemon, used>>

\* It is unsafe, or the lock, a read or the write of the backup fails.
TakeOverRefused ==
    /\ \/ At("tk_backup") /\ TakeOverUnsafe /\ UNCHANGED used
       \/ cli.pc \in {"tk_lock", "tk_backup"} /\ Fault
    /\ IF backup.exists THEN Finish ELSE Goto("cleanup")
    /\ ReleaseLock
    /\ UNCHANGED <<net, disk, job, config, daemon>>

TakeOverSet(s) ==
    /\ At("tk_set") /\ s \in cli.todo
    /\ Write(s, <<config>>, TRUE)
    /\ cli' = [cli EXCEPT !.todo = @ \ {s}, !.done = @ \cup {s}]
    /\ UNCHANGED <<disk, job, config, dnsLock, daemon, used>>

TakeOverSetFails(s) ==
    /\ At("tk_set") /\ s \in cli.todo
    /\ WriteFails(s)
    /\ cli' = [cli EXCEPT !.pc = "tk_undo", !.todo = cli.done, !.done = {}]
    /\ UNCHANGED <<disk, job, config, dnsLock, daemon>>

\* The marker comes last, once every service was switched.
TakeOverMark ==
    /\ At("tk_set") /\ cli.todo = {}
    /\ marker' = TRUE /\ Finish /\ ReleaseLock
    /\ UNCHANGED <<net, backup, job, config, daemon, used>>

RollBack(s) ==
    /\ At("tk_undo") /\ s \in cli.todo
    /\ Write(s, backup.original[s], FALSE)
    /\ cli' = [cli EXCEPT !.todo = @ \ {s}]
    /\ UNCHANGED <<disk, job, config, dnsLock, daemon, used>>

RollBackFails(s) ==
    /\ At("tk_undo") /\ s \in cli.todo
    /\ WriteFails(s)
    /\ cli' = [cli EXCEPT !.todo = @ \ {s}, !.failed = TRUE]
    /\ UNCHANGED <<disk, job, config, dnsLock, daemon>>

\* A complete rollback removes the backup and then stops the service.
RolledBack ==
    /\ At("tk_undo") /\ cli.todo = {} /\ ~cli.failed
    /\ backup' = NoBackup
    /\ cli' = [IdleCli EXCEPT !.cmd = "start", !.pc = "cleanup"] /\ ReleaseLock
    /\ UNCHANGED <<net, marker, job, config, daemon, used>>

\* Mutation of RollBackIncomplete: the service is stopped all the same.
RollBackIncompleteStops ==
    /\ At("tk_undo") /\ cli.todo = {}
    /\ \/ cli.failed /\ UNCHANGED used
       \/ Fault
    /\ Goto("cleanup") /\ ReleaseLock
    /\ UNCHANGED <<net, disk, job, config, daemon>>

\* An incomplete one, or a backup that could not be removed, leaves the service
\* running for the network services that still point at it.
RollBackIncomplete ==
    /\ At("tk_undo") /\ cli.todo = {}
    /\ \/ cli.failed /\ UNCHANGED used
       \/ Fault
    /\ Finish /\ ReleaseLock
    /\ UNCHANGED <<net, disk, job, config, daemon>>

CleanupBootout ==
    /\ At("cleanup") /\ Goto("cleanup_plist")
    /\ job' = [job EXCEPT !.loaded = FALSE] /\ KillDaemon
    /\ UNCHANGED <<net, disk, config, used>>

CleanupPlist ==
    /\ At("cleanup_plist") /\ Finish
    /\ job' = [job EXCEPT !.plist = FALSE]
    /\ UNCHANGED <<net, disk, config, dnsLock, daemon, used>>

-----------------------------------------------------------------------------
(* dnsrivet stop and dnsrivet uninstall *)

StopBegin(name) ==
    /\ Begin(name, "rel_lock")
    /\ UNCHANGED <<net, disk, job, config, dnsLock, daemon>>

ReleaseBegin ==
    /\ At("rel_lock") /\ TakeLock /\ Goto("rel_gate")
    /\ UNCHANGED <<net, disk, job, config, daemon, used>>

\* No backup: nothing to restore; a lone marker goes if no service needs it.
ReleaseNothing ==
    /\ At("rel_gate") /\ ~backup.exists
    /\ marker => ~PointsAtLoopback
    /\ marker' = FALSE /\ Goto("disable") /\ ReleaseLock
    /\ UNCHANGED <<net, backup, job, config, daemon, used>>

ReleaseRefused ==
    /\ At("rel_gate") /\ ~backup.exists /\ marker /\ PointsAtLoopback
    /\ Finish /\ ReleaseLock
    /\ UNCHANGED <<net, disk, job, config, daemon, used>>

\* Mutation of ReleaseMarker: the marker is not removed first.
ReleaseMarkerKept ==
    /\ At("rel_gate") /\ backup.exists
    /\ Goto("rel_list")
    /\ UNCHANGED <<net, disk, job, config, dnsLock, daemon, used>>

ReleaseMarker ==
    /\ At("rel_gate") /\ backup.exists
    /\ marker' = FALSE /\ Goto("rel_list")
    /\ UNCHANGED <<net, backup, job, config, dnsLock, daemon, used>>

\* Names of the backup that no longer exist are skipped.
RestoreList ==
    /\ At("rel_list")
    /\ cli' = [cli EXCEPT !.pc = "rel_set", !.todo = backup.names \cap present]
    /\ UNCHANGED <<net, disk, job, config, dnsLock, daemon, used>>

RestoreSet(s) ==
    /\ At("rel_set") /\ s \in cli.todo
    /\ Write(s, backup.original[s], FALSE)
    /\ cli' = [cli EXCEPT !.todo = @ \ {s}]
    /\ UNCHANGED <<disk, job, config, dnsLock, daemon, used>>

RestoreSetFails(s) ==
    /\ At("rel_set") /\ s \in cli.todo
    /\ WriteFails(s)
    /\ cli' = [cli EXCEPT !.todo = @ \ {s}, !.failed = TRUE]
    /\ UNCHANGED <<disk, job, config, dnsLock, daemon>>

\* List again: a renamed or new service must not escape verification.
RestoreRelist ==
    /\ At("rel_set") /\ cli.todo = {}
    /\ \/ /\ cli' = [cli EXCEPT !.pc = "rel_verify", !.todo = present]
          /\ UNCHANGED used
       \/ /\ cli' = [cli EXCEPT !.pc = "rel_verify", !.failed = TRUE]
          /\ Fault
    /\ UNCHANGED <<net, disk, job, config, dnsLock, daemon>>

\* A setting found to be the recorded one is not DNSRivet's any more.
RestoreVerify(s) ==
    /\ At("rel_verify") /\ s \in cli.todo /\ s \in present
    /\ cli' = [cli EXCEPT !.todo = @ \ {s}, !.failed = @ \/ Depends(s)]
    /\ ours' = IF HasOriginal(s) THEN ours \ {s} ELSE ours
    /\ UNCHANGED <<present, off, dns, disk, job, config, dnsLock, daemon, used>>

RestoreVerifyFails(s) ==
    /\ At("rel_verify") /\ s \in cli.todo
    /\ WriteFails(s)
    /\ cli' = [cli EXCEPT !.todo = @ \ {s}, !.failed = TRUE]
    /\ UNCHANGED <<disk, job, config, dnsLock, daemon>>

Restored ==
    /\ At("rel_verify") /\ cli.todo = {} /\ ~cli.failed
    /\ backup' = NoBackup /\ Goto("disable") /\ ReleaseLock
    /\ UNCHANGED <<net, marker, job, config, daemon, used>>

\* Any error keeps the backup and the running service.
BackupRetained ==
    /\ At("rel_verify") /\ cli.todo = {} /\ cli.failed
    /\ Finish /\ ReleaseLock
    /\ UNCHANGED <<net, disk, job, config, daemon, used>>

StopDisable ==
    LET managed == job.plist \/ job.loaded IN
    /\ At("disable")
    /\ job' = [job EXCEPT !.enabled = @ /\ ~managed]
    /\ cli' = [cli EXCEPT !.pc = "bootout", !.managed = managed]
    /\ UNCHANGED <<net, disk, config, dnsLock, daemon, used>>

StopBootout ==
    /\ At("bootout")
    /\ IF cli.cmd = "uninstall" THEN Goto("rm_plist") ELSE Finish
    /\ job' = [job EXCEPT !.loaded = FALSE] /\ KillDaemon
    /\ UNCHANGED <<net, disk, config, used>>

\* The plist, then the command link and the binary.
UninstallFiles ==
    /\ At("rm_plist") /\ Goto("reenable")
    /\ job' = [job EXCEPT !.plist = FALSE]
    /\ UNCHANGED <<net, disk, config, dnsLock, daemon, used>>

\* The persistent "disabled" override goes once no job remains.
UninstallReenable ==
    /\ At("reenable") /\ Finish
    /\ job' = [job EXCEPT !.enabled = @ \/ cli.managed]
    /\ UNCHANGED <<net, disk, config, dnsLock, daemon, used>>

-----------------------------------------------------------------------------
(* dnsrivet restart, with and without a replacement configuration *)

RestartBegin ==
    /\ Begin("restart", "kick") /\ job.loaded
    /\ UNCHANGED <<net, disk, job, config, dnsLock, daemon>>

ReconfigBegin(a) ==
    /\ At("idle") /\ commands < MaxCommands
    /\ commands' = commands + 1 /\ UNCHANGED <<faults, changes>>
    /\ job.loaded /\ (Active \/ NotTakenOver)
    /\ config' = a
    /\ cli' = [IdleCli EXCEPT !.cmd = "reconfig", !.pc = "kick",
                              !.prev = config, !.verify = Active]
    /\ UNCHANGED <<net, disk, job, dnsLock, daemon>>

Kick ==
    /\ At("kick") /\ Goto("rs_check") /\ KillDaemon
    /\ UNCHANGED <<net, disk, job, config, used>>

\* The DNS probe passes and, if a takeover was active, its services are seen to
\* point at the address of the configuration.
RestartSucceeds ==
    /\ At("rs_check") /\ daemon.pc # "down"
    /\ cli.verify => Intact(config)
    /\ Finish
    /\ UNCHANGED <<net, disk, job, config, dnsLock, daemon, used>>

\* kickstart fails, or the probe or the wait for reassertion times out.
ReconfigReverts ==
    /\ cli.pc \in RestartPc /\ cli.cmd = "reconfig"
    /\ config' = cli.prev
    /\ cli' = [cli EXCEPT !.cmd = "revert", !.pc = "kick"]
    /\ UNCHANGED <<net, disk, job, dnsLock, daemon, used>>

\* Neither a plain restart nor the reload of the previous configuration has
\* anything left to undo.
RestartGivesUp ==
    /\ cli.pc \in RestartPc /\ cli.cmd \in {"restart", "revert"}
    /\ Finish
    /\ UNCHANGED <<net, disk, job, config, dnsLock, daemon, used>>

-----------------------------------------------------------------------------
(* The daemon *)

\* RunAtLoad and KeepAlive: launchd keeps the daemon of a loaded job running.
DaemonStarts ==
    /\ job.loaded /\ daemon.pc = "down"
    /\ daemon' = [daemon EXCEPT !.pc = "up", !.addr = config]
    /\ UNCHANGED <<net, disk, job, config, dnsLock, cli, used>>

DaemonDies ==
    /\ daemon.pc # "down" /\ Fault /\ KillDaemon
    /\ UNCHANGED <<net, disk, job, config, cli>>

\* Mutation of TickBegin: backup and marker are not checked under the lock.
TickBeginUngated ==
    /\ daemon.pc = "up" /\ dnsLock = "free"
    /\ dnsLock' = "daemon" /\ daemon' = [daemon EXCEPT !.pc = "prepare"]
    /\ UNCHANGED <<net, disk, job, config, cli, used>>

\* A tick that finds no backup or no marker changes nothing and is left out.
TickBegin ==
    /\ daemon.pc = "up" /\ dnsLock = "free" /\ Active
    /\ dnsLock' = "daemon" /\ daemon' = [daemon EXCEPT !.pc = "prepare"]
    /\ UNCHANGED <<net, disk, job, config, cli, used>>

\* Mutation of TickEnds: the lock outlives the tick.
TickEndsLocked == daemon' = [daemon EXCEPT !.pc = "up", !.todo = {}] /\ UNCHANGED dnsLock

TickEnds == daemon' = [daemon EXCEPT !.pc = "up", !.todo = {}] /\ dnsLock' = Unlocked("daemon")

\* Mutations of TickPrepare: the new address is not recorded; the settings of
\* known services are recorded again.
TickPrepareForgets ==
    /\ daemon.pc = "prepare" /\ Unrecordable(daemon.addr) = {}
    /\ backup' = [backup EXCEPT
         !.names = @ \cup NewServices,
         !.original = [s \in Service |-> IF s \in NewServices THEN dns[s] ELSE @[s]]]
    /\ daemon' = [daemon EXCEPT !.pc = "snapshot"]
    /\ UNCHANGED <<net, marker, job, config, dnsLock, cli, used>>
TickPrepareResnapshots ==
    /\ daemon.pc = "prepare" /\ Unrecordable(daemon.addr) = {}
    /\ backup' = [backup EXCEPT
         !.names = @ \cup NewServices,
         !.original = [s \in Service |-> IF s \in present \ off THEN dns[s] ELSE @[s]],
         !.history = IF backup.legacy THEN @ ELSE @ \cup {daemon.addr}]
    /\ daemon' = [daemon EXCEPT !.pc = "snapshot"]
    /\ UNCHANGED <<net, marker, job, config, dnsLock, cli, used>>

\* Persist new services and the address before any DNS is changed.
TickPrepare ==
    /\ daemon.pc = "prepare" /\ Unrecordable(daemon.addr) = {}
    /\ backup' = [backup EXCEPT
         !.names = @ \cup NewServices,
         !.original = [s \in Service |-> IF s \in NewServices THEN dns[s] ELSE @[s]],
         !.history = IF backup.legacy THEN @ ELSE @ \cup {daemon.addr}]
    /\ daemon' = [daemon EXCEPT !.pc = "snapshot"]
    /\ UNCHANGED <<net, marker, job, config, dnsLock, cli, used>>

TickRefused ==
    /\ daemon.pc = "prepare" /\ Unrecordable(daemon.addr) # {}
    /\ TickEnds
    /\ UNCHANGED <<net, disk, job, config, cli, used>>

\* Mutation of TickSnapshot: disabled services are passed over.
TickSnapshotEnabled ==
    /\ daemon.pc = "snapshot"
    /\ daemon' = [daemon EXCEPT !.pc = "set", !.todo = Drifted(daemon.addr) \ off]
    /\ UNCHANGED <<net, disk, job, config, dnsLock, cli, used>>

TickSnapshot ==
    /\ daemon.pc = "snapshot"
    /\ daemon' = [daemon EXCEPT !.pc = "set", !.todo = Drifted(daemon.addr)]
    /\ UNCHANGED <<net, disk, job, config, dnsLock, cli, used>>

Reassert(s) ==
    /\ daemon.pc = "set" /\ s \in daemon.todo
    /\ Write(s, <<daemon.addr>>, TRUE)
    /\ daemon' = [daemon EXCEPT !.todo = @ \ {s}]
    /\ UNCHANGED <<disk, job, config, dnsLock, cli, used>>

ReassertFails(s) ==
    /\ daemon.pc = "set" /\ s \in daemon.todo
    /\ WriteFails(s)
    /\ daemon' = [daemon EXCEPT !.todo = @ \ {s}]
    /\ UNCHANGED <<disk, job, config, dnsLock, cli>>

TickDone ==
    /\ daemon.pc = "set" /\ daemon.todo = {} /\ TickEnds
    /\ UNCHANGED <<net, disk, job, config, cli, used>>

\* A read or the write of the backup fails.
TickAborts ==
    /\ daemon.pc \in {"prepare", "snapshot"} /\ Fault /\ TickEnds
    /\ UNCHANGED <<net, disk, job, config, cli>>

-----------------------------------------------------------------------------
(* The world *)

Reboot ==
    /\ Fault /\ Finish
    /\ daemon' = [daemon EXCEPT !.pc = "down", !.todo = {}] /\ dnsLock' = "free"
    /\ job' = [job EXCEPT !.loaded = job.plist /\ job.enabled]
    /\ UNCHANGED <<net, disk, config>>

\* networksetup, launchctl or plutil does not come back.  The other steps of a
\* command wait for a lock, for a probe that times out, or for a file.
Childless == {"idle", "tk_lock", "rel_lock", "probe", "cleanup_plist", "rm_plist"}
ChildHangs ==
    /\ Fault
    /\ \/ cli.pc \notin Childless /\ hung' = hung \cup {"cli"}
       \/ daemon.pc \in TickLocked /\ hung' = hung \cup {"daemon"}
    /\ UNCHANGED <<net, disk, job, config, dnsLock, cli, daemon>>

Change ==
    /\ changes < MaxChanges /\ changes' = changes + 1 /\ UNCHANGED <<faults, commands>>
    /\ UNCHANGED <<disk, job, config, dnsLock, cli, daemon>>

\* A name that a running command has still to process is not given to another
\* service before the command gets to it.
FreeName(s) == s \in Service \ (present \cup cli.todo \cup cli.done)

UserSets(s, setting) ==
    /\ Change /\ s \in present
    /\ dns' = [dns EXCEPT ![s] = setting] /\ ours' = ours \ {s}
    /\ UNCHANGED <<present, off>>

ServiceAppears(s, setting) ==
    /\ Change /\ FreeName(s)
    /\ present' = present \cup {s}
    /\ dns' = [dns EXCEPT ![s] = setting]
    /\ UNCHANGED <<off, ours>>

ServiceVanishes(s) ==
    /\ Change /\ s \in present
    /\ present' = present \ {s} /\ off' = off \ {s} /\ ours' = ours \ {s}
    /\ dns' = [dns EXCEPT ![s] = <<>>]

Renamed(names, s, t) == IF s \in names THEN (names \ {s}) \cup {t} ELSE names

\* A renamed service keeps its DNS setting.
ServiceRenamed(s, t) ==
    /\ Change /\ s \in present /\ FreeName(t)
    /\ present' = Renamed(present, s, t)
    /\ off' = Renamed(off, s, t) /\ ours' = Renamed(ours, s, t)
    /\ dns' = [dns EXCEPT ![t] = dns[s], ![s] = <<>>]

ServiceToggled(s) ==
    /\ Change /\ s \in present
    /\ off' = IF s \in off THEN off \ {s} ELSE off \cup {s}
    /\ UNCHANGED <<present, dns, ours>>

-----------------------------------------------------------------------------
(* Specification *)

\* "fresh": DNSRivet was never started.  "legacy": an older release took over
\* and left a backup without address history; it refused settings that list the
\* address it took over with, and no other.  "corrupted": a marker without a
\* backup was found on the disk; what led there has used some of the bounds.
InitialSettings(settings) ==
    {d \in [Service -> settings \cup {<<>>}] :
        \A s \in Service : IF s \in InitialNames THEN d[s] \in settings ELSE d[s] = <<>>}

InitKind(kind) ==
    /\ CASE kind = "fresh" -> backup = NoBackup /\ marker = FALSE /\ ours = {}
         [] kind = "corrupted" -> backup = NoBackup /\ marker = TRUE /\ ours = {}
         [] kind = "legacy" ->
              /\ \E original \in InitialSettings({u \in OldSettings : ~Uses(u, {config})}) :
                   backup = [exists |-> TRUE, names |-> InitialNames,
                             original |-> original, history |-> {}, legacy |-> TRUE]
              /\ marker = TRUE /\ ours = InitialNames
    /\ LET spent == IF kind = "fresh" THEN 0 ELSE 1
       IN  changes = spent /\ commands = spent
    /\ job = [plist |-> kind = "legacy", enabled |-> TRUE, loaded |-> kind = "legacy"]
    /\ dns \in InitialSettings(IF kind = "legacy" THEN {<<config>>} ELSE UserSettings)

Init ==
    /\ present = InitialNames /\ off = {}
    /\ config \in Listener
    /\ \E kind \in Starts : InitKind(kind)
    /\ dnsLock = "free" /\ cli = IdleCli
    /\ daemon = [pc |-> "down", addr |-> config, todo |-> {}]
    /\ faults = 0 /\ hung = {}

StartNext ==
    \/ StartPlist \/ StartEnable \/ StartBootstrap \/ StartProbe \/ StartProbeFails
    \/ \E left \in BOOLEAN : StartBootstrapFails(left)
    \/ TakeOverLock \/ TakeOverBackup \/ TakeOverRefused \/ TakeOverMark
    \/ RolledBack \/ RollBackIncomplete \/ CleanupBootout \/ CleanupPlist
    \/ \E s \in Service : \/ TakeOverSet(s) \/ TakeOverSetFails(s)
                          \/ RollBack(s) \/ RollBackFails(s)

StopNext ==
    \/ ReleaseBegin \/ ReleaseNothing \/ ReleaseRefused \/ ReleaseMarker
    \/ RestoreList \/ RestoreRelist \/ Restored \/ BackupRetained
    \/ \E s \in Service : \/ RestoreSet(s) \/ RestoreSetFails(s)
                          \/ RestoreVerify(s) \/ RestoreVerifyFails(s)
    \/ StopDisable \/ StopBootout \/ UninstallFiles \/ UninstallReenable

RestartNext == Kick \/ RestartSucceeds \/ ReconfigReverts \/ RestartGivesUp

\* The command that runs; a user types the commands.
CliNext == "cli" \notin hung /\ (StartNext \/ StopNext \/ RestartNext)
UserCommands ==
    \/ \E a \in Listener : StartInstall(a) \/ ReconfigBegin(a)
    \/ \E name \in {"stop", "uninstall"} : StopBegin(name)
    \/ RestartBegin

DaemonNext ==
    /\ "daemon" \notin hung
    /\ \/ DaemonStarts \/ TickBegin \/ TickPrepare \/ TickRefused \/ TickSnapshot
       \/ TickDone \/ \E s \in Service : Reassert(s) \/ ReassertFails(s)

World ==
    \/ CliAborts \/ DaemonDies \/ TickAborts \/ Reboot
    \/ \E s \in Service :
         \/ ServiceVanishes(s) \/ ServiceToggled(s)
         \/ \E u \in UserSettings : UserSets(s, u) \/ ServiceAppears(s, u)
         \/ \E t \in Service : ServiceRenamed(s, t)

\* A process that hangs does so until it is killed.
StillHung == hung' = {p \in hung : IF p = "cli" THEN cli'.pc # "idle" ELSE daemon'.pc # "down"}

Next ==
    \/ (CliNext \/ UserCommands \/ DaemonNext \/ World) /\ StillHung
    \/ ChildHangs

Spec == Init /\ [][Next]_vars

\* A running command and a running daemon go on unless a child of theirs hangs;
\* launchd restarts a daemon that ended and the watchdog's interval fires.  A
\* command that waits for the DNS lock gets it if it is free again and again:
\* the next tick comes two minutes after the last.  Nothing is assumed of the
\* user, the world and the children.
Fairness ==
    /\ WF_vars(CliNext /\ StillHung) /\ WF_vars(DaemonNext /\ StillHung)
    /\ SF_vars(TakeOverLock /\ StillHung) /\ SF_vars(ReleaseBegin /\ StillHung)

FairSpec == Spec /\ Fairness

-----------------------------------------------------------------------------
(* Properties *)

\* Whatever happens to commands, daemon and services, a service that sends its
\* queries to DNSRivet because of a takeover is covered by restore data, and
\* the verification of a restore recognises it, unless the takeover gave it the
\* very setting a version 1 backup has on record for it, which a restore would
\* write as well (osdns/macos.rs: the backup is written first and removed last;
\* the address history is persisted before DNS is changed).
RecoveryDataKept ==
    \A s \in ours : backup.exists /\ (Depends(s) \/ HasOriginal(s))

\* No service is left pointing at a resolver nobody runs: as long as a takeover
\* steers a service, the job is loaded and comes back after a reboot
\* (service/mod.rs stops the job only after release, and cleans up a failed
\* start only after a complete rollback).
ServedWhileOurs ==
    ours # {} => job.plist /\ job.enabled /\ job.loaded

\* A recorded original setting is never rewritten and the address history never
\* shrinks while the backup exists (watchdog ticks extend the backup only).
OriginalsKept ==
    [][backup.exists /\ backup'.exists =>
         /\ backup.names \subseteq backup'.names
         /\ backup.history \subseteq backup'.history
         /\ \A s \in backup.names : backup'.original[s] = backup.original[s]]_vars

\* The settings recorded for a restore are never DNSRivet's own: neither
\* take_over nor the watchdog snapshots a service a takeover steers, also under
\* a new name.
NeverRecordsOwn ==
    [][\A s \in backup'.names \ backup.names : s \notin ours]_vars

\* No step of any process leaves a marker without a backup ("corrupted").
NeverCorrupts ==
    [][marker' /\ ~backup'.exists => marker /\ ~backup.exists]_vars

\* A service is pointed at DNSRivet only by a start that holds its restore
\* data, or by a tick while the takeover is armed: a tick that raced with stop
\* cannot take DNS over again.
TakenOnlyWhenArmed ==
    [][\A s \in ours' \cap present' :
         s \notin ours /\ changes' = changes =>
            /\ s \in backup.names
            /\ Active \/ cli.cmd = "start"]_vars

\* restart --config reports a verified takeover only when every service a
\* takeover steers uses the new address, services renamed or disabled since
\* included.
VerifiedMeansSwitched ==
    [][cli.cmd = "reconfig" /\ cli.verify /\ cli'.cmd = "none" /\ faults' = faults
         => \A s \in ours : dns[s] = <<config>>]_vars

\* The comment of take_over: a restore never points the system at the proxy
\* that stop is about to remove.
RestoreDataIsForeign ==
    \A s \in backup.names : ~backup.legacy => ~Uses(backup.original[s], backup.history)

\* stop refuses only for a cause: with no failure and no change from outside, a
\* restore whose data is sound passes its own verification, version 1 backups
\* with another tool's loopback resolver included (their history began with one
\* of the changes, see InitKind).
CalmRestoreSucceeds ==
    [][At("rel_verify") /\ cli'.pc = "idle" /\ faults' = 0
         /\ changes = (IF backup.legacy THEN 1 ELSE 0)
         => ~RestoreDataIsForeign]_vars

\* The command waits for a child that hangs, or for the lock of a tick whose
\* child hangs.
Stuck ==
    \/ "cli" \in hung
    \/ "daemon" \in hung /\ dnsLock = "daemon" /\ cli.pc \in {"tk_lock", "rel_lock"}

\* Every command ends, unless a child without a timeout keeps it or the tick it
\* waits for: restart does not hold the DNS lock while it waits for the daemon's
\* tick, no tick waits for a command that waits for it, and a command that does
\* not need the lock ends even while a tick hangs.
CommandsEnd == ~At("idle") ~> At("idle") \/ Stuck

\* The watchdog brings drifted and new services back to the takeover address
\* once the world is quiet, unless it finds a service it must not record or a
\* child hangs and keeps the DNS lock.
WatchdogRepairs ==
    []<>(Active /\ job.loaded /\ dnsLock \notin hung /\ Unrecordable(daemon.addr) = {}
           => Drifted(daemon.addr) = {} /\ NewServices = {})

\* What README.md says of it: it re-checks that each backed-up service points at
\* the takeover address and re-applies the takeover, whatever other services do.
WatchdogAlwaysRepairs ==
    []<>(Active /\ job.loaded => Drifted(daemon.addr) = {})
=============================================================================
