------------------------------ MODULE Install -------------------------------
(***************************************************************************)
(* The files of an installation: configuration, copied executable, launchd *)
(* plist and the command link, as the lifecycle commands write and remove  *)
(* them (service/mod.rs, launchd.rs) through temporary files               *)
(* (atomic_file.rs), while commands die, the machine loses power, the      *)
(* installer package runs beside them (packaging/macos/scripts), and the   *)
(* package manager or anyone else puts a command of the same name on the   *)
(* path.  What the commands do to DNS is the subject of Takeover.          *)
(*                                                                         *)
(* The lifecycle lock lets one command at a time do anything: "cmd".  The  *)
(* installer does not take it.                                             *)
(* Renames and removals reach the disk in the order they were made; the    *)
(* contents of a file reach it when it is synced.                          *)
(***************************************************************************)
EXTENDS Naturals

CONSTANTS Version,  \* versions of the executable
          Valid,    \* configurations that load
          Invalid,  \* texts that do not
          Plist, None, Torn, \* other contents: torn files hold only a part
          MaxCommands, MaxFaults, MaxChanges \* bounds

Config == Valid \cup Invalid
File == {"config", "binary", "plist"}
Content == Config \cup Version \cup {Plist, None, Torn}

ASSUME InstallConstants ==
    /\ Valid \cap Invalid = {} /\ Config \cap Version = {}
    /\ {Plist, None, Torn} \cap (Config \cup Version) = {}
    /\ Plist # None /\ Plist # Torn /\ None # Torn
    /\ {MaxCommands, MaxFaults, MaxChanges} \subseteq Nat

VARIABLES file,    \* contents of the files
          cached,  \* files whose contents are not on the disk yet
          link,    \* /usr/local/bin/dnsrivet
          job,     \* launchd: not disabled, loaded
          package, \* the executable of Homebrew
          installer, \* the installer package, while macOS installs it
          cmd,     \* the command that runs
          commands, faults, changes

vars == <<file, cached, link, job, package, installer, cmd, commands, faults, changes>>
files == <<file, cached>>
outside == <<package, installer>>
used == <<commands, faults, changes>>

\* "copy" is an executable of DNSRivet itself, "other" anything else.
Foreign == {"package", "copy", "other"}

StartPc == {"config", "load", "binary", "command", "link", "plist", "enable", "bootstrap",
            "probe", "cleanup", "cleanup_plist"}
StopPc == {"disable", "bootout", "rm_plist", "rm_command", "rm_link", "rm_binary", "reenable"}
RestartPc == {"kick", "verify", "revert", "rekick"}

\* "path" and "version" are those of the executable that runs the command;
\* "appeared" is history: a foreign command came to the path after the command
\* had looked there.
Command == [name : {"none", "start", "stop", "uninstall", "restart"},
            pc : {"idle"} \cup StartPc \cup StopPc \cup RestartPc,
            stage : {"none", "written", "synced"},
            replacement : Config \cup {None}, prev : Content,
            path : {"package", "copy", "installed"}, version : Version \cup {None},
            managed : BOOLEAN, appeared : BOOLEAN]

\* "pc" is the installer's next step; "overlap" is history: an uninstall ran
\* between its payload and its link.
Installer == [pc : {"idle", "payload", "link", "job"}, version : Version \cup {None},
              overlap : BOOLEAN]

TypeOK == /\ file \in [File -> Content] /\ cached \subseteq File
          /\ link \in {"none", "ours"} \cup Foreign
          /\ job \in [enabled : BOOLEAN, loaded : BOOLEAN]
          /\ package \in Version \cup {None}
          /\ installer \in Installer /\ cmd \in Command
          /\ commands \in Nat /\ faults \in Nat /\ changes \in Nat

-----------------------------------------------------------------------------
(* Steps shared by the commands *)

Idle == [name |-> "none", pc |-> "idle", stage |-> "none", replacement |-> None, prev |-> None,
         path |-> "package", version |-> None, managed |-> FALSE, appeared |-> FALSE]

At(pc) == cmd.pc = pc
Goto(pc) == cmd' = [cmd EXCEPT !.pc = pc]
Finish == cmd' = Idle

\* Calls through the command link resolve to the installed executable.
Executables ==
    {[path |-> "package", version |-> v] : v \in {package} \ {None}}
    \cup {[path |-> "copy", version |-> v] : v \in IF link = "copy" THEN Version ELSE {}}
    \cup {[path |-> "installed", version |-> v] : v \in {file["binary"]} \cap Version}

Begin(name, pc, e, replacement) ==
    /\ At("idle") /\ commands < MaxCommands /\ commands' = commands + 1
    /\ cmd' = [Idle EXCEPT !.name = name, !.pc = pc, !.path = e.path, !.version = e.version,
                           !.replacement = replacement]
    /\ UNCHANGED <<file, cached, link, job, package, faults, changes>>

\* Mutation of Accepted: a replacement is not loaded before it is installed.
AcceptedAny == Config

\* config_bytes: other replacements end the command before it writes.
Accepted == Valid

\* What the command is writing, and where the rename puts it.
Dest == IF cmd.pc \in {"config", "revert"} THEN "config" ELSE cmd.pc
Writing == cmd.pc \in {"config", "revert", "binary", "plist"}
Data == CASE At("config") -> cmd.replacement
          [] At("revert") -> cmd.prev
          [] At("binary") -> cmd.version
          [] OTHER -> Plist

AfterWrite ==
    CASE At("config") -> IF cmd.name = "start" THEN "load" ELSE "kick"
      [] At("revert") -> "rekick"
      [] At("binary") -> IF cmd.name = "start" THEN "command"
                         ELSE IF cmd.replacement = None THEN "kick" ELSE "config"
      [] OTHER -> "enable"

\* Only the temporary file is written.
WriteTemporary ==
    /\ Writing /\ cmd.stage = "none"
    /\ cmd' = [cmd EXCEPT !.stage = "written"]
    /\ UNCHANGED <<files, link, job, outside, used>>

SyncTemporary ==
    /\ Writing /\ cmd.stage = "written"
    /\ cmd' = [cmd EXCEPT !.stage = "synced"]
    /\ UNCHANGED <<files, link, job, outside, used>>

\* Mutation of Publish: the temporary file is not synced.
PublishUnsynced ==
    /\ Writing /\ cmd.stage = "written"
    /\ file' = [file EXCEPT ![Dest] = Data]
    /\ cached' = cached \cup {Dest}
    /\ cmd' = [cmd EXCEPT !.pc = AfterWrite, !.stage = "none",
                          !.prev = IF At("config") THEN file["config"] ELSE @]
    /\ UNCHANGED <<link, job, outside, used>>

\* A restart has read the configuration that it replaces.
Publish ==
    /\ Writing /\ cmd.stage = "synced"
    /\ file' = [file EXCEPT ![Dest] = Data]
    /\ cached' = cached \ {Dest}
    /\ cmd' = [cmd EXCEPT !.pc = AfterWrite, !.stage = "none",
                          !.prev = IF At("config") THEN file["config"] ELSE @]
    /\ UNCHANGED <<link, job, outside, used>>

\* A step fails or the command is killed.  An error removes the temporary
\* file; a kill leaves it behind, under a name that is not used again.
CommandFails ==
    /\ ~At("idle") /\ cmd.pc \notin RestartPc
    /\ faults < MaxFaults /\ faults' = faults + 1
    /\ Finish
    /\ UNCHANGED <<files, link, job, outside, commands, changes>>

-----------------------------------------------------------------------------
(* dnsrivet start *)

\* Without a replacement the installed configuration is used or, if there is
\* none, the file dnsrivet.toml, which is checked like a replacement.
Start(e) ==
    /\ ~job.loaded
    /\ \/ \E c \in Accepted : Begin("start", "config", e, c)
       \/ file["config"] # None /\ Begin("start", "load", e, None)
    /\ UNCHANGED installer

\* The installed configuration is loaded, and its addresses are bound.
StartLoads ==
    /\ At("load")
    /\ IF file["config"] \in Valid THEN Goto("binary") ELSE Finish
    /\ UNCHANGED <<files, link, job, outside, used>>

\* Mutation of LookAtCommand: any command of the package manager is accepted,
\* and any other is replaced.
LookAtCommandOnly ==
    /\ At("command")
    /\ IF link = "package" THEN Goto("plist") ELSE Goto("link")
    /\ UNCHANGED <<files, link, job, outside, used>>

\* What is there is the executable that runs the command, or leads to it.
Invoking == \/ link = "package" /\ cmd.path = "package" /\ cmd.version = package
            \/ link = "copy" /\ cmd.path = "copy"

\* Nothing is there, or DNSRivet's own link; the invoking executable stays.
LookAtCommand ==
    /\ At("command")
    /\ IF link \notin Foreign THEN Goto("link")
       ELSE IF Invoking THEN Goto("plist") ELSE Finish
    /\ UNCHANGED <<files, link, job, outside, used>>

\* A rename replaces whatever is there by now.
InstallCommand ==
    /\ At("link") /\ link' = "ours" /\ Goto("plist")
    /\ installer' = [installer EXCEPT !.overlap = FALSE]
    /\ UNCHANGED <<files, job, package, used>>

Enable ==
    /\ At("enable") /\ Goto("bootstrap")
    /\ job' = [job EXCEPT !.enabled = TRUE]
    /\ UNCHANGED <<files, link, outside, used>>

Bootstrap ==
    /\ At("bootstrap") /\ Goto("probe")
    /\ job' = [job EXCEPT !.loaded = TRUE]
    /\ UNCHANGED <<files, link, outside, used>>

RemovePlist == file' = [file EXCEPT !["plist"] = None] /\ cached' = cached \ {"plist"}

BootstrapFails ==
    /\ At("bootstrap") /\ faults < MaxFaults /\ faults' = faults + 1
    /\ Finish /\ RemovePlist
    /\ UNCHANGED <<link, job, outside, commands, changes>>

\* The probe and the takeover succeed, or the takeover must not be undone yet.
StartEnds ==
    /\ At("probe") /\ Finish
    /\ UNCHANGED <<files, link, job, outside, used>>

StartCleansUp ==
    /\ At("probe") /\ Goto("cleanup")
    /\ UNCHANGED <<files, link, job, outside, used>>

CleanupBootout ==
    /\ At("cleanup") /\ Goto("cleanup_plist")
    /\ job' = [job EXCEPT !.loaded = FALSE]
    /\ UNCHANGED <<files, link, outside, used>>

CleanupPlist ==
    /\ At("cleanup_plist") /\ Finish /\ RemovePlist
    /\ UNCHANGED <<link, job, outside, used>>

-----------------------------------------------------------------------------
(* dnsrivet stop and dnsrivet uninstall, once DNS is restored *)

\* History: an uninstall begins while an installer has yet to link.
Stop(name, e) ==
    /\ Begin(name, "disable", e, None)
    /\ installer' = [installer EXCEPT !.overlap = @ \/ (name = "uninstall" /\ installer.pc = "link")]

Disable ==
    LET managed == file["plist"] # None \/ job.loaded IN
    /\ At("disable")
    /\ job' = [job EXCEPT !.enabled = @ /\ ~managed]
    /\ cmd' = [cmd EXCEPT !.pc = "bootout", !.managed = managed]
    /\ UNCHANGED <<files, link, outside, used>>

Bootout ==
    /\ At("bootout")
    /\ job' = [job EXCEPT !.loaded = FALSE]
    /\ IF cmd.name = "uninstall" THEN Goto("rm_plist") ELSE Finish
    /\ UNCHANGED <<files, link, outside, used>>

\* Mutation of UninstallPlist: the executable is removed first.
UninstallPlistLast ==
    /\ At("rm_plist") /\ Goto("rm_command")
    /\ file' = [file EXCEPT !["binary"] = None]
    /\ UNCHANGED <<cached, link, job, outside, used>>

UninstallPlist ==
    /\ At("rm_plist") /\ Goto("rm_command") /\ RemovePlist
    /\ UNCHANGED <<link, job, outside, used>>

\* A link to anything but the installed executable stays.
LookAtLink ==
    /\ At("rm_command")
    /\ IF link = "ours" THEN Goto("rm_link") ELSE Goto("rm_binary")
    /\ UNCHANGED <<files, link, job, outside, used>>

RemoveCommand ==
    /\ At("rm_link") /\ link' = "none" /\ Goto("rm_binary")
    /\ UNCHANGED <<files, job, outside, used>>

RemoveBinary ==
    /\ At("rm_binary") /\ Goto("reenable")
    /\ file' = [file EXCEPT !["binary"] = None] /\ cached' = cached \ {"binary"}
    /\ UNCHANGED <<link, job, outside, used>>

Reenable ==
    /\ At("reenable") /\ Finish
    /\ job' = [job EXCEPT !.enabled = @ \/ cmd.managed]
    /\ UNCHANGED <<files, link, outside, used>>

-----------------------------------------------------------------------------
(* dnsrivet restart, with and without a replacement *)

\* The copy is refreshed unless it runs the command itself.
Restart(e) ==
    /\ job.loaded
    /\ \E r \in Accepted \cup {None} :
         Begin("restart", IF e.path # "installed" THEN "binary"
                          ELSE IF r = None THEN "kick" ELSE "config", e, r)
    /\ UNCHANGED installer

Kick ==
    /\ At("kick") /\ Goto("verify")
    /\ UNCHANGED <<files, link, job, outside, used>>

\* The restarted daemon answers and the takeover is verified, or the command
\* is killed; the reload of the previous configuration ends it in any case.
RestartEnds ==
    /\ cmd.pc \in RestartPc /\ Finish
    /\ UNCHANGED <<files, link, job, outside, used>>

\* kickstart, the probe or the verification fails.
RestartReverts ==
    /\ At("kick") \/ At("verify")
    /\ cmd.replacement # None
    /\ Goto("revert")
    /\ UNCHANGED <<files, link, job, outside, used>>

-----------------------------------------------------------------------------
(* The world *)

PowerLoss ==
    /\ faults < MaxFaults /\ faults' = faults + 1
    /\ \E torn \in SUBSET cached :
         file' = [f \in File |-> IF f \in torn THEN Torn ELSE file[f]]
    /\ cached' = {}
    /\ job' = [job EXCEPT !.loaded = file'["plist"] = Plist /\ job.enabled]
    /\ Finish
    /\ installer' = [installer EXCEPT !.pc = "idle", !.version = None]
    /\ UNCHANGED <<link, package, commands, changes>>

Change == changes < MaxChanges /\ changes' = changes + 1 /\ UNCHANGED <<commands, faults>>

\* The path may change while a command runs.
CommandPath(new) ==
    /\ link' = new
    /\ cmd' = [cmd EXCEPT !.appeared = @ \/ (cmd.pc \in {"link", "rm_link"} /\ new \in Foreign)]

\* Homebrew installs or upgrades, and links its executable if nobody has.
PackageInstalls(v) ==
    /\ Change /\ package' = v
    /\ CommandPath(IF link = "none" THEN "package" ELSE link)
    /\ UNCHANGED <<files, job, installer>>

PackageGoes ==
    /\ Change /\ package # None /\ package' = None
    /\ CommandPath(IF link = "package" THEN "none" ELSE link)
    /\ UNCHANGED <<files, job, installer>>

\* Somebody puts a command of the name on the path.
OtherCommand(new) ==
    /\ Change /\ link # new
    /\ CommandPath(new)
    /\ UNCHANGED <<files, job, outside>>

Served == job.loaded \/ (file["plist"] # None /\ job.enabled)

\* The administrator edits the configuration of a service that is stopped and
\* removes it once nothing is installed.
ConfigEdited(c) ==
    /\ Change /\ At("idle") /\ ~Served
    /\ c = None => file["plist"] = None
    /\ file' = [file EXCEPT !["config"] = c]
    /\ UNCHANGED <<cached, link, job, outside, cmd>>

-----------------------------------------------------------------------------
(* The installer package: macOS runs preinstall, unpacks the executable and
   runs postinstall.  Only the restart at the end takes the lifecycle lock. *)

\* preinstall: never next to Homebrew's executable or over somebody's command.
InstallerChecks(v) ==
    /\ Change /\ installer.pc = "idle"
    /\ package = None /\ link \notin Foreign
    /\ installer' = [installer EXCEPT !.pc = "payload", !.version = v]
    /\ UNCHANGED <<files, link, job, package, cmd>>

InstallerPayload ==
    /\ installer.pc = "payload"
    /\ file' = [file EXCEPT !["binary"] = installer.version]
    /\ installer' = [installer EXCEPT !.pc = "link", !.overlap = cmd.name = "uninstall"]
    /\ UNCHANGED <<cached, link, job, package, cmd, used>>

\* postinstall: any link stays; ln fails on a file.
InstallerLinks ==
    /\ installer.pc = "link" /\ link # "copy"
    /\ link' = IF link = "none" THEN "ours" ELSE link
    /\ installer' = [installer EXCEPT !.pc = "job"]
    /\ UNCHANGED <<files, job, package, cmd, used>>

\* The new executable restarts a loaded service, and waits for it.
InstallerRestarts ==
    /\ installer.pc = "job" /\ job.loaded
    /\ \E e \in Executables : e.path = "installed" /\ Begin("restart", "kick", e, None)
    /\ installer' = [installer EXCEPT !.pc = "idle", !.version = None]

\* No service is loaded, a step fails, or the installer is killed.
InstallerEnds ==
    /\ installer.pc # "idle"
    /\ installer' = [installer EXCEPT !.pc = "idle", !.version = None]
    /\ UNCHANGED <<files, link, job, package, cmd, used>>

-----------------------------------------------------------------------------
(* Specification *)

Init ==
    /\ file = [f \in File |-> None] /\ cached = {}
    /\ job = [enabled |-> TRUE, loaded |-> FALSE]
    /\ package \in Version \cup {None}
    /\ link \in {"none"} \cup Foreign /\ (link = "package" => package # None)
    /\ installer = [pc |-> "idle", version |-> None, overlap |-> FALSE]
    /\ cmd = Idle
    /\ commands = 0 /\ faults = 0 /\ changes = 0

Commands == \E e \in Executables :
    \/ Start(e) \/ Restart(e)
    \/ \E name \in {"stop", "uninstall"} : Stop(name, e)

StartNext == StartLoads \/ LookAtCommand \/ InstallCommand \/ Enable \/ Bootstrap \/ BootstrapFails
             \/ StartEnds \/ StartCleansUp \/ CleanupBootout \/ CleanupPlist

StopNext == Disable \/ Bootout \/ UninstallPlist \/ LookAtLink \/ RemoveCommand \/ RemoveBinary
            \/ Reenable

RestartNext == Kick \/ RestartEnds \/ RestartReverts

InstallerNext == (\E v \in Version : InstallerChecks(v)) \/ InstallerPayload \/ InstallerLinks
                 \/ InstallerRestarts \/ InstallerEnds

World == \/ PowerLoss \/ PackageGoes
         \/ \E new \in {"copy", "other"} : OtherCommand(new)
         \/ \E v \in Version : PackageInstalls(v)
         \/ \E c \in Config \cup {None} : ConfigEdited(c)

Next == \/ WriteTemporary \/ SyncTemporary \/ Publish \/ CommandFails
        \/ Commands \/ StartNext \/ StopNext \/ RestartNext
        \/ InstallerNext \/ World

Spec == Init /\ [][Next]_vars

-----------------------------------------------------------------------------
(* Properties *)

\* Whenever a command dies or the power fails, every file is whole: its old
\* contents or its new ones (atomic_file.rs, "publish the complete file in one
\* step").
FilesWhole == \A f \in File : file[f] # Torn

\* Nothing names what is not there, half-done starts and uninstalls included: a
\* plist has its executable and configuration, DNSRivet's command link has the
\* executable, and what launchd runs, now or after a reboot, loads its
\* configuration (the order of start and uninstall; config_bytes).  Excepted is
\* the link when an uninstall ran between the payload and the link of an
\* installer package (postinstall), which takes no lock: it can then dangle
\* until the next start or installation.
InstallationComplete ==
    /\ file["plist"] # None => file["binary"] \in Version /\ file["config"] # None
    /\ link = "ours" => file["binary"] \in Version \/ installer.overlap
    /\ Served => file["config"] \in Valid

\* A command that belongs to somebody else is replaced or removed only if it
\* came to the path after start or uninstall had looked there: whatever the
\* look finds is respected (install_command_at, remove_command_at).  The rename
\* and the removal that follow do not look again, so what comes in between is
\* lost, though README.md:213 says that an unrelated path is never replaced.
OthersKept ==
    [][link' # link /\ link \in Foreign /\ changes' = changes => cmd.appeared]_vars
=============================================================================
