--------------------------- MODULE InstallProofs ----------------------------
(***************************************************************************)
(* Proofs about Install, for all versions, configurations, commands,       *)
(* faults and changes.                                                     *)
(*                                                                         *)
(* The inductive invariant follows a command through its steps: what it    *)
(* was checked for when it began (CommandInv), what its past steps have    *)
(* left for those ahead (PreparedInv), what it knows of the command path   *)
(* (PathInv), and that nothing unsynced is ever renamed into place; and    *)
(* the installer package through its own (InstallerInv).                   *)
(***************************************************************************)
EXTENDS Install, TLAPS

\* A command moves through its own steps, with an executable and a replacement
\* that were checked when it began, and a restart has a running service.
CommandInv ==
    /\ At("idle") <=> cmd.name = "none"
    /\ cmd.name = "start" => cmd.pc \in StartPc
    /\ cmd.name = "stop" => cmd.pc \in {"disable", "bootout"}
    /\ cmd.name = "uninstall" => cmd.pc \in StopPc
    /\ cmd.name = "restart" => cmd.pc \in RestartPc \cup {"binary", "config"} /\ job.loaded
    /\ cmd.name # "none" => cmd.version \in Version
    /\ cmd.replacement \in Valid \cup {None}
    /\ At("config") => cmd.replacement # None
    /\ cmd.pc \in RestartPc /\ cmd.replacement # None => cmd.prev \in Valid
    /\ At("revert") => cmd.replacement # None

\* What the steps behind a command have left for the steps ahead of it.
PreparedInv ==
    /\ cmd.name = "start" /\ cmd.pc \in {"binary", "command", "link", "plist", "enable", "bootstrap"}
         => file["config"] \in Valid
    /\ cmd.pc \in {"command", "link", "plist"} => file["binary"] \in Version
    /\ cmd.pc \in {"rm_command", "rm_link", "rm_binary", "reenable"} => file["plist"] = None
    /\ cmd.pc = "rm_binary" => link # "ours" \/ installer.overlap

\* Nothing is written but what was synced.
WholeInv == cached = {} /\ FilesWhole

\* What an installer is about to link is there, unless an uninstall crossed it.
InstallerInv ==
    /\ installer.pc = "payload" => installer.version \in Version
    /\ installer.pc = "link" => file["binary"] \in Version \/ installer.overlap
    /\ installer.pc = "link" /\ cmd.name = "uninstall" => installer.overlap

\* A command about to change the path knows what is there, or it came later.
PathInv == cmd.pc \in {"link", "rm_link"} /\ link \in Foreign => cmd.appeared

IInv == TypeOK /\ WholeInv /\ CommandInv /\ PreparedInv /\ PathInv /\ InstallerInv
        /\ InstallationComplete

-----------------------------------------------------------------------------
(* The file that a command writes *)

\* A command writes whole contents to the file of its step: an accepted or a
\* previous configuration, a version of the executable, a plist.
LEMMA WritesWhole ==
    ASSUME TypeOK, CommandInv, Writing
    PROVE  /\ Dest \in File /\ Data \in Content /\ Data # Torn /\ Data # None
           /\ Dest = "config" => Data \in Valid
           /\ Dest = "binary" => Data \in Version
           /\ Dest = "plist" => Data = Plist
<1>. Valid \cup Version \subseteq Content \ {Torn, None} /\ Plist \in Content \ {Torn, None}
  BY InstallConstants DEF Content, Config
<1>1. CASE At("config")
  BY <1>1 DEF CommandInv, Dest, Data, At, File
<1>2. CASE At("revert")
  <2>1. cmd.replacement # None /\ cmd.pc \in RestartPc
    BY <1>2 DEF CommandInv, At, RestartPc
  <2>. QED
    BY <1>2, <2>1 DEF CommandInv, Dest, Data, At, File
<1>3. CASE At("binary")
  BY <1>3 DEF CommandInv, Dest, Data, At, File
<1>4. CASE At("plist")
  BY <1>4 DEF CommandInv, Dest, Data, At, File
<1>. QED
  BY <1>1, <1>2, <1>3, <1>4 DEF Writing, At

\* The idle command is one.
LEMMA IdleFacts ==
    /\ Idle \in Command /\ Idle.pc = "idle" /\ Idle.name = "none"
    /\ Idle.replacement = None /\ Idle.appeared = FALSE
  BY DEF Idle, Command, Content, Config

-----------------------------------------------------------------------------
(* Type correctness *)

\* The steps of the commands and of the world as they change one variable each.
LEMMA GotoType ==
    ASSUME TypeOK, NEW pc \in StartPc \cup StopPc \cup RestartPc, Goto(pc)
    PROVE  cmd' \in Command /\ cmd' = [cmd EXCEPT !.pc = pc]
  BY DEF TypeOK, Goto, Command

\* Every step of a command, and of the world, keeps the types.
LEMMA TypeNext == ASSUME TypeOK, CommandInv, [Next]_vars PROVE TypeOK'
<1>. USE IdleFacts DEF outside
<1>. /\ file \in [File -> Content] /\ cached \subseteq File /\ cmd \in Command
     /\ job \in [enabled : BOOLEAN, loaded : BOOLEAN] /\ installer \in Installer
  BY DEF TypeOK
<1>. None \in Content /\ Torn \in Content /\ Version \subseteq Content /\ Config \subseteq Content
  BY DEF Content
<1>1. CASE WriteTemporary \/ SyncTemporary
  BY <1>1 DEF WriteTemporary, SyncTemporary, files, used, TypeOK, Command
<1>2. CASE Publish
  <2>1. Dest \in File /\ Data \in Content
    BY <1>2, WritesWhole DEF Publish
  <2>2. AfterWrite \in StartPc \cup StopPc \cup RestartPc
    BY DEF AfterWrite, StartPc, RestartPc
  <2>3. cmd' \in Command
    <3>. DEFINE pc == AfterWrite
                prev == IF At("config") THEN file["config"] ELSE cmd.prev
    <3>1. cmd' = [cmd EXCEPT !.pc = pc, !.stage = "none", !.prev = prev]
      BY <1>2 DEF Publish
    <3>2. pc \in StartPc \cup StopPc \cup RestartPc /\ prev \in Content
      BY <2>2 DEF Command, File
    <3>. HIDE DEF pc, prev
    <3>. QED
      BY <3>1, <3>2 DEF Command
  <2>4. file' \in [File -> Content] /\ cached' \subseteq File
    BY <1>2, <2>1 DEF Publish
  <2>. QED
    BY <1>2, <2>3, <2>4 DEF Publish, TypeOK, used
<1>3. CASE CommandFails
  BY <1>3 DEF CommandFails, Finish, files, TypeOK
<1>4. CASE Commands \/ InstallerRestarts
  <2>1. PICK e \in Executables : \/ Start(e) \/ Restart(e)
                                \/ \E name \in {"stop", "uninstall"} : Stop(name, e)
                                \/ (Begin("restart", "kick", e, None) /\ InstallerRestarts)
    BY <1>4 DEF Commands, InstallerRestarts
  <2>2. e.path \in {"package", "copy", "installed"} /\ e.version \in Version
    BY DEF Executables, TypeOK
  <2>3. PICK name \in {"start", "stop", "uninstall", "restart"},
             pc \in StartPc \cup StopPc \cup RestartPc, c \in Config \cup {None} :
             Begin(name, pc, e, c)
    <3>1. CASE Start(e)
      BY <3>1 DEF Start, Accepted, Config, StartPc
    <3>2. CASE Restart(e)
      BY <3>2 DEF Restart, Accepted, Config, StartPc, RestartPc
    <3>3. CASE \E name \in {"stop", "uninstall"} : Stop(name, e)
      BY <3>3 DEF Stop, StopPc
    <3>. QED
      BY <2>1, <3>1, <3>2, <3>3 DEF RestartPc
  <2>4. cmd' \in Command
    <3>1. cmd' = [name |-> name, pc |-> pc, stage |-> "none", replacement |-> c, prev |-> None,
                  path |-> e.path, version |-> e.version, managed |-> FALSE, appeared |-> FALSE]
      BY <2>3 DEF Begin, Idle
    <3>. QED
      BY <2>2, <2>3, <3>1 DEF Command
  <2>5. installer' \in Installer
    <3>1. CASE \E n \in {"stop", "uninstall"} : Stop(n, e)
      <4>. PICK n \in {"stop", "uninstall"} : Stop(n, e)
        BY <3>1
      <4>. DEFINE overlap == installer.overlap \/ (n = "uninstall" /\ installer.pc = "link")
      <4>1. installer' = [installer EXCEPT !.overlap = overlap]
        BY DEF Stop
      <4>2. overlap \in BOOLEAN
        BY DEF Installer
      <4>. HIDE DEF overlap
      <4>. QED
        BY <4>1, <4>2 DEF Installer
    <3>. QED
      BY <2>1, <3>1 DEF Start, Restart, InstallerRestarts, Installer
  <2>. QED
    BY <2>3, <2>4, <2>5 DEF Begin, TypeOK
<1>5. CASE StartNext
  <2>1. CASE StartLoads \/ LookAtCommand \/ InstallCommand \/ Enable \/ Bootstrap
             \/ StartEnds \/ StartCleansUp \/ CleanupBootout
    <3>1. cmd' \in Command
      BY <2>1 DEF StartLoads, LookAtCommand, InstallCommand, Enable, Bootstrap, StartEnds,
                  StartCleansUp, CleanupBootout, Goto, Finish, Command, StartPc
    <3>2. link' \in {"none", "ours"} \cup Foreign /\ job' \in [enabled : BOOLEAN, loaded : BOOLEAN]
      BY <2>1 DEF StartLoads, LookAtCommand, InstallCommand, Enable, Bootstrap, StartEnds,
                  StartCleansUp, CleanupBootout, TypeOK
    <3>3. installer' \in Installer
      BY <2>1 DEF StartLoads, LookAtCommand, InstallCommand, Enable, Bootstrap, StartEnds,
                  StartCleansUp, CleanupBootout, outside, Installer
    <3>. QED
      BY <2>1, <3>1, <3>2, <3>3 DEF StartLoads, LookAtCommand, InstallCommand, Enable, Bootstrap,
                  StartEnds, StartCleansUp, CleanupBootout, TypeOK, files, used
  <2>2. CASE BootstrapFails \/ CleanupPlist
    <3>1. file' \in [File -> Content] /\ cached' \subseteq File
      BY <2>2 DEF BootstrapFails, CleanupPlist, RemovePlist
    <3>. QED
      BY <2>2, <3>1 DEF BootstrapFails, CleanupPlist, Finish, TypeOK, used
  <2>. QED
    BY <1>5, <2>1, <2>2 DEF StartNext
<1>6. CASE StopNext
  <2>1. CASE Disable
    <3>. DEFINE managed == file["plist"] # None \/ job.loaded
    <3>1. managed \in BOOLEAN
      BY DEF managed
    <3>2. cmd' \in Command
      BY <2>1, <3>1 DEF Disable, Command, StopPc
    <3>3. job' \in [enabled : BOOLEAN, loaded : BOOLEAN]
      BY <2>1 DEF Disable
    <3>. QED
      BY <2>1, <3>2, <3>3 DEF Disable, TypeOK, files, used
  <2>2. CASE Bootout \/ LookAtLink \/ RemoveCommand \/ Reenable
    <3>1. cmd' \in Command
      BY <2>2 DEF Bootout, LookAtLink, RemoveCommand, Reenable, Goto, Finish, Command, StopPc
    <3>2. link' \in {"none", "ours"} \cup Foreign
      BY <2>2 DEF Bootout, LookAtLink, RemoveCommand, Reenable, TypeOK
    <3>3. job' \in [enabled : BOOLEAN, loaded : BOOLEAN]
      BY <2>2 DEF Bootout, LookAtLink, RemoveCommand, Reenable
    <3>. QED
      BY <2>2, <3>1, <3>2, <3>3 DEF Bootout, LookAtLink, RemoveCommand, Reenable, TypeOK, files, used
  <2>3. CASE UninstallPlist \/ RemoveBinary
    <3>1. cmd' \in Command
      BY <2>3 DEF UninstallPlist, RemoveBinary, Goto, Command, StopPc
    <3>2. file' \in [File -> Content] /\ cached' \subseteq File
      BY <2>3 DEF UninstallPlist, RemoveBinary, RemovePlist
    <3>. QED
      BY <2>3, <3>1, <3>2 DEF UninstallPlist, RemoveBinary, TypeOK, used
  <2>. QED
    BY <1>6, <2>1, <2>2, <2>3 DEF StopNext
<1>7. CASE RestartNext
  BY <1>7 DEF RestartNext, Kick, RestartEnds, RestartReverts, Goto, Finish, Command, RestartPc,
              TypeOK, files, used
<1>8. CASE World
  <2>1. CASE PowerLoss
    <3>1. file' \in [File -> Content]
      BY <2>1 DEF PowerLoss
    <3>2. job' \in [enabled : BOOLEAN, loaded : BOOLEAN]
      BY <2>1 DEF PowerLoss
    <3>3. installer' \in Installer
      BY <2>1 DEF PowerLoss, Installer
    <3>. QED
      BY <2>1, <3>1, <3>2, <3>3 DEF PowerLoss, Finish, TypeOK
  <2>2. ASSUME NEW new \in {"none", "ours"} \cup Foreign, CommandPath(new)
        PROVE  cmd' \in Command /\ link' \in {"none", "ours"} \cup Foreign
    <3>. DEFINE appeared == cmd.appeared \/ (cmd.pc \in {"link", "rm_link"} /\ new \in Foreign)
    <3>1. appeared \in BOOLEAN
      BY DEF appeared, Command
    <3>2. cmd' = [cmd EXCEPT !.appeared = appeared]
      BY <2>2 DEF CommandPath
    <3>. HIDE DEF appeared
    <3>. QED
      BY <2>2, <3>1, <3>2 DEF CommandPath, Command
  <2>3. CASE \/ PackageGoes \/ \E new \in {"copy", "other"} : OtherCommand(new)
             \/ \E v \in Version : PackageInstalls(v)
    <3>1. cmd' \in Command /\ link' \in {"none", "ours"} \cup Foreign
      BY <2>2, <2>3 DEF PackageGoes, OtherCommand, PackageInstalls, TypeOK, Foreign
    <3>. QED
      BY <2>3, <3>1 DEF PackageGoes, OtherCommand, PackageInstalls, Change, TypeOK, files
  <2>5. CASE \E c \in Config \cup {None} : ConfigEdited(c)
    <3>1. file' \in [File -> Content]
      BY <2>5 DEF ConfigEdited
    <3>. QED
      BY <2>5, <3>1 DEF ConfigEdited, Change, TypeOK
  <2>. QED
    BY <1>8, <2>1, <2>3, <2>5 DEF World
<1>10. CASE \/ InstallerPayload \/ InstallerLinks \/ InstallerEnds
            \/ \E v \in Version : InstallerChecks(v)
  <2>1. installer' \in Installer
    BY <1>10 DEF InstallerPayload, InstallerLinks, InstallerEnds, InstallerChecks, Installer
  <2>2. file' \in [File -> Content]
    BY <1>10 DEF InstallerPayload, InstallerLinks, InstallerEnds, InstallerChecks, Installer, files
  <2>3. link' \in {"none", "ours"} \cup Foreign
    BY <1>10 DEF InstallerPayload, InstallerLinks, InstallerEnds, InstallerChecks, TypeOK
  <2>4. UNCHANGED <<cached, job, package, cmd, commands, faults>> /\ changes' \in Nat
    <3>1. CASE InstallerPayload \/ InstallerLinks \/ InstallerEnds
      BY <3>1 DEF InstallerPayload, InstallerLinks, InstallerEnds, files, used, TypeOK
    <3>2. CASE \E v \in Version : InstallerChecks(v)
      BY <3>2 DEF InstallerChecks, Change, files, TypeOK
    <3>. QED
      BY <1>10, <3>1, <3>2
  <2>. QED
    BY <2>1, <2>2, <2>3, <2>4 DEF TypeOK
<1>9. CASE UNCHANGED vars
  BY <1>9 DEF vars, TypeOK
<1>. QED
  BY <1>1, <1>2, <1>3, <1>4, <1>5, <1>6, <1>7, <1>8, <1>9, <1>10 DEF Next, InstallerNext

-----------------------------------------------------------------------------
(* The inductive invariant *)

\* Nothing is installed, and no command runs.
LEMMA InitInv == Init => IInv
<1>. SUFFICES ASSUME Init PROVE IInv
  OBVIOUS
<1>1. TypeOK
  BY IdleFacts DEF Init, TypeOK, Content, Foreign, Installer
<1>2. WholeInv
  BY InstallConstants DEF Init, WholeInv, FilesWhole, Content
<1>3. CommandInv /\ PreparedInv /\ PathInv /\ InstallerInv
  BY IdleFacts DEF Init, CommandInv, PreparedInv, PathInv, InstallerInv, At, StartPc, StopPc, RestartPc
<1>4. InstallationComplete
  BY DEF Init, InstallationComplete, Served, File, Foreign
<1>. QED
  BY <1>1, <1>2, <1>3, <1>4 DEF IInv

\* Only what was synced is renamed into place, so power loss tears nothing.
LEMMA WholeNext == ASSUME IInv, [Next]_vars PROVE WholeInv'
<1>. TypeOK /\ CommandInv /\ cached = {} /\ FilesWhole /\ file \in [File -> Content]
  BY DEF IInv, WholeInv, TypeOK
<1>. None # Torn /\ Torn \notin Config \cup Version
  BY InstallConstants
<1>1. CASE Publish
  <2>1. Data # Torn
    BY <1>1, WritesWhole DEF Publish
  <2>. QED
    BY <1>1, <2>1 DEF Publish, WholeInv, FilesWhole
<1>2. CASE PowerLoss
  BY <1>2 DEF PowerLoss, WholeInv, FilesWhole
<1>3. CASE BootstrapFails \/ CleanupPlist \/ UninstallPlist \/ RemoveBinary
  BY <1>3 DEF BootstrapFails, CleanupPlist, UninstallPlist, RemoveBinary, RemovePlist,
              WholeInv, FilesWhole
<1>4. CASE InstallerPayload
  BY <1>4 DEF InstallerPayload, InstallerInv, IInv, WholeInv, FilesWhole
<1>5. CASE \E c \in Config \cup {None} : ConfigEdited(c)
  BY <1>5 DEF ConfigEdited, WholeInv, FilesWhole
<1>6. CASE UNCHANGED files
  BY <1>6 DEF files, WholeInv, FilesWhole
<1>7. \/ Publish \/ PowerLoss
      \/ BootstrapFails \/ CleanupPlist \/ UninstallPlist \/ RemoveBinary
      \/ InstallerPayload
      \/ \E c \in Config \cup {None} : ConfigEdited(c)
      \/ UNCHANGED files
  BY DEF Next, vars, files, WriteTemporary, SyncTemporary, CommandFails, Commands, Start, Restart,
         Begin, StartNext, StartLoads, LookAtCommand, InstallCommand, Enable, Bootstrap, StartEnds,
         StartCleansUp, CleanupBootout, StopNext, Disable, Bootout, LookAtLink, RemoveCommand,
         Reenable, RestartNext, Kick, RestartEnds, RestartReverts, World, PackageGoes, OtherCommand,
         PackageInstalls, Stop, InstallerNext, InstallerChecks, InstallerLinks, InstallerRestarts,
         InstallerEnds
<1>. QED
  BY <1>1, <1>2, <1>3, <1>4, <1>5, <1>6, <1>7

\* A step of a command goes to another step of it, or ends it.
LEMMA CommandNext == ASSUME IInv, [Next]_vars PROVE CommandInv'
<1>. USE IdleFacts DEF At
<1>. TypeOK /\ CommandInv /\ InstallationComplete /\ cmd \in Command
  BY DEF IInv, TypeOK
<1>. None \notin Valid
  BY InstallConstants DEF Config
<1>1. CASE WriteTemporary \/ SyncTemporary
  BY <1>1 DEF WriteTemporary, SyncTemporary, CommandInv, Command
<1>2. CASE Publish
  <2>1. CASE At("config")
    <3>1. cmd.name = "restart" => file["config"] \in Valid
      BY DEF CommandInv, InstallationComplete, Served
    <3>. QED
      BY <1>2, <2>1, <3>1 DEF Publish, AfterWrite, CommandInv, Command, StartPc, StopPc, RestartPc
  <2>2. CASE At("revert")
    BY <1>2, <2>2 DEF Publish, AfterWrite, CommandInv, Command, StartPc, StopPc, RestartPc
  <2>3. CASE At("binary")
    BY <1>2, <2>3 DEF Publish, AfterWrite, CommandInv, Command, StartPc, StopPc, RestartPc
  <2>4. CASE At("plist")
    BY <1>2, <2>4 DEF Publish, AfterWrite, CommandInv, Command, StartPc, StopPc, RestartPc
  <2>. QED
    BY <1>2, <2>1, <2>2, <2>3, <2>4 DEF Publish, Writing
<1>3. CASE cmd' = Idle
  BY <1>3 DEF CommandInv, StartPc, StopPc, RestartPc
<1>4. CASE Commands \/ InstallerRestarts
  <2>. PICK e \in Executables : \/ Start(e) \/ Restart(e)
                               \/ \E name \in {"stop", "uninstall"} : Stop(name, e)
                               \/ (job.loaded /\ Begin("restart", "kick", e, None))
    BY <1>4 DEF Commands, InstallerRestarts
  <2>. e.version \in Version
    BY DEF Executables, TypeOK
  <2>1. ASSUME NEW name \in {"start", "stop", "uninstall", "restart"},
               NEW pc \in StartPc \cup StopPc \cup RestartPc, NEW c \in Valid \cup {None},
               Begin(name, pc, e, c)
        PROVE  /\ cmd'.name = name /\ cmd'.pc = pc /\ cmd'.version \in Version
               /\ cmd'.replacement = c /\ job' = job
    BY <2>1 DEF Begin, Idle
  <2>2. CASE Start(e)
    BY <2>1, <2>2 DEF Start, Accepted, CommandInv, StartPc, StopPc, RestartPc
  <2>3. CASE Restart(e)
    BY <2>1, <2>3 DEF Restart, Accepted, CommandInv, StartPc, StopPc, RestartPc
  <2>4. CASE \E name \in {"stop", "uninstall"} : Stop(name, e)
    BY <2>1, <2>4 DEF Stop, CommandInv, StartPc, StopPc, RestartPc
  <2>5. CASE job.loaded /\ Begin("restart", "kick", e, None)
    BY <2>1, <2>5 DEF CommandInv, StartPc, StopPc, RestartPc
  <2>. QED
    BY <2>2, <2>3, <2>4, <2>5
<1>5. CASE StartNext /\ cmd' # Idle
  BY <1>5 DEF StartNext, StartLoads, LookAtCommand, InstallCommand, Enable, Bootstrap,
       BootstrapFails, StartEnds, StartCleansUp, CleanupBootout, CleanupPlist, Goto, Finish,
       CommandInv, Command, StartPc, StopPc, RestartPc
<1>6. CASE StopNext /\ cmd' # Idle
  <2>1. CASE Disable
    <3>1. cmd'.pc = "bootout" /\ \A f \in {"name", "version", "replacement", "prev"} : cmd'[f] = cmd[f]
      BY <2>1 DEF Disable, Command
    <3>. QED
      BY <2>1, <3>1 DEF Disable, CommandInv, Command, StartPc, StopPc, RestartPc
  <2>. QED
    BY <1>6, <2>1 DEF StopNext, Bootout, UninstallPlist, LookAtLink, RemoveCommand, RemoveBinary,
         Reenable, Goto, Finish, CommandInv, Command, StartPc, StopPc, RestartPc
<1>7. CASE RestartNext /\ cmd' # Idle
  BY <1>7 DEF RestartNext, Kick, RestartEnds, RestartReverts, Goto, Finish, CommandInv, Command,
       StartPc, StopPc, RestartPc
<1>8. CASE World /\ cmd' # Idle
  <2>1. \A f \in {"name", "pc", "version", "replacement", "prev"} : cmd'[f] = cmd[f]
    BY <1>8 DEF World, PowerLoss, Finish, PackageGoes, OtherCommand, PackageInstalls, CommandPath,
         ConfigEdited, Command
  <2>2. job' = job
    BY <1>8 DEF World, PowerLoss, Finish, PackageGoes, OtherCommand, PackageInstalls, ConfigEdited
  <2>. QED
    BY <2>1, <2>2 DEF CommandInv
<1>9. CASE UNCHANGED <<cmd, job>>
  BY <1>9 DEF CommandInv
<1>. QED
  BY <1>1, <1>2, <1>3, <1>4, <1>5, <1>6, <1>7, <1>8, <1>9 DEF Next, CommandFails, Finish,
     vars, InstallerNext, InstallerChecks, InstallerPayload, InstallerLinks, InstallerEnds

\* The steps ahead of a command find what the steps behind it left, since only
\* the package manager and the users of the path act beside it.
LEMMA PreparedNext == ASSUME IInv, [Next]_vars PROVE PreparedInv'
<1>. USE IdleFacts DEF At, outside
<1>. TypeOK /\ CommandInv /\ PreparedInv /\ InstallerInv /\ installer \in Installer /\ cached = {} /\ cmd \in Command /\ file \in [File -> Content]
  BY DEF IInv, TypeOK, WholeInv
<1>1. CASE WriteTemporary \/ SyncTemporary
  BY <1>1 DEF WriteTemporary, SyncTemporary, files, PreparedInv, Command
<1>2. CASE Publish
  <2>. Data \in Content /\ (Dest = "config" => Data \in Valid) /\ (Dest = "binary" => Data \in Version)
    BY <1>2, WritesWhole DEF Publish
  <2>1. CASE At("config")
    BY <1>2, <2>1 DEF Publish, AfterWrite, Dest, CommandInv, PreparedInv, Command, File
  <2>2. CASE At("revert")
    BY <1>2, <2>2 DEF Publish, AfterWrite, Dest, CommandInv, PreparedInv, Command, File
  <2>3. CASE At("binary")
    BY <1>2, <2>3 DEF Publish, AfterWrite, Dest, CommandInv, PreparedInv, Command, File
  <2>4. CASE At("plist")
    BY <1>2, <2>4 DEF Publish, AfterWrite, Dest, CommandInv, PreparedInv, Command, File, StartPc, StopPc, RestartPc
  <2>. QED
    BY <1>2, <2>1, <2>2, <2>3, <2>4 DEF Publish, Writing
<1>3. CASE cmd' = Idle
  BY <1>3 DEF PreparedInv
<1>4. CASE Commands \/ InstallerRestarts
  <2>1. cmd'.pc \in {"config", "load", "disable", "binary", "kick"}
        /\ (cmd'.pc = "binary" => cmd'.name = "restart")
    <3>1. ASSUME NEW name, NEW pc, NEW e, NEW c, Begin(name, pc, e, c)
          PROVE  cmd'.pc = pc /\ cmd'.name = name
      BY <3>1 DEF Begin, Idle
    <3>. QED
      BY <1>4, <3>1 DEF Commands, Start, Restart, Stop, InstallerRestarts
  <2>. QED
    BY <2>1 DEF PreparedInv
<1>5. CASE StartNext /\ cmd' # Idle
  <2>1. CASE StartLoads
    BY <1>5, <2>1 DEF StartLoads, Goto, Finish, files, PreparedInv, Command
  <2>2. CASE LookAtCommand \/ InstallCommand \/ Enable \/ Bootstrap
    BY <2>2 DEF LookAtCommand, InstallCommand, Enable, Bootstrap, Goto, Finish, files, PreparedInv,
         CommandInv, Command, StartPc, StopPc, RestartPc
  <2>3. CASE StartCleansUp \/ CleanupBootout
    BY <2>3 DEF StartCleansUp, CleanupBootout, Goto, PreparedInv, Command
  <2>. QED
    BY <1>5, <2>1, <2>2, <2>3 DEF StartNext, BootstrapFails, StartEnds, CleanupPlist, Finish
<1>6. CASE StopNext /\ cmd' # Idle
  <2>1. CASE Disable \/ Bootout
    BY <1>6, <2>1 DEF Disable, Bootout, Goto, Finish, PreparedInv, Command
  <2>2. CASE UninstallPlist
    BY <2>2 DEF UninstallPlist, RemovePlist, Goto, PreparedInv, Command, File
  <2>3. CASE LookAtLink \/ RemoveCommand
    BY <2>3 DEF LookAtLink, RemoveCommand, Goto, files, PreparedInv, Command
  <2>4. CASE RemoveBinary
    BY <2>4 DEF RemoveBinary, Goto, PreparedInv, Command, File
  <2>. QED
    BY <1>6, <2>1, <2>2, <2>3, <2>4 DEF StopNext, Reenable, Finish
<1>7. CASE RestartNext /\ cmd' # Idle
  BY <1>7 DEF RestartNext, Kick, RestartEnds, RestartReverts, Goto, Finish, PreparedInv, Command
<1>8. CASE World /\ cmd' # Idle
  <2>1. CASE \/ PackageGoes \/ \E new \in {"copy", "other"} : OtherCommand(new)
             \/ \E v \in Version : PackageInstalls(v)
    <3>1. cmd'.pc = cmd.pc /\ cmd'.name = cmd.name /\ UNCHANGED <<file, installer>>
      BY <2>1 DEF PackageGoes, OtherCommand, PackageInstalls, CommandPath, Command, files
    <3>2. link' = "ours" => link = "ours"
      BY <2>1 DEF PackageGoes, OtherCommand, PackageInstalls, CommandPath
    <3>. QED
      BY <3>1, <3>2 DEF PreparedInv
  <2>2. CASE \E c \in Config \cup {None} : ConfigEdited(c)
    BY <2>2 DEF ConfigEdited, PreparedInv, CommandInv
  <2>. QED
    BY <1>8, <2>1, <2>2 DEF World, PowerLoss, Finish
<1>9. CASE UNCHANGED vars
  BY <1>9 DEF vars, PreparedInv
<1>10. CASE InstallerNext /\ ~InstallerRestarts
  <2>1. UNCHANGED cmd
    BY <1>10 DEF InstallerNext, InstallerChecks, InstallerPayload, InstallerLinks, InstallerEnds
  <2>2. CASE InstallerPayload
    <3>1. cmd.pc = "rm_binary" => cmd.name = "uninstall"
      BY DEF CommandInv, Command, StartPc, RestartPc
    <3>. QED
      BY <2>1, <2>2, <3>1 DEF InstallerPayload, InstallerInv, PreparedInv, Installer, File
  <2>3. CASE InstallerLinks
    BY <2>1, <2>3 DEF InstallerLinks, InstallerInv, PreparedInv, Installer, CommandInv, Command,
         files, StartPc, RestartPc
  <2>4. CASE InstallerEnds \/ \E v \in Version : InstallerChecks(v)
    BY <2>1, <2>4 DEF InstallerEnds, InstallerChecks, PreparedInv, Installer, files
  <2>. QED
    BY <1>10, <2>2, <2>3, <2>4 DEF InstallerNext
<1>. QED
  BY <1>1, <1>2, <1>3, <1>4, <1>5, <1>6, <1>7, <1>8, <1>9, <1>10
     DEF Next, CommandFails, Finish, InstallerNext

\* A foreign command on the path of a command that looked came after its look.
LEMMA PathNext == ASSUME IInv, [Next]_vars PROVE PathInv'
<1>. USE IdleFacts DEF At
<1>. TypeOK /\ PathInv /\ CommandInv /\ cmd \in Command
  BY DEF IInv, TypeOK
<1>1. CASE LookAtCommand \/ LookAtLink
  BY <1>1 DEF LookAtCommand, LookAtLink, Goto, Finish, PathInv, Command, Foreign
<1>2. CASE \/ PackageGoes \/ \E new \in {"copy", "other"} : OtherCommand(new)
           \/ \E v \in Version : PackageInstalls(v)
  <2>1. PICK new \in {"none", "package", "copy", "other", link} : CommandPath(new)
    BY <1>2 DEF PackageGoes, OtherCommand, PackageInstalls
  <2>. DEFINE appeared == cmd.appeared \/ (cmd.pc \in {"link", "rm_link"} /\ new \in Foreign)
  <2>2. cmd'.pc = cmd.pc /\ cmd'.appeared = appeared
    BY <2>1 DEF CommandPath, Command
  <2>. QED
    BY <2>1, <2>2 DEF CommandPath, PathInv
<1>3. CASE InstallCommand \/ RemoveCommand
  BY <1>3 DEF InstallCommand, RemoveCommand, Goto, PathInv, Foreign, Command
<1>11. CASE InstallerLinks
  BY <1>11 DEF InstallerLinks, PathInv, Foreign
<1>4. CASE cmd' = Idle
  BY <1>4 DEF PathInv
<1>5. CASE WriteTemporary \/ SyncTemporary
  BY <1>5 DEF WriteTemporary, SyncTemporary, PathInv, Command
<1>6. CASE UNCHANGED link /\ UNCHANGED cmd
  BY <1>6 DEF PathInv
<1>7. CASE Publish
  <2>1. cmd'.pc \notin {"link", "rm_link"}
    BY <1>7 DEF Publish, AfterWrite, Command
  <2>. QED
    BY <2>1 DEF PathInv
<1>8. CASE Commands \/ InstallerRestarts
  <2>1. cmd'.pc \in {"config", "load", "disable", "binary", "kick"}
    BY <1>8 DEF Commands, Start, Restart, Stop, InstallerRestarts, Begin, Idle
  <2>. QED
    BY <2>1 DEF PathInv
<1>9. CASE StartLoads \/ Enable \/ Bootstrap \/ BootstrapFails \/ StartEnds \/ StartCleansUp
           \/ CleanupBootout \/ CleanupPlist
  BY <1>9 DEF StartLoads, Enable, Bootstrap, BootstrapFails, StartEnds, StartCleansUp,
       CleanupBootout, CleanupPlist, Goto, Finish, PathInv, Command
<1>10. CASE Disable \/ Bootout \/ UninstallPlist \/ RemoveBinary \/ Reenable \/ RestartNext
  BY <1>10 DEF Disable, Bootout, UninstallPlist, RemoveBinary, Reenable, RestartNext, Kick,
       RestartEnds, RestartReverts, Goto, Finish, PathInv, Command
<1>. QED
  BY <1>1, <1>2, <1>3, <1>4, <1>5, <1>6, <1>7, <1>8, <1>9, <1>10, <1>11 DEF Next, CommandFails, Finish,
     StartNext, StopNext, World, PowerLoss, ConfigEdited, vars, InstallerNext, InstallerChecks,
     InstallerPayload, InstallerEnds

\* What an installer links was there and stays, or an uninstall crosses it.
LEMMA InstallerInvNext == ASSUME IInv, [Next]_vars PROVE InstallerInv'
<1>. USE IdleFacts DEF At, outside
<1>. /\ TypeOK /\ CommandInv /\ PreparedInv /\ InstallerInv /\ cached = {}
     /\ cmd \in Command /\ file \in [File -> Content] /\ installer \in Installer
  BY DEF IInv, TypeOK, WholeInv
<1>1. CASE InstallerPayload
  BY <1>1 DEF InstallerPayload, InstallerInv, Installer, File
<1>2. CASE \E v \in Version : InstallerChecks(v)
  BY <1>2 DEF InstallerChecks, InstallerInv, Installer, files
<1>3. CASE InstallerLinks \/ InstallerEnds \/ InstallerRestarts \/ PowerLoss
  BY <1>3 DEF InstallerLinks, InstallerEnds, InstallerRestarts, PowerLoss, InstallerInv, Installer
<1>4. CASE Commands
  <2>. PICK e \in Executables : \/ Start(e) \/ Restart(e)
                               \/ \E name \in {"stop", "uninstall"} : Stop(name, e)
    BY <1>4 DEF Commands
  <2>1. ASSUME NEW name, NEW pc, NEW c, Begin(name, pc, e, c)
        PROVE  cmd'.name = name /\ UNCHANGED file
    BY <2>1 DEF Begin, Idle
  <2>2. CASE Start(e)
    BY <2>1, <2>2 DEF Start, InstallerInv
  <2>3. CASE Restart(e)
    BY <2>1, <2>3 DEF Restart, InstallerInv
  <2>4. CASE Stop("uninstall", e) \/ Stop("stop", e)
    BY <2>1, <2>4 DEF Stop, InstallerInv, Installer
  <2>. QED
    BY <2>2, <2>3, <2>4
<1>5. CASE Publish
  <2>1. cmd'.name = cmd.name /\ installer' = installer
    BY <1>5 DEF Publish, Command
  <2>2. file["binary"] \in Version => file'["binary"] \in Version
    BY <1>5, WritesWhole DEF Publish, File
  <2>. QED
    BY <2>1, <2>2 DEF InstallerInv
<1>6. CASE InstallCommand
  BY <1>6 DEF InstallCommand, InstallerInv, PreparedInv, CommandInv, Installer, Goto, Command, files,
       StartPc, StopPc, RestartPc
<1>7. CASE RemoveBinary
  BY <1>7 DEF RemoveBinary, InstallerInv, CommandInv, Goto, Command, StartPc, StopPc, RestartPc
<1>8. CASE /\ UNCHANGED installer /\ file'["binary"] = file["binary"]
           /\ cmd'.name \in {cmd.name, "none"}
  BY <1>8 DEF InstallerInv
<1>9. \/ InstallerPayload \/ (\E v \in Version : InstallerChecks(v))
      \/ InstallerLinks \/ InstallerEnds \/ InstallerRestarts \/ PowerLoss
      \/ Commands \/ Publish \/ InstallCommand \/ RemoveBinary
      \/ (UNCHANGED installer /\ file'["binary"] = file["binary"] /\ cmd'.name \in {cmd.name, "none"})
  <2>1. ASSUME WriteTemporary \/ SyncTemporary \/ CommandFails \/ RestartNext \/ UNCHANGED vars
        PROVE  UNCHANGED <<installer, file>> /\ cmd'.name \in {cmd.name, "none"}
    BY <2>1 DEF WriteTemporary, SyncTemporary, CommandFails, RestartNext, Kick, RestartEnds,
         RestartReverts, Finish, Goto, vars, files, Command
  <2>2. ASSUME StartNext, ~InstallCommand
        PROVE  /\ UNCHANGED installer /\ file'["binary"] = file["binary"]
               /\ cmd'.name \in {cmd.name, "none"}
    BY <2>2 DEF StartNext, StartLoads, LookAtCommand, Enable, Bootstrap, BootstrapFails, StartEnds,
         StartCleansUp, CleanupBootout, CleanupPlist, RemovePlist, Finish, Goto, files, Command, File
  <2>3. ASSUME StopNext, ~RemoveBinary
        PROVE  /\ UNCHANGED installer /\ file'["binary"] = file["binary"]
               /\ cmd'.name \in {cmd.name, "none"}
    <3>1. CASE Disable
      BY <3>1 DEF Disable, files, Command
    <3>. QED
      BY <2>3, <3>1 DEF StopNext, Bootout, UninstallPlist, LookAtLink, RemoveCommand, Reenable,
           RemovePlist, Finish, Goto, files, Command, File
  <2>4. ASSUME World, ~PowerLoss
        PROVE  UNCHANGED installer /\ file'["binary"] = file["binary"] /\ cmd'.name = cmd.name
    BY <2>4 DEF World, PackageGoes, OtherCommand, PackageInstalls, ConfigEdited, CommandPath, files,
         Command, File
  <2>. QED
    BY <2>1, <2>2, <2>3, <2>4 DEF Next, InstallerNext
<1>. QED
  BY <1>1, <1>2, <1>3, <1>4, <1>5, <1>6, <1>7, <1>8, <1>9

\* start puts down what a plist and the link name before it names it, uninstall
\* takes it away after; what launchd runs was loaded.
LEMMA CompleteNext == ASSUME IInv, [Next]_vars PROVE InstallationComplete'
<1>. USE IdleFacts DEF At, outside
<1>. /\ TypeOK /\ CommandInv /\ PreparedInv /\ InstallerInv /\ InstallationComplete
     /\ cached = {} /\ installer \in Installer
     /\ cmd \in Command /\ file \in [File -> Content] /\ job \in [enabled : BOOLEAN, loaded : BOOLEAN]
  BY DEF IInv, TypeOK, WholeInv
<1>. None \notin Valid /\ None # Plist
  BY InstallConstants DEF Config
<1>1. CASE Publish
  <2>. Dest \in File /\ Data # None /\ (Dest = "config" => Data \in Valid)
       /\ (Dest = "binary" => Data \in Version)
    BY <1>1, WritesWhole DEF Publish
  <2>1. CASE Dest = "config"
    BY <1>1, <2>1 DEF Publish, InstallationComplete, Served, File
  <2>2. CASE Dest = "binary"
    BY <1>1, <2>2 DEF Publish, InstallationComplete, Served, File
  <2>3. CASE Dest = "plist"
    <3>1. file["config"] \in Valid /\ file["binary"] \in Version
      BY <1>1, <2>3 DEF Publish, Writing, Dest, PreparedInv, CommandInv, Command, StartPc, StopPc, RestartPc
    <3>. QED
      BY <1>1, <2>3, <3>1 DEF Publish, InstallationComplete, Served, File
  <2>. QED
    BY <2>1, <2>2, <2>3 DEF File
<1>2. CASE UNCHANGED <<files, job>> /\ (installer.overlap => installer'.overlap)
           /\ (link' = "ours" => link = "ours")
  BY <1>2 DEF files, InstallationComplete, Served
<1>3. CASE InstallCommand
  BY <1>3 DEF InstallCommand, files, PreparedInv, InstallationComplete, Served
<1>4. CASE Enable
  BY <1>4 DEF Enable, files, PreparedInv, CommandInv, Command, InstallationComplete, Served,
       StartPc, StopPc, RestartPc
<1>5. CASE Bootstrap
  BY <1>5 DEF Bootstrap, files, PreparedInv, CommandInv, Command, InstallationComplete, Served,
       StartPc, StopPc, RestartPc
<1>6. CASE BootstrapFails \/ CleanupPlist \/ UninstallPlist
  BY <1>6 DEF BootstrapFails, CleanupPlist, UninstallPlist, RemovePlist, InstallationComplete,
       Served, File
<1>7. CASE CleanupBootout \/ Disable \/ Bootout
  BY <1>7 DEF CleanupBootout, Disable, Bootout, files, InstallationComplete, Served
<1>8. CASE RemoveBinary
  BY <1>8 DEF RemoveBinary, PreparedInv, InstallationComplete, Served, File
<1>9. CASE Reenable
  BY <1>9 DEF Reenable, files, PreparedInv, InstallationComplete, Served
<1>10. CASE PowerLoss
  <2>1. file' = file
    BY <1>10 DEF PowerLoss
  <2>. QED
    BY <1>10, <2>1 DEF PowerLoss, InstallationComplete, Served
<1>11. CASE InstallerPayload
  BY <1>11 DEF InstallerPayload, InstallerInv, InstallationComplete, Served, File
<1>14. CASE InstallerLinks
  BY <1>14 DEF InstallerLinks, InstallerInv, InstallationComplete, Served, Installer, files
<1>12. CASE \E c \in Config \cup {None} : ConfigEdited(c)
  BY <1>12 DEF ConfigEdited, InstallationComplete, Served, File
<1>13. \/ UNCHANGED <<files, job>> /\ (installer.overlap => installer'.overlap)
          /\ (link' = "ours" => link = "ours")
       \/ Publish \/ InstallCommand \/ Enable \/ Bootstrap
       \/ BootstrapFails \/ CleanupPlist \/ UninstallPlist
       \/ CleanupBootout \/ Disable \/ Bootout \/ RemoveBinary \/ Reenable \/ PowerLoss
       \/ InstallerPayload \/ InstallerLinks
       \/ \E c \in Config \cup {None} : ConfigEdited(c)
  BY DEF Installer, Stop, InstallerNext, InstallerChecks, InstallerRestarts, InstallerEnds,
         Next, vars, files, WriteTemporary, SyncTemporary, CommandFails, Commands, Start, Restart,
         Begin, StartNext, StartLoads, LookAtCommand, StartEnds, StartCleansUp, StopNext, LookAtLink,
         RemoveCommand, RestartNext, Kick, RestartEnds, RestartReverts, World, PackageGoes,
         OtherCommand, PackageInstalls, CommandPath
<1>. QED
  BY <1>1, <1>2, <1>3, <1>4, <1>5, <1>6, <1>7, <1>8, <1>9, <1>10, <1>11, <1>12, <1>13, <1>14

\* Every reachable state satisfies the inductive invariant.
THEOREM InstallInvariance == Spec => []IInv
<1>1. IInv /\ [Next]_vars => IInv'
  <2>. SUFFICES ASSUME IInv, [Next]_vars PROVE IInv'
    OBVIOUS
  <2>1. TypeOK'
    BY TypeNext DEF IInv
  <2>. QED
    BY <2>1, WholeNext, CommandNext, PreparedNext, PathNext, InstallerInvNext, CompleteNext DEF IInv
<1>. QED
  BY <1>1, InitInv, PTL DEF Spec

-----------------------------------------------------------------------------
(* The properties *)

\* Types hold for any number of commands, crashes and changes.
THEOREM InstallTypeCorrect == Spec => []TypeOK
<1>1. IInv => TypeOK
  BY DEF IInv
<1>. QED
  BY <1>1, InstallInvariance, PTL

\* Files are whole, whenever a command dies or the power fails (atomic_file.rs).
THEOREM FilesStayWhole == Spec => []FilesWhole
<1>1. IInv => FilesWhole
  BY DEF IInv, WholeInv
<1>. QED
  BY <1>1, InstallInvariance, PTL

\* No half-done start or uninstall leaves a name that leads nowhere, or a
\* service whose configuration does not load (service::start, uninstall); only
\* an uninstall between the payload and the link of an installer package, which
\* takes no lock, leaves the command link without its executable (postinstall).
THEOREM InstallationStaysComplete == Spec => []InstallationComplete
<1>1. IInv => InstallationComplete
  BY DEF IInv
<1>. QED
  BY <1>1, InstallInvariance, PTL

\* A foreign command that the look of start or uninstall finds stays; one that
\* comes between the look and the rename or the removal may be lost
\* (install_command_at, remove_command_at).
THEOREM ForeignCommandsStay == Spec => OthersKept
<1>1. IInv /\ [Next]_vars
      => [link' # link /\ link \in Foreign /\ changes' = changes => cmd.appeared]_vars
  <2>. SUFFICES ASSUME IInv, [Next]_vars, link' # link, link \in Foreign, changes' = changes
                PROVE  cmd.appeared
    OBVIOUS
  <2>. TypeOK /\ PathInv
    BY DEF IInv
  <2>1. changes + 1 # changes
    BY DEF TypeOK
  <2>2. InstallCommand \/ RemoveCommand
    BY <2>1 DEF Next, vars, files, WriteTemporary, SyncTemporary, Publish, CommandFails, Commands,
         Start, Restart, Begin, StartNext, StartLoads, LookAtCommand, Enable, Bootstrap,
         BootstrapFails, StartEnds, StartCleansUp, CleanupBootout, CleanupPlist, StopNext, Disable,
         Bootout, UninstallPlist, LookAtLink, RemoveBinary, Reenable, RestartNext, Kick,
         RestartEnds, RestartReverts, World, PowerLoss, PackageGoes, OtherCommand,
         PackageInstalls, ConfigEdited, Change, Stop, InstallerNext, InstallerChecks,
         InstallerPayload, InstallerLinks, InstallerRestarts, InstallerEnds, Foreign
  <2>. QED
    BY <2>2 DEF InstallCommand, RemoveCommand, PathInv, At
<1>. QED
  BY <1>1, InstallInvariance, PTL DEF Spec, OthersKept
=============================================================================
