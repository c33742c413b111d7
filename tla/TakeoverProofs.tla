--------------------------- MODULE TakeoverProofs ---------------------------
(***************************************************************************)
(* Proofs about Takeover, for every set of services, addresses and         *)
(* settings, and every bound on faults, changes and commands.              *)
(***************************************************************************)
EXTENDS Takeover, TLAPS

-----------------------------------------------------------------------------
(* Type correctness *)

\* The record of a process that runs no command.
LEMMA IdleCliFacts ==
    /\ IdleCli \in Command /\ IdleCli.pc = "idle" /\ IdleCli.todo = {}
    /\ IdleCli.done = {} /\ IdleCli.cmd = "none" /\ ~IdleCli.failed
  BY ConstantsOK DEF IdleCli, Command

\* The settings the model writes: none, one address, and those of the world.
LEMMA SettingFacts ==
    /\ <<>> \in DnsSetting /\ \A a \in Address : <<a>> \in DnsSetting
    /\ \A a \in Listener : <<a>> \in DnsSetting
    /\ UserSettings \subseteq DnsSetting /\ OldSettings \subseteq DnsSetting
  BY ConstantsOK DEF DnsSetting

\* So is the backup that is none.
LEMMA NoBackupType == NoBackup \in Backup
  BY SettingFacts DEF NoBackup, Backup

\* StartNext keeps every variable in its type.
LEMMA StartType == MachineOK /\ StartNext => MachineOK'
<1> SUFFICES ASSUME MachineOK, StartNext PROVE MachineOK'
  OBVIOUS
<1> USE DEF MachineOK
<1>1. CASE StartPlist
  BY <1>1 DEF StartPlist, Goto, NetOK, net, DiskOK, disk, JobOK,
     LockOK, CliOK, DaemonOK, UsedOK, used, Command, StartPc, StopPc,
     RestartPc
<1>2. CASE StartEnable
  BY <1>2 DEF StartEnable, Goto, NetOK, net, DiskOK, disk,
     JobOK, LockOK, CliOK, DaemonOK, UsedOK, used, Command, StartPc, StopPc,
     RestartPc
<1>3. CASE StartBootstrap
  BY <1>3 DEF StartBootstrap, Goto, NetOK, net, DiskOK, disk,
     JobOK, LockOK, CliOK, DaemonOK, UsedOK, used, Command, StartPc, StopPc,
     RestartPc
<1>4. CASE StartProbe
  BY <1>4 DEF StartProbe, Goto, NetOK, net, DiskOK, disk, JobOK,
     LockOK, CliOK, DaemonOK, UsedOK, used, Command, StartPc, StopPc,
     RestartPc
<1>5. CASE StartProbeFails
  BY <1>5 DEF StartProbeFails, Fault, Goto, NetOK, net, DiskOK,
     disk, JobOK, LockOK, CliOK, DaemonOK, UsedOK, used, Command, StartPc,
     StopPc, RestartPc
<1>6. ASSUME NEW left \in BOOLEAN, StartBootstrapFails(left) PROVE MachineOK'
  BY <1>6, IdleCliFacts DEF StartBootstrapFails, Fault, Finish, NetOK, net, DiskOK, disk, JobOK, LockOK, CliOK, DaemonOK, UsedOK,
     used, Command, StartPc, StopPc, RestartPc
<1>7. CASE TakeOverLock
  BY <1>7 DEF TakeOverLock, Goto, TakeLock, NetOK, net, DiskOK,
     disk, JobOK, LockOK, CliOK, DaemonOK, UsedOK, used, Command, StartPc,
     StopPc, RestartPc
<1>8. CASE TakeOverBackup
  BY <1>8, SettingFacts DEF TakeOverBackup, NetOK, net, DiskOK, disk, JobOK,
     LockOK, CliOK, DaemonOK, UsedOK, used, Command, StartPc, StopPc,
     RestartPc, Backup
<1>9. CASE TakeOverRefused
  BY <1>9, IdleCliFacts DEF TakeOverRefused, Fault, Goto, Finish,
     ReleaseLock, Unlocked, NetOK, net, DiskOK, disk, JobOK,
     LockOK, CliOK, DaemonOK, UsedOK, used, Command, StartPc, StopPc,
     RestartPc
<1>10. CASE TakeOverMark
  BY <1>10, IdleCliFacts DEF TakeOverMark, Finish, ReleaseLock, Unlocked,
     NetOK, net, DiskOK, disk, JobOK, LockOK, CliOK, DaemonOK,
     UsedOK, used, Command, StartPc, StopPc, RestartPc, Backup
<1>11. CASE RolledBack
  BY <1>11, IdleCliFacts, NoBackupType DEF RolledBack, ReleaseLock, Unlocked, NetOK, net, DiskOK, disk, JobOK, LockOK, CliOK, DaemonOK, UsedOK,
     used, Command, StartPc, StopPc, RestartPc, Backup
<1>12. CASE RollBackIncomplete
  BY <1>12, IdleCliFacts DEF RollBackIncomplete, Fault, Finish, ReleaseLock,
     Unlocked, NetOK, net, DiskOK, disk, JobOK, LockOK, CliOK,
     DaemonOK, UsedOK, used, Command, StartPc, StopPc, RestartPc
<1>13. CASE CleanupBootout
  BY <1>13 DEF CleanupBootout, Goto, KillDaemon, Unlocked, NetOK, net, DiskOK, disk, JobOK, LockOK, CliOK, DaemonOK, UsedOK,
     used, Command, StartPc, StopPc, RestartPc, Daemon
<1>14. CASE CleanupPlist
  BY <1>14, IdleCliFacts DEF CleanupPlist, Finish, NetOK, net,
     DiskOK, disk, JobOK, LockOK, CliOK, DaemonOK, UsedOK, used, Command,
     StartPc, StopPc, RestartPc
<1>15. ASSUME NEW s \in Service, TakeOverSet(s) PROVE MachineOK'
  <2>1. DiskOK' /\ JobOK' /\ LockOK' /\ DaemonOK' /\ UsedOK'
    BY <1>15 DEF TakeOverSet, Write, DiskOK, disk, JobOK, LockOK, DaemonOK, UsedOK, used
  <2>2. NetOK'
    BY <1>15, SettingFacts DEF TakeOverSet, Write, NetOK, JobOK
  <2>3. CliOK'
    BY <1>15 DEF TakeOverSet, CliOK, Command, StartPc, StopPc, RestartPc
  <2> QED BY <2>1, <2>2, <2>3
<1>16. ASSUME NEW s \in Service, TakeOverSetFails(s) PROVE MachineOK'
  <2>1. NetOK' /\ DiskOK' /\ JobOK' /\ LockOK' /\ DaemonOK' /\ UsedOK'
    BY <1>16 DEF TakeOverSetFails, WriteFails, Fault, NetOK, net, DiskOK, disk, JobOK, LockOK, DaemonOK, UsedOK, used
  <2>2. CliOK'
    BY <1>16 DEF TakeOverSetFails, CliOK, Command, StartPc, StopPc, RestartPc
  <2> QED BY <2>1, <2>2
<1>17. ASSUME NEW s \in Service, RollBack(s) PROVE MachineOK'
  BY <1>17 DEF RollBack, Write, NetOK, net, DiskOK, disk, JobOK,
     LockOK, CliOK, DaemonOK, UsedOK, used, Command, StartPc, StopPc,
     RestartPc, Backup
<1>18. ASSUME NEW s \in Service, RollBackFails(s) PROVE MachineOK'
  <2>1. NetOK' /\ DiskOK' /\ JobOK' /\ LockOK' /\ DaemonOK' /\ UsedOK'
    BY <1>18 DEF RollBackFails, WriteFails, Fault, NetOK, net, DiskOK, disk, JobOK, LockOK, DaemonOK, UsedOK, used
  <2>2. CliOK'
    BY <1>18 DEF RollBackFails, CliOK, Command, StartPc, StopPc, RestartPc
  <2> QED BY <2>1, <2>2
<1> QED BY <1>1, <1>2, <1>3, <1>4, <1>5, <1>6, <1>7, <1>8, <1>9, <1>10, <1>11, <1>12, <1>13, <1>14, <1>15, <1>16, <1>17, <1>18 DEF StartNext

\* StopNext keeps every variable in its type.
LEMMA StopType == MachineOK /\ StopNext => MachineOK'
<1> SUFFICES ASSUME MachineOK, StopNext PROVE MachineOK'
  OBVIOUS
<1> USE DEF MachineOK
<1>1. CASE ReleaseBegin
  BY <1>1 DEF ReleaseBegin, Goto, TakeLock, NetOK, net, DiskOK,
     disk, JobOK, LockOK, CliOK, DaemonOK, UsedOK, used, Command, StartPc,
     StopPc, RestartPc
<1>2. CASE ReleaseNothing
  BY <1>2 DEF ReleaseNothing, Goto, ReleaseLock, Unlocked, NetOK, net, DiskOK, disk, JobOK, LockOK, CliOK, DaemonOK, UsedOK,
     used, Command, StartPc, StopPc, RestartPc, Backup
<1>3. CASE ReleaseRefused
  BY <1>3, IdleCliFacts DEF ReleaseRefused, Finish, ReleaseLock, Unlocked,
     NetOK, net, DiskOK, disk, JobOK, LockOK, CliOK, DaemonOK,
     UsedOK, used, Command, StartPc, StopPc, RestartPc
<1>4. CASE ReleaseMarker
  BY <1>4 DEF ReleaseMarker, Goto, NetOK, net, DiskOK, disk,
     JobOK, LockOK, CliOK, DaemonOK, UsedOK, used, Command, StartPc, StopPc,
     RestartPc, Backup
<1>5. CASE RestoreList
  BY <1>5 DEF RestoreList, NetOK, net, DiskOK, disk, JobOK,
     LockOK, CliOK, DaemonOK, UsedOK, used, Command, StartPc, StopPc,
     RestartPc, Backup
<1>6. CASE RestoreRelist
  <2>1. NetOK' /\ DiskOK' /\ JobOK' /\ LockOK' /\ DaemonOK' /\ UsedOK'
    BY <1>6 DEF RestoreRelist, Fault, NetOK, net, DiskOK, disk, JobOK, LockOK, DaemonOK, UsedOK, used
  <2>2. CliOK'
    BY <1>6, present \in SUBSET Service DEF RestoreRelist, CliOK, Command, StartPc, StopPc, RestartPc, NetOK, DiskOK, Backup
  <2> QED BY <2>1, <2>2
<1>7. CASE Restored
  BY <1>7, NoBackupType DEF Restored, Goto, ReleaseLock, Unlocked, NetOK, net,
     DiskOK, disk, JobOK, LockOK, CliOK, DaemonOK, UsedOK, used, Command,
     StartPc, StopPc, RestartPc, Backup, NoBackup
<1>8. CASE BackupRetained
  BY <1>8, IdleCliFacts DEF BackupRetained, Finish, ReleaseLock, Unlocked,
     NetOK, net, DiskOK, disk, JobOK, LockOK, CliOK, DaemonOK,
     UsedOK, used, Command, StartPc, StopPc, RestartPc
<1>9. ASSUME NEW s \in Service, RestoreSet(s) PROVE MachineOK'
  BY <1>9 DEF RestoreSet, Write, NetOK, net, DiskOK, disk,
     JobOK, LockOK, CliOK, DaemonOK, UsedOK, used, Command, StartPc, StopPc,
     RestartPc, Backup
<1>10. ASSUME NEW s \in Service, RestoreSetFails(s) PROVE MachineOK'
  <2>1. NetOK' /\ DiskOK' /\ JobOK' /\ LockOK' /\ DaemonOK' /\ UsedOK'
    BY <1>10 DEF RestoreSetFails, WriteFails, Fault, NetOK, net, DiskOK, disk, JobOK, LockOK, DaemonOK, UsedOK, used
  <2>2. CliOK'
    BY <1>10 DEF RestoreSetFails, CliOK, Command, StartPc, StopPc, RestartPc
  <2> QED BY <2>1, <2>2
<1>11. ASSUME NEW s \in Service, RestoreVerify(s) PROVE MachineOK'
  <2>1. NetOK' /\ DiskOK' /\ JobOK' /\ LockOK' /\ DaemonOK' /\ UsedOK'
    BY <1>11 DEF RestoreVerify, NetOK, net, DiskOK, disk, JobOK, LockOK, DaemonOK, UsedOK, used
  <2>2. CliOK'
    BY <1>11 DEF RestoreVerify, CliOK, Command, StartPc, StopPc, RestartPc
  <2> QED BY <2>1, <2>2
<1>12. ASSUME NEW s \in Service, RestoreVerifyFails(s) PROVE MachineOK'
  <2>1. NetOK' /\ DiskOK' /\ JobOK' /\ LockOK' /\ DaemonOK' /\ UsedOK'
    BY <1>12 DEF RestoreVerifyFails, WriteFails, Fault, NetOK, net, DiskOK, disk, JobOK, LockOK, DaemonOK, UsedOK, used
  <2>2. CliOK'
    BY <1>12 DEF RestoreVerifyFails, CliOK, Command, StartPc, StopPc, RestartPc
  <2> QED BY <2>1, <2>2
<1>13. CASE StopDisable
  BY <1>13 DEF StopDisable, NetOK, net, DiskOK, disk, JobOK,
     LockOK, CliOK, DaemonOK, UsedOK, used, Command, StartPc, StopPc,
     RestartPc
<1>14. CASE StopBootout
  <2>1. NetOK' /\ DiskOK' /\ JobOK' /\ LockOK' /\ UsedOK'
    BY <1>14 DEF StopBootout, KillDaemon, Unlocked, NetOK, net, DiskOK, disk, UsedOK, used, LockOK, JobOK
  <2>2. CliOK'
    BY <1>14, IdleCliFacts DEF StopBootout, Goto, Finish, CliOK, Command, StartPc, StopPc, RestartPc
  <2>3. DaemonOK'
    BY <1>14 DEF StopBootout, KillDaemon, DaemonOK, Daemon
  <2> QED BY <2>1, <2>2, <2>3
<1>15. CASE UninstallFiles
  BY <1>15 DEF UninstallFiles, Goto, NetOK, net, DiskOK, disk,
     JobOK, LockOK, CliOK, DaemonOK, UsedOK, used, Command, StartPc, StopPc,
     RestartPc
<1>16. CASE UninstallReenable
  BY <1>16, IdleCliFacts DEF UninstallReenable, Finish, NetOK,
     net, DiskOK, disk, JobOK, LockOK, CliOK, DaemonOK, UsedOK, used,
     Command, StartPc, StopPc, RestartPc
<1> QED BY <1>1, <1>2, <1>3, <1>4, <1>5, <1>6, <1>7, <1>8, <1>9, <1>10, <1>11, <1>12, <1>13, <1>14, <1>15, <1>16 DEF StopNext

\* RestartNext keeps every variable in its type.
LEMMA RestartType == MachineOK /\ RestartNext => MachineOK'
<1> SUFFICES ASSUME MachineOK, RestartNext PROVE MachineOK'
  OBVIOUS
<1> USE DEF MachineOK
<1>1. CASE Kick
  BY <1>1 DEF Kick, Goto, KillDaemon, Unlocked, NetOK, net,
     DiskOK, disk, JobOK, LockOK, CliOK, DaemonOK, UsedOK, used, Command,
     StartPc, StopPc, RestartPc, Daemon
<1>2. CASE RestartSucceeds
  BY <1>2, IdleCliFacts DEF RestartSucceeds, Finish, NetOK, net,
     DiskOK, disk, JobOK, LockOK, CliOK, DaemonOK, UsedOK, used, Command,
     StartPc, StopPc, RestartPc
<1>3. CASE ReconfigReverts
  <2>1. NetOK' /\ DiskOK' /\ LockOK' /\ DaemonOK' /\ UsedOK'
    BY <1>3 DEF ReconfigReverts, NetOK, net, DiskOK, disk, LockOK, DaemonOK, UsedOK, used
  <2>2. JobOK'
    BY <1>3 DEF ReconfigReverts, JobOK, CliOK, Command
  <2>3. CliOK'
    BY <1>3 DEF ReconfigReverts, CliOK, Command, StartPc, StopPc, RestartPc
  <2> QED BY <2>1, <2>2, <2>3
<1>4. CASE RestartGivesUp
  BY <1>4, IdleCliFacts DEF RestartGivesUp, Finish, NetOK, net,
     DiskOK, disk, JobOK, LockOK, CliOK, DaemonOK, UsedOK, used, Command,
     StartPc, StopPc, RestartPc
<1> QED BY <1>1, <1>2, <1>3, <1>4 DEF RestartNext

\* UserCommands keeps every variable in its type.
LEMMA UserType == MachineOK /\ UserCommands => MachineOK'
<1> SUFFICES ASSUME MachineOK, UserCommands PROVE MachineOK'
  OBVIOUS
<1> USE DEF MachineOK
<1>1. ASSUME NEW a \in Listener, StartInstall(a) PROVE MachineOK'
  <2>1. NetOK' /\ DiskOK' /\ JobOK' /\ LockOK' /\ DaemonOK' /\ UsedOK'
    BY <1>1 DEF StartInstall, Begin, NetOK, net, DiskOK, disk, LockOK, DaemonOK, UsedOK, used, JobOK
  <2>2. CliOK'
    BY <1>1, IdleCliFacts DEF StartInstall, Begin, CliOK, Command, StartPc, StopPc, RestartPc
  <2> QED BY <2>1, <2>2
<1>2. ASSUME NEW a \in Listener, ReconfigBegin(a) PROVE MachineOK'
  <2>1. NetOK' /\ DiskOK' /\ JobOK' /\ LockOK' /\ DaemonOK' /\ UsedOK'
    BY <1>2 DEF ReconfigBegin, NetOK, net, DiskOK, disk, LockOK, DaemonOK, UsedOK, used, JobOK
  <2>2. CliOK'
    BY <1>2, IdleCliFacts DEF ReconfigBegin, CliOK, Command, StartPc, StopPc, RestartPc, JobOK, Active, DiskOK, Backup
  <2> QED BY <2>1, <2>2
<1>3. ASSUME NEW name \in {"stop", "uninstall"}, StopBegin(name) PROVE MachineOK'
  <2>1. NetOK' /\ DiskOK' /\ JobOK' /\ LockOK' /\ DaemonOK' /\ UsedOK'
    BY <1>3 DEF StopBegin, Begin, NetOK, net, DiskOK, disk, JobOK, LockOK, DaemonOK, UsedOK, used
  <2>2. CliOK'
    BY <1>3, IdleCliFacts DEF StopBegin, Begin, CliOK, Command, StartPc, StopPc, RestartPc
  <2> QED BY <2>1, <2>2
<1>4. CASE RestartBegin
  <2>1. NetOK' /\ DiskOK' /\ JobOK' /\ LockOK' /\ DaemonOK' /\ UsedOK'
    BY <1>4 DEF RestartBegin, Begin, NetOK, net, DiskOK, disk, JobOK, LockOK, DaemonOK, UsedOK, used
  <2>2. CliOK'
    BY <1>4, IdleCliFacts DEF RestartBegin, Begin, CliOK, Command, StartPc, StopPc, RestartPc
  <2> QED BY <2>1, <2>2
<1> QED BY <1>1, <1>2, <1>3, <1>4 DEF UserCommands

\* DaemonNext keeps every variable in its type.
LEMMA DaemonType == MachineOK /\ DaemonNext => MachineOK'
<1> SUFFICES ASSUME MachineOK, DaemonNext PROVE MachineOK'
  OBVIOUS
<1> USE DEF MachineOK
<1>1. CASE DaemonStarts
  <2>1. NetOK' /\ DiskOK' /\ JobOK' /\ LockOK' /\ CliOK' /\ UsedOK'
    BY <1>1 DEF DaemonStarts, NetOK, net, DiskOK, disk, JobOK, LockOK, CliOK, UsedOK, used
  <2>2. DaemonOK'
    BY <1>1 DEF DaemonStarts, DaemonOK, Daemon, JobOK
  <2> QED BY <2>1, <2>2
<1>2. CASE TickBegin
  BY <1>2 DEF TickBegin, NetOK, net, DiskOK, disk, JobOK,
     LockOK, CliOK, DaemonOK, UsedOK, used, Daemon
<1>3. CASE TickPrepare
  <2>1. NetOK' /\ JobOK' /\ LockOK' /\ CliOK' /\ UsedOK'
    BY <1>3 DEF TickPrepare, NetOK, net, JobOK, LockOK, CliOK, UsedOK, used
  <2>2. DiskOK'
    BY <1>3 DEF TickPrepare, DiskOK, Backup, NetOK, DaemonOK, Daemon, NewServices
  <2>3. DaemonOK'
    BY <1>3 DEF TickPrepare, DaemonOK, Daemon
  <2> QED BY <2>1, <2>2, <2>3
<1>4. CASE TickRefused
  <2>1. NetOK' /\ DiskOK' /\ JobOK' /\ LockOK' /\ CliOK' /\ UsedOK'
    BY <1>4 DEF TickRefused, TickEnds, Unlocked, NetOK, net, DiskOK, disk, JobOK, CliOK, UsedOK, used, LockOK
  <2>2. DaemonOK'
    BY <1>4 DEF TickRefused, TickEnds, DaemonOK, Daemon
  <2> QED BY <2>1, <2>2
<1>5. CASE TickSnapshot
  <2>1. NetOK' /\ DiskOK' /\ JobOK' /\ LockOK' /\ CliOK' /\ UsedOK'
    BY <1>5 DEF TickSnapshot, NetOK, net, DiskOK, disk, JobOK, LockOK, CliOK, UsedOK, used
  <2>2. DaemonOK'
    BY <1>5 DEF TickSnapshot, DaemonOK, Daemon, Drifted, NetOK, DiskOK, Backup
  <2> QED BY <2>1, <2>2
<1>6. CASE TickDone
  <2>1. NetOK' /\ DiskOK' /\ JobOK' /\ LockOK' /\ CliOK' /\ UsedOK'
    BY <1>6 DEF TickDone, TickEnds, Unlocked, NetOK, net, DiskOK, disk, JobOK, CliOK, UsedOK, used, LockOK
  <2>2. DaemonOK'
    BY <1>6 DEF TickDone, TickEnds, DaemonOK, Daemon
  <2> QED BY <2>1, <2>2
<1>7. ASSUME NEW s \in Service, Reassert(s) PROVE MachineOK'
  BY <1>7, SettingFacts DEF Reassert, Write, NetOK, net, DiskOK,
     disk, JobOK, LockOK, CliOK, DaemonOK, UsedOK, used, Daemon
<1>8. ASSUME NEW s \in Service, ReassertFails(s) PROVE MachineOK'
  BY <1>8 DEF ReassertFails, WriteFails, Fault, NetOK, net,
     DiskOK, disk, JobOK, LockOK, CliOK, DaemonOK, UsedOK, used, Daemon
<1> QED BY <1>1, <1>2, <1>3, <1>4, <1>5, <1>6, <1>7, <1>8 DEF DaemonNext

\* World keeps every variable in its type.
LEMMA WorldType == MachineOK /\ World => MachineOK'
<1> SUFFICES ASSUME MachineOK, World PROVE MachineOK'
  OBVIOUS
<1> USE DEF MachineOK
<1>1. CASE CliAborts
  BY <1>1, IdleCliFacts DEF CliAborts, Fault, Finish, ReleaseLock, Unlocked,
     NetOK, net, DiskOK, disk, JobOK, LockOK, CliOK, DaemonOK,
     UsedOK, used, Command, StartPc, StopPc, RestartPc
<1>2. CASE DaemonDies
  <2>1. NetOK' /\ DiskOK' /\ JobOK' /\ LockOK' /\ CliOK' /\ UsedOK'
    BY <1>2 DEF DaemonDies, Fault, KillDaemon, Unlocked, NetOK, net, DiskOK, disk, JobOK, CliOK, LockOK, UsedOK, used
  <2>2. DaemonOK'
    BY <1>2 DEF DaemonDies, KillDaemon, DaemonOK, Daemon
  <2> QED BY <2>1, <2>2
<1>3. CASE TickAborts
  <2>1. NetOK' /\ DiskOK' /\ JobOK' /\ LockOK' /\ CliOK' /\ UsedOK'
    BY <1>3 DEF TickAborts, Fault, TickEnds, Unlocked, NetOK, net, DiskOK, disk, JobOK, CliOK, LockOK, UsedOK, used
  <2>2. DaemonOK'
    BY <1>3 DEF TickAborts, TickEnds, DaemonOK, Daemon
  <2> QED BY <2>1, <2>2
<1>4. CASE Reboot
  <2>1. NetOK' /\ DiskOK' /\ JobOK' /\ LockOK' /\ UsedOK'
    BY <1>4 DEF Reboot, Fault, NetOK, net, DiskOK, disk, LockOK, UsedOK, used, JobOK
  <2>2. CliOK'
    BY <1>4, IdleCliFacts DEF Reboot, Finish, CliOK, Command, StartPc, StopPc, RestartPc
  <2>3. DaemonOK'
    BY <1>4 DEF Reboot, DaemonOK, Daemon
  <2> QED BY <2>1, <2>2, <2>3
<1>5. ASSUME NEW s \in Service, ServiceVanishes(s) PROVE MachineOK'
  BY <1>5, SettingFacts DEF ServiceVanishes, Change, NetOK, net, DiskOK, disk,
     JobOK, LockOK, CliOK, DaemonOK, UsedOK, used
<1>6. ASSUME NEW s \in Service, ServiceToggled(s) PROVE MachineOK'
  BY <1>6 DEF ServiceToggled, Change, NetOK, net, DiskOK, disk,
     JobOK, LockOK, CliOK, DaemonOK, UsedOK, used
<1>7. ASSUME NEW s \in Service, NEW u \in UserSettings, UserSets(s, u) PROVE MachineOK'
  BY <1>7, SettingFacts DEF UserSets, Change, NetOK, net, DiskOK,
     disk, JobOK, LockOK, CliOK, DaemonOK, UsedOK, used
<1>8. ASSUME NEW s \in Service, NEW u \in UserSettings, ServiceAppears(s, u) PROVE MachineOK'
  BY <1>8, SettingFacts DEF ServiceAppears, Change, NetOK, net,
     DiskOK, disk, JobOK, LockOK, CliOK, DaemonOK, UsedOK, used, FreeName
<1>9. ASSUME NEW s \in Service, NEW t \in Service, ServiceRenamed(s, t) PROVE MachineOK'
  BY <1>9, SettingFacts DEF ServiceRenamed, Change, NetOK, net, DiskOK, disk,
     JobOK, LockOK, CliOK, DaemonOK, UsedOK, used, FreeName, Renamed
<1> QED BY <1>1, <1>2, <1>3, <1>4, <1>5, <1>6, <1>7, <1>8, <1>9 DEF World

\* A child that hangs changes nothing but the processes that wait for it.
LEMMA HangChanges ==
    ASSUME ChildHangs
    PROVE  /\ UNCHANGED <<net, disk, job, config, dnsLock, cli, daemon>>
           /\ faults' = faults + 1 /\ UNCHANGED <<changes, commands>>
BY DEF ChildHangs, Fault

\* So it keeps every other variable in its type.
LEMMA HangType == MachineOK /\ ChildHangs => MachineOK'
<1> SUFFICES ASSUME MachineOK, ChildHangs PROVE MachineOK'
  OBVIOUS
<1> QED BY HangChanges DEF MachineOK, NetOK, DiskOK, JobOK, LockOK, CliOK, DaemonOK, UsedOK, net, disk

\* The initial states are well typed.
LEMMA TypeCorrectInit == Init => TypeOK
<1> SUFFICES ASSUME Init PROVE TypeOK
  OBVIOUS
<1>1. PICK kind \in Starts : InitKind(kind)
  BY DEF Init
<1>2. kind \in {"fresh", "legacy", "corrupted"}
  BY ConstantsOK
<1>3. NetOK
  <2>1. ASSUME NEW settings \in SUBSET DnsSetting, NEW d \in InitialSettings(settings)
        PROVE  d \in [Service -> DnsSetting]
    BY SettingFacts DEF InitialSettings
  <2>2. {<<config>>} \subseteq DnsSetting /\ UserSettings \subseteq DnsSetting
    BY SettingFacts DEF Init
  <2>3. dns \in [Service -> DnsSetting]
    BY <1>1, <2>1, <2>2 DEF InitKind
  <2>4. ours \subseteq present
    BY <1>1, <1>2 DEF Init, InitKind
  <2> QED BY <2>3, <2>4, ConstantsOK DEF Init, NetOK
<1>4. DiskOK
  <2>1. NoBackup \in Backup
    BY NoBackupType
  <2>2. CASE kind = "legacy"
    <3>1. PICK original \in InitialSettings({u \in OldSettings : ~Uses(u, {config})}) :
              backup = [exists |-> TRUE, names |-> InitialNames, original |-> original,
                        history |-> {}, legacy |-> TRUE]
      BY <1>1, <2>2 DEF InitKind
    <3>2. original \in [Service -> DnsSetting]
      BY <3>1, SettingFacts DEF InitialSettings
    <3> QED BY <1>1, <2>2, <3>1, <3>2, ConstantsOK DEF InitKind, DiskOK, Backup
  <2> QED BY <1>1, <1>2, <2>1, <2>2 DEF InitKind, DiskOK
<1>5. JobOK
  BY <1>1 DEF Init, InitKind, JobOK
<1>6. LockOK /\ CliOK /\ DaemonOK
  BY IdleCliFacts DEF Init, LockOK, CliOK, DaemonOK, Daemon
<1>7. UsedOK
  BY <1>1 DEF Init, InitKind, UsedOK
<1> QED BY <1>3, <1>4, <1>5, <1>6, <1>7 DEF TypeOK, MachineOK, HungOK, Init

\* Every step of a process keeps the state of the machine typed.
LEMMA MachineType == MachineOK /\ [Next]_vars => MachineOK'
<1> SUFFICES ASSUME MachineOK, [Next]_vars PROVE MachineOK'
  OBVIOUS
<1>1. CASE UNCHANGED vars
  BY <1>1 DEF vars, net, disk, used, MachineOK, NetOK, DiskOK, JobOK, LockOK, CliOK, DaemonOK, UsedOK
<1> QED BY <1>1, StartType, StopType, RestartType, UserType, DaemonType, WorldType, HangType
     DEF Next, CliNext

\* Every variable keeps its type, in every behaviour.
THEOREM TypeCorrect == Spec => []TypeOK
<1>1. ASSUME HungOK, [Next]_vars PROVE HungOK'
  BY <1>1 DEF Next, StillHung, ChildHangs, HungOK, vars
<1>2. TypeOK /\ [Next]_vars => TypeOK'
  BY <1>1, MachineType DEF TypeOK
<1> QED BY TypeCorrectInit, <1>2, PTL DEF Spec

-----------------------------------------------------------------------------
(* The inductive invariant *)

\* The DNS lock is held exactly by the process inside a DNS transaction.
LockInv ==
    /\ dnsLock = "cli" <=> cli.pc \in CliLocked
    /\ dnsLock = "daemon" <=> daemon.pc \in TickLocked

\* Where the backup is known to exist, and where it is known not to.
UnsavedPc == {"plist", "enable", "bootstrap", "probe", "tk_lock", "tk_backup",
              "cleanup", "cleanup_plist", "disable", "bootout", "rm_plist", "reenable"}
SavedPc == {"tk_set", "tk_undo", "rel_list", "rel_set", "rel_verify"}

BackupInv ==
    /\ cli.pc \in UnsavedPc => ~backup.exists
    /\ cli.pc \in SavedPc => backup.exists
    /\ daemon.pc \in TickLocked => backup.exists
    /\ ours # {} => backup.exists

\* The job that answers for a takeover is on disk, enabled and loaded.
JobInv ==
    /\ cli.pc \in {"enable", "bootstrap"} => job.plist
    /\ cli.pc = "bootstrap" => job.enabled
    /\ cli.pc \in {"probe", "tk_lock", "tk_backup"} \/ backup.exists
          => job.plist /\ job.enabled /\ job.loaded

\* An address is in the history before any service is pointed at it.
HistoryInv ==
    /\ cli.pc \in {"tk_set", "tk_undo"} => ~backup.legacy
    /\ cli.pc = "tk_set" => config \in backup.history
    /\ daemon.pc \in {"snapshot", "set"} => backup.legacy \/ daemon.addr \in backup.history
    /\ \A s \in ours : /\ Uses(dns[s], Listener)
                       /\ ~backup.legacy => Uses(dns[s], backup.history)

\* Every service a takeover steers is still ahead of the loop that undoes or
\* verifies, unless the loop is bound to fail on a name that is gone.
Pending(names) == ours \subseteq names \/ names \ present # {}

LoopInv ==
    /\ cli.pc = "tk_set" => Pending(cli.done)
    /\ cli.pc = "tk_undo" /\ ~cli.failed => Pending(cli.todo)
    /\ cli.pc = "rel_verify" /\ ~cli.failed => Pending(cli.todo)

IInv == MachineOK /\ LockInv /\ BackupInv /\ JobInv /\ HistoryInv /\ LoopInv

-----------------------------------------------------------------------------
(* Every step keeps the inductive invariant *)

\* A list of one address uses just that one, the empty list none.
LEMMA OneAddress == \A a, S : (Uses(<<a>>, S) <=> a \in S) /\ ~Uses(<<>>, S)
BY DEF Uses

\* A list that uses one of the addresses uses one of any larger set.
LEMMA UsesMore ==
    ASSUME NEW setting, NEW S, NEW B, S \subseteq B, Uses(setting, S)
    PROVE  Uses(setting, B)
BY DEF Uses

\* The verification of a restore recognises every service a takeover steers,
\* or finds a version 1 backup's own setting there.
LEMMA OursDepend == IInv => \A s \in ours : Depends(s) \/ HasOriginal(s)
<1> SUFFICES ASSUME IInv, NEW s \in ours PROVE Depends(s) \/ HasOriginal(s)
  OBVIOUS
<1>1. Uses(dns[s], Listener) /\ (~backup.legacy => Uses(dns[s], backup.history))
  BY DEF IInv, HistoryInv
<1>2. Uses(dns[s], Loopback)
  BY <1>1, UsesMore, ConstantsOK
<1> QED BY <1>1, <1>2 DEF Depends, MayDepend, HasOriginal

\* StartNext keeps the inductive invariant.
LEMMA StartInductive == IInv /\ StartNext => IInv'
<1> SUFFICES ASSUME IInv, StartNext PROVE IInv'
  OBVIOUS
<1>0. MachineOK /\ MachineOK'
  BY StartType DEF IInv
<1> USE DEF IInv, Fault, Goto, Finish, TakeLock, ReleaseLock, KillDaemon, Unlocked, Write, WriteFails, At,
         CliLocked, TickLocked, UnsavedPc, SavedPc, net, disk, used, MachineOK, NetOK,
         DiskOK, JobOK, LockOK, CliOK, DaemonOK, Backup, Command, Daemon
<1>1. CASE StartPlist
  BY <1>0, <1>1 DEF StartPlist, LockInv, BackupInv, JobInv, HistoryInv, LoopInv, Pending
<1>2. CASE StartEnable
  BY <1>0, <1>2 DEF StartEnable, LockInv, BackupInv, JobInv, HistoryInv, LoopInv, Pending
<1>3. CASE StartBootstrap
  BY <1>0, <1>3 DEF StartBootstrap, LockInv, BackupInv, JobInv, HistoryInv, LoopInv, Pending
<1>4. CASE StartProbe
  BY <1>0, <1>4 DEF StartProbe, LockInv, BackupInv, JobInv, HistoryInv, LoopInv, Pending
<1>5. CASE StartProbeFails
  BY <1>0, <1>5 DEF StartProbeFails, LockInv, BackupInv, JobInv, HistoryInv, LoopInv, Pending
<1>6. ASSUME NEW left \in BOOLEAN, StartBootstrapFails(left) PROVE IInv'
  BY <1>0, <1>6, IdleCliFacts DEF StartBootstrapFails, LockInv, BackupInv, JobInv, HistoryInv, LoopInv, Pending
<1>7. CASE TakeOverLock
  BY <1>0, <1>7 DEF TakeOverLock, LockInv, BackupInv, JobInv, HistoryInv, LoopInv, Pending
<1>8. CASE TakeOverBackup
  <2>1. LockInv' /\ BackupInv' /\ JobInv'
    BY <1>0, <1>8 DEF TakeOverBackup, LockInv, BackupInv, JobInv
  <2>2. HistoryInv'
    <3>1. ours = {} /\ UNCHANGED <<ours, dns, config, daemon>>
      BY <1>8 DEF TakeOverBackup, TakeOverUnsafe, BackupInv, net
    <3>2. backup'.history = {config} /\ ~backup'.legacy
      BY <1>8 DEF TakeOverBackup
    <3>3. daemon.pc \notin TickLocked
      BY <1>0, <1>8 DEF TakeOverBackup, At, LockInv, CliLocked
    <3> QED BY <3>1, <3>2, <3>3 DEF HistoryInv, TickLocked
  <2>3. LoopInv'
    BY <1>0, <1>8 DEF TakeOverBackup, LoopInv, Pending, LockInv, BackupInv
  <2> QED BY <1>0, <2>1, <2>2, <2>3
<1>9. CASE TakeOverRefused
  BY <1>0, <1>9, IdleCliFacts DEF TakeOverRefused, LockInv, BackupInv, JobInv, HistoryInv, LoopInv, Pending
<1>10. CASE TakeOverMark
  BY <1>0, <1>10, IdleCliFacts DEF TakeOverMark, LockInv, BackupInv, JobInv, HistoryInv, LoopInv, Pending
<1>11. CASE RolledBack
  <2>1. LockInv' /\ BackupInv' /\ JobInv'
    <3>1. ours = {} /\ UNCHANGED <<ours, dns, job, config, daemon>>
      BY <1>11 DEF RolledBack, At, LoopInv, Pending, net
    <3>2. cli.pc = "tk_undo" /\ cli'.pc = "cleanup"
      BY <1>0, <1>11, IdleCliFacts DEF RolledBack, At, Goto, MachineOK, CliOK, Command
    <3>3. ~backup'.exists /\ ~backup'.legacy
      BY <1>11 DEF RolledBack, NoBackup
    <3>4. dnsLock = "cli" /\ dnsLock' = "free"
      BY <1>11, <3>2 DEF RolledBack, ReleaseLock, Unlocked, LockInv, CliLocked
    <3> QED BY <3>1, <3>2, <3>3, <3>4 DEF LockInv, CliLocked, TickLocked, BackupInv, UnsavedPc, SavedPc, JobInv
  <2>2. HistoryInv'
    <3>1. ours = {} /\ UNCHANGED <<ours, dns, job, config, daemon>>
      BY <1>11 DEF RolledBack, At, LoopInv, Pending, net
    <3>2. cli.pc = "tk_undo" /\ cli'.pc = "cleanup"
      BY <1>0, <1>11, IdleCliFacts DEF RolledBack, At, Goto, MachineOK, CliOK, Command
    <3>3. ~backup'.exists /\ ~backup'.legacy
      BY <1>11 DEF RolledBack, NoBackup
    <3>4. dnsLock = "cli" /\ dnsLock' = "free"
      BY <1>11, <3>2 DEF RolledBack, ReleaseLock, Unlocked, LockInv, CliLocked
    <3> QED BY <3>1, <3>2, <3>3, <3>4 DEF LockInv, TickLocked, HistoryInv
  <2>3. LoopInv'
    BY <1>0, <1>11, IdleCliFacts DEF RolledBack, LoopInv, Pending, LockInv, BackupInv
  <2> QED BY <1>0, <2>1, <2>2, <2>3
<1>12. CASE RollBackIncomplete
  BY <1>0, <1>12, IdleCliFacts DEF RollBackIncomplete, LockInv, BackupInv, JobInv, HistoryInv, LoopInv, Pending
<1>13. CASE CleanupBootout
  BY <1>0, <1>13 DEF CleanupBootout, LockInv, BackupInv, JobInv, HistoryInv, LoopInv, Pending
<1>14. CASE CleanupPlist
  BY <1>0, <1>14, IdleCliFacts DEF CleanupPlist, LockInv, BackupInv, JobInv, HistoryInv, LoopInv, Pending
<1>15. ASSUME NEW s \in Service, TakeOverSet(s) PROVE IInv'
  <2>1. LockInv' /\ BackupInv' /\ JobInv' /\ LoopInv'
    BY <1>0, <1>15 DEF TakeOverSet, LockInv, BackupInv, JobInv, LoopInv, Pending
  <2>2. HistoryInv'
    <3>1. /\ cli.pc = "tk_set" /\ cli'.pc = "tk_set" /\ UNCHANGED <<backup, config, daemon>>
          /\ ours' = ours \cup {s} /\ dns' = [dns EXCEPT ![s] = <<config>>]
      BY <1>0, <1>15 DEF TakeOverSet
    <3>2. config \in Listener /\ dns \in [Service -> DnsSetting] /\ ours \subseteq Service
      OBVIOUS
    <3>3. \A r \in ours' : dns'[r] = IF r = s THEN <<config>> ELSE dns[r]
      BY <3>1, <3>2
    <3>4. Uses(<<config>>, Listener) /\ (config \in backup.history => Uses(<<config>>, backup.history))
      BY <3>2, OneAddress
    <3> QED BY <3>1, <3>3, <3>4 DEF HistoryInv
  <2> QED BY <1>0, <2>1, <2>2
<1>16. ASSUME NEW s \in Service, TakeOverSetFails(s) PROVE IInv'
  BY <1>0, <1>16 DEF TakeOverSetFails, LockInv, BackupInv, JobInv, HistoryInv, LoopInv, Pending
<1>17. ASSUME NEW s \in Service, RollBack(s) PROVE IInv'
  BY <1>0, <1>17 DEF RollBack, LockInv, BackupInv, JobInv, HistoryInv, LoopInv, Pending
<1>18. ASSUME NEW s \in Service, RollBackFails(s) PROVE IInv'
  BY <1>0, <1>18 DEF RollBackFails, LockInv, BackupInv, JobInv, HistoryInv, LoopInv, Pending
<1> QED BY <1>0, <1>1, <1>2, <1>3, <1>4, <1>5, <1>6, <1>7, <1>8, <1>9, <1>10, <1>11, <1>12, <1>13, <1>14, <1>15, <1>16, <1>17, <1>18 DEF StartNext

\* StopNext keeps the inductive invariant.
LEMMA StopInductive == IInv /\ StopNext => IInv'
<1> SUFFICES ASSUME IInv, StopNext PROVE IInv'
  OBVIOUS
<1>0. MachineOK /\ MachineOK'
  BY StopType DEF IInv
<1> USE DEF IInv, Fault, Goto, Finish, TakeLock, ReleaseLock, KillDaemon, Unlocked, Write, WriteFails, At,
         CliLocked, TickLocked, UnsavedPc, SavedPc, net, disk, used, MachineOK, NetOK,
         DiskOK, JobOK, LockOK, CliOK, DaemonOK, Backup, Command, Daemon
<1>1. CASE ReleaseBegin
  BY <1>0, <1>1 DEF ReleaseBegin, LockInv, BackupInv, JobInv, HistoryInv, LoopInv, Pending
<1>2. CASE ReleaseNothing
  BY <1>0, <1>2 DEF ReleaseNothing, LockInv, BackupInv, JobInv, HistoryInv, LoopInv, Pending
<1>3. CASE ReleaseRefused
  BY <1>0, <1>3, IdleCliFacts DEF ReleaseRefused, LockInv, BackupInv, JobInv, HistoryInv, LoopInv, Pending
<1>4. CASE ReleaseMarker
  BY <1>0, <1>4 DEF ReleaseMarker, LockInv, BackupInv, JobInv, HistoryInv, LoopInv, Pending
<1>5. CASE RestoreList
  BY <1>0, <1>5 DEF RestoreList, LockInv, BackupInv, JobInv, HistoryInv, LoopInv, Pending
<1>6. CASE RestoreRelist
  <2>1. LockInv' /\ BackupInv' /\ JobInv'
    <3>1. /\ cli.pc = "rel_set" /\ cli'.pc = "rel_verify"
          /\ cli'.todo = present \/ cli'.failed
      <4>1. cli' = [cli EXCEPT !.pc = "rel_verify", !.todo = present]
            \/ cli' = [cli EXCEPT !.pc = "rel_verify", !.failed = TRUE]
        BY <1>6 DEF RestoreRelist
      <4> QED BY <1>0, <4>1, <1>6 DEF RestoreRelist, At, MachineOK, CliOK, Command
    <3>2. UNCHANGED <<present, dns, ours, backup, job, config, dnsLock, daemon>>
      BY <1>6 DEF RestoreRelist, net, disk
    <3> QED BY <3>1, <3>2 DEF LockInv, CliLocked, BackupInv, UnsavedPc, SavedPc, JobInv
  <2>2. HistoryInv'
    <3>1. /\ cli.pc = "rel_set" /\ cli'.pc = "rel_verify"
          /\ cli'.todo = present \/ cli'.failed
      <4>1. cli' = [cli EXCEPT !.pc = "rel_verify", !.todo = present]
            \/ cli' = [cli EXCEPT !.pc = "rel_verify", !.failed = TRUE]
        BY <1>6 DEF RestoreRelist
      <4> QED BY <1>0, <4>1, <1>6 DEF RestoreRelist, At, MachineOK, CliOK, Command
    <3>2. UNCHANGED <<present, dns, ours, backup, job, config, dnsLock, daemon>>
      BY <1>6 DEF RestoreRelist, net, disk
    <3> QED BY <3>1, <3>2 DEF HistoryInv
  <2>3. LoopInv'
    <3>1. /\ cli.pc = "rel_set" /\ cli'.pc = "rel_verify"
          /\ cli'.todo = present \/ cli'.failed
      <4>1. cli' = [cli EXCEPT !.pc = "rel_verify", !.todo = present]
            \/ cli' = [cli EXCEPT !.pc = "rel_verify", !.failed = TRUE]
        BY <1>6 DEF RestoreRelist
      <4> QED BY <1>0, <4>1, <1>6 DEF RestoreRelist, At, MachineOK, CliOK, Command
    <3>2. UNCHANGED <<present, dns, ours, backup, job, config, dnsLock, daemon>>
      BY <1>6 DEF RestoreRelist, net, disk
    <3> QED BY <1>0, <3>1, <3>2 DEF LoopInv, Pending, MachineOK, NetOK
  <2> QED BY <1>0, <2>1, <2>2, <2>3
<1>7. CASE Restored
  <2>1. LockInv' /\ BackupInv' /\ JobInv'
    <3>1. ours = {} /\ UNCHANGED <<ours, dns, job, config, daemon>>
      BY <1>7 DEF Restored, At, LoopInv, Pending, net
    <3>2. cli.pc = "rel_verify" /\ cli'.pc = "disable"
      BY <1>0, <1>7, IdleCliFacts DEF Restored, At, Goto, MachineOK, CliOK, Command
    <3>3. ~backup'.exists /\ ~backup'.legacy
      BY <1>7 DEF Restored, NoBackup
    <3>4. dnsLock = "cli" /\ dnsLock' = "free"
      BY <1>7, <3>2 DEF Restored, ReleaseLock, Unlocked, LockInv, CliLocked
    <3> QED BY <3>1, <3>2, <3>3, <3>4 DEF LockInv, CliLocked, TickLocked, BackupInv, UnsavedPc, SavedPc, JobInv
  <2>2. HistoryInv'
    <3>1. ours = {} /\ UNCHANGED <<ours, dns, job, config, daemon>>
      BY <1>7 DEF Restored, At, LoopInv, Pending, net
    <3>2. cli.pc = "rel_verify" /\ cli'.pc = "disable"
      BY <1>0, <1>7, IdleCliFacts DEF Restored, At, Goto, MachineOK, CliOK, Command
    <3>3. ~backup'.exists /\ ~backup'.legacy
      BY <1>7 DEF Restored, NoBackup
    <3>4. dnsLock = "cli" /\ dnsLock' = "free"
      BY <1>7, <3>2 DEF Restored, ReleaseLock, Unlocked, LockInv, CliLocked
    <3> QED BY <3>1, <3>2, <3>3, <3>4 DEF LockInv, TickLocked, HistoryInv
  <2>3. LoopInv'
    BY <1>0, <1>7 DEF Restored, LoopInv, Pending, LockInv, BackupInv
  <2> QED BY <1>0, <2>1, <2>2, <2>3
<1>8. CASE BackupRetained
  BY <1>0, <1>8, IdleCliFacts DEF BackupRetained, LockInv, BackupInv, JobInv, HistoryInv, LoopInv, Pending
<1>9. ASSUME NEW s \in Service, RestoreSet(s) PROVE IInv'
  BY <1>0, <1>9 DEF RestoreSet, LockInv, BackupInv, JobInv, HistoryInv, LoopInv, Pending
<1>10. ASSUME NEW s \in Service, RestoreSetFails(s) PROVE IInv'
  BY <1>0, <1>10 DEF RestoreSetFails, LockInv, BackupInv, JobInv, HistoryInv, LoopInv, Pending
<1>11. ASSUME NEW s \in Service, RestoreVerify(s) PROVE IInv'
  <2>1. LockInv' /\ BackupInv' /\ JobInv'
    BY <1>0, <1>11 DEF RestoreVerify, LockInv, BackupInv, JobInv
  <2>2. HistoryInv'
    BY <1>0, <1>11 DEF RestoreVerify, HistoryInv, LockInv, BackupInv
  <2>3. LoopInv'
    <3>1. s \in ours => Depends(s) \/ HasOriginal(s)
      BY OursDepend
    <3>2. /\ cli'.pc = cli.pc /\ cli'.todo = cli.todo \ {s} /\ cli.pc = "rel_verify"
          /\ cli'.failed = (cli.failed \/ Depends(s))
      BY <1>0, <1>11 DEF RestoreVerify, At, MachineOK, CliOK, Command
    <3>3. s \in present /\ UNCHANGED present /\ ours' \subseteq ours
          /\ (HasOriginal(s) => s \notin ours')
      BY <1>11 DEF RestoreVerify
    <3>4. CASE s \in ours'
      BY <3>1, <3>2, <3>3, <3>4 DEF LoopInv
    <3>5. CASE s \notin ours'
      BY <3>2, <3>3, <3>5 DEF LoopInv, Pending
    <3> QED BY <3>4, <3>5
  <2> QED BY <1>0, <2>1, <2>2, <2>3
<1>12. ASSUME NEW s \in Service, RestoreVerifyFails(s) PROVE IInv'
  BY <1>0, <1>12 DEF RestoreVerifyFails, LockInv, BackupInv, JobInv, HistoryInv, LoopInv, Pending
<1>13. CASE StopDisable
  BY <1>0, <1>13 DEF StopDisable, LockInv, BackupInv, JobInv, HistoryInv, LoopInv, Pending
<1>14. CASE StopBootout
  BY <1>0, <1>14, IdleCliFacts DEF StopBootout, LockInv, BackupInv, JobInv, HistoryInv, LoopInv, Pending
<1>15. CASE UninstallFiles
  BY <1>0, <1>15 DEF UninstallFiles, LockInv, BackupInv, JobInv, HistoryInv, LoopInv, Pending
<1>16. CASE UninstallReenable
  BY <1>0, <1>16, IdleCliFacts DEF UninstallReenable, LockInv, BackupInv, JobInv, HistoryInv, LoopInv, Pending
<1> QED BY <1>0, <1>1, <1>2, <1>3, <1>4, <1>5, <1>6, <1>7, <1>8, <1>9, <1>10, <1>11, <1>12, <1>13, <1>14, <1>15, <1>16 DEF StopNext

\* RestartNext keeps the inductive invariant.
LEMMA RestartInductive == IInv /\ RestartNext => IInv'
<1> SUFFICES ASSUME IInv, RestartNext PROVE IInv'
  OBVIOUS
<1>0. MachineOK /\ MachineOK'
  BY RestartType DEF IInv
<1> USE DEF IInv, Goto, Finish, KillDaemon, Unlocked, At, RestartPc,
         CliLocked, TickLocked, UnsavedPc, SavedPc, net, disk, used, MachineOK, NetOK,
         DiskOK, JobOK, LockOK, CliOK, DaemonOK, Backup, Command, Daemon
<1>1. CASE Kick
  BY <1>0, <1>1 DEF Kick, LockInv, BackupInv, JobInv, HistoryInv, LoopInv, Pending
<1>2. CASE RestartSucceeds
  BY <1>0, <1>2, IdleCliFacts DEF RestartSucceeds, LockInv, BackupInv, JobInv, HistoryInv, LoopInv, Pending
<1>3. CASE ReconfigReverts
  <2>1. LockInv' /\ BackupInv' /\ JobInv'
    BY <1>0, <1>3, IdleCliFacts DEF ReconfigReverts, Finish, RestartPc, LockInv, CliLocked, TickLocked, BackupInv, UnsavedPc, SavedPc, JobInv, MachineOK, CliOK, Command, DaemonOK, Daemon, LockOK, DiskOK, Backup, NetOK, JobOK, net, disk, used
  <2>2. HistoryInv'
    BY <1>0, <1>3 DEF ReconfigReverts, HistoryInv, LockInv, BackupInv
  <2>3. LoopInv'
    BY <1>0, <1>3 DEF ReconfigReverts, LoopInv, Pending, LockInv, BackupInv
  <2> QED BY <1>0, <2>1, <2>2, <2>3
<1>4. CASE RestartGivesUp
  <2>1. LockInv' /\ BackupInv' /\ JobInv'
    BY <1>0, <1>4, IdleCliFacts DEF RestartGivesUp, Finish, RestartPc, LockInv, CliLocked, TickLocked, BackupInv, UnsavedPc, SavedPc, JobInv, MachineOK, CliOK, Command, DaemonOK, Daemon, LockOK, DiskOK, Backup, NetOK, JobOK, net, disk, used
  <2>2. HistoryInv'
    BY <1>0, <1>4, IdleCliFacts DEF RestartGivesUp, HistoryInv, LockInv, BackupInv
  <2>3. LoopInv'
    BY <1>0, <1>4, IdleCliFacts DEF RestartGivesUp, LoopInv, Pending, LockInv, BackupInv
  <2> QED BY <1>0, <2>1, <2>2, <2>3
<1> QED BY <1>0, <1>1, <1>2, <1>3, <1>4 DEF RestartNext

\* UserCommands keeps the inductive invariant.
LEMMA UserInductive == IInv /\ UserCommands => IInv'
<1> SUFFICES ASSUME IInv, UserCommands PROVE IInv'
  OBVIOUS
<1>0. MachineOK /\ MachineOK'
  BY UserType DEF IInv
<1> USE DEF IInv, Begin, At,
         CliLocked, TickLocked, UnsavedPc, SavedPc, net, disk, used, MachineOK, NetOK,
         DiskOK, JobOK, LockOK, CliOK, DaemonOK, Backup, Command, Daemon
<1>1. ASSUME NEW a \in Listener, StartInstall(a) PROVE IInv'
  BY <1>0, <1>1, IdleCliFacts DEF StartInstall, LockInv, BackupInv, JobInv, HistoryInv, LoopInv, Pending
<1>2. ASSUME NEW a \in Listener, ReconfigBegin(a) PROVE IInv'
  BY <1>0, <1>2, IdleCliFacts DEF ReconfigBegin, LockInv, BackupInv, JobInv, HistoryInv, LoopInv, Pending
<1>3. ASSUME NEW name \in {"stop", "uninstall"}, StopBegin(name) PROVE IInv'
  BY <1>0, <1>3, IdleCliFacts DEF StopBegin, LockInv, BackupInv, JobInv, HistoryInv, LoopInv, Pending
<1>4. CASE RestartBegin
  BY <1>0, <1>4, IdleCliFacts DEF RestartBegin, LockInv, BackupInv, JobInv, HistoryInv, LoopInv, Pending
<1> QED BY <1>0, <1>1, <1>2, <1>3, <1>4 DEF UserCommands

\* DaemonNext keeps the inductive invariant.
LEMMA DaemonInductive == IInv /\ DaemonNext => IInv'
<1> SUFFICES ASSUME IInv, DaemonNext PROVE IInv'
  OBVIOUS
<1>0. MachineOK /\ MachineOK'
  BY DaemonType DEF IInv
<1> USE DEF IInv, TickEnds, Unlocked, Write, WriteFails, Fault, Active,
         CliLocked, TickLocked, UnsavedPc, SavedPc, net, disk, used, MachineOK, NetOK,
         DiskOK, JobOK, LockOK, CliOK, DaemonOK, Backup, Command, Daemon
<1>1. CASE DaemonStarts
  BY <1>0, <1>1 DEF DaemonStarts, LockInv, BackupInv, JobInv, HistoryInv, LoopInv, Pending
<1>2. CASE TickBegin
  <2>1. LockInv' /\ BackupInv' /\ JobInv'
    BY <1>0, <1>2 DEF TickBegin, Active, LockInv, CliLocked, TickLocked, BackupInv, UnsavedPc, SavedPc, JobInv, MachineOK, CliOK, Command, DaemonOK, Daemon, LockOK, DiskOK, Backup, NetOK, JobOK, net, disk, used
  <2>2. HistoryInv'
    BY <1>0, <1>2 DEF TickBegin, HistoryInv, LockInv, BackupInv
  <2>3. LoopInv'
    BY <1>0, <1>2 DEF TickBegin, LoopInv, Pending, LockInv, BackupInv
  <2> QED BY <1>0, <2>1, <2>2, <2>3
<1>3. CASE TickPrepare
  <2>1. LockInv' /\ BackupInv' /\ JobInv'
    BY <1>0, <1>3 DEF TickPrepare, LockInv, BackupInv, JobInv
  <2>2. HistoryInv'
    <3>1. /\ backup'.legacy = backup.legacy
          /\ backup'.history = IF backup.legacy THEN backup.history
                               ELSE backup.history \cup {daemon.addr}
          /\ \A s \in Service : backup'.original[s] =
                 IF s \in NewServices THEN dns[s] ELSE backup.original[s]
      BY <1>0, <1>3 DEF TickPrepare, MachineOK, DiskOK, Backup
    <3>3. daemon'.pc = "snapshot" /\ daemon'.addr = daemon.addr
      BY <1>0, <1>3 DEF TickPrepare, MachineOK, DaemonOK, Daemon
    <3>4. cli.pc \notin CliLocked /\ UNCHANGED <<cli, config, dns, ours>>
      BY <1>3 DEF TickPrepare, LockInv, CliLocked, TickLocked, net
    <3> QED BY <3>1, <3>3, <3>4, UsesMore DEF HistoryInv, CliLocked
  <2>3. LoopInv'
    BY <1>0, <1>3 DEF TickPrepare, LoopInv, Pending, LockInv, BackupInv
  <2> QED BY <1>0, <2>1, <2>2, <2>3
<1>4. CASE TickRefused
  BY <1>0, <1>4 DEF TickRefused, LockInv, BackupInv, JobInv, HistoryInv, LoopInv, Pending
<1>5. CASE TickSnapshot
  BY <1>0, <1>5 DEF TickSnapshot, LockInv, BackupInv, JobInv, HistoryInv, LoopInv, Pending
<1>6. CASE TickDone
  BY <1>0, <1>6 DEF TickDone, LockInv, BackupInv, JobInv, HistoryInv, LoopInv, Pending
<1>7. ASSUME NEW s \in Service, Reassert(s) PROVE IInv'
  <2>1. LockInv' /\ BackupInv' /\ JobInv' /\ LoopInv'
    BY <1>0, <1>7 DEF Reassert, LockInv, BackupInv, JobInv, LoopInv, Pending
  <2>2. HistoryInv'
    <3>1. /\ daemon.pc = "set" /\ daemon'.pc = "set" /\ daemon'.addr = daemon.addr
          /\ UNCHANGED <<backup, config, cli>>
          /\ ours' = ours \cup {s} /\ dns' = [dns EXCEPT ![s] = <<daemon.addr>>]
      BY <1>0, <1>7 DEF Reassert
    <3>2. daemon.addr \in Listener /\ dns \in [Service -> DnsSetting] /\ ours \subseteq Service
      OBVIOUS
    <3>3. \A r \in ours' : dns'[r] = IF r = s THEN <<daemon.addr>> ELSE dns[r]
      BY <3>1, <3>2
    <3>4. /\ Uses(<<daemon.addr>>, Listener)
          /\ daemon.addr \in backup.history => Uses(<<daemon.addr>>, backup.history)
      BY <3>2, OneAddress
    <3> QED BY <3>1, <3>3, <3>4 DEF HistoryInv
  <2> QED BY <1>0, <2>1, <2>2
<1>8. ASSUME NEW s \in Service, ReassertFails(s) PROVE IInv'
  BY <1>0, <1>8 DEF ReassertFails, LockInv, BackupInv, JobInv, HistoryInv, LoopInv, Pending
<1> QED BY <1>0, <1>1, <1>2, <1>3, <1>4, <1>5, <1>6, <1>7, <1>8 DEF DaemonNext

\* World keeps the inductive invariant.
LEMMA WorldInductive == IInv /\ World => IInv'
<1> SUFFICES ASSUME IInv, World PROVE IInv'
  OBVIOUS
<1>0. MachineOK /\ MachineOK'
  BY WorldType DEF IInv
<1> USE DEF IInv, Fault, Finish, ReleaseLock, KillDaemon, TickEnds, Unlocked, Change, FreeName, Renamed, At,
         CliLocked, TickLocked, UnsavedPc, SavedPc, net, disk, used, MachineOK, NetOK,
         DiskOK, JobOK, LockOK, CliOK, DaemonOK, Backup, Command, Daemon
<1>1. CASE CliAborts
  BY <1>0, <1>1, IdleCliFacts DEF CliAborts, LockInv, BackupInv, JobInv, HistoryInv, LoopInv, Pending
<1>2. CASE DaemonDies
  BY <1>0, <1>2 DEF DaemonDies, LockInv, BackupInv, JobInv, HistoryInv, LoopInv, Pending
<1>3. CASE TickAborts
  BY <1>0, <1>3 DEF TickAborts, LockInv, BackupInv, JobInv, HistoryInv, LoopInv, Pending
<1>4. CASE Reboot
  BY <1>0, <1>4, IdleCliFacts DEF Reboot, LockInv, BackupInv, JobInv, HistoryInv, LoopInv, Pending
<1>5. ASSUME NEW s \in Service, ServiceVanishes(s) PROVE IInv'
  BY <1>0, <1>5 DEF ServiceVanishes, LockInv, BackupInv, JobInv, HistoryInv, LoopInv, Pending
<1>6. ASSUME NEW s \in Service, ServiceToggled(s) PROVE IInv'
  BY <1>0, <1>6 DEF ServiceToggled, LockInv, BackupInv, JobInv, HistoryInv, LoopInv, Pending
<1>7. ASSUME NEW s \in Service, NEW u \in UserSettings, UserSets(s, u) PROVE IInv'
  BY <1>0, <1>7 DEF UserSets, LockInv, BackupInv, JobInv, HistoryInv, LoopInv, Pending
<1>8. ASSUME NEW s \in Service, NEW u \in UserSettings, ServiceAppears(s, u) PROVE IInv'
  BY <1>0, <1>8 DEF ServiceAppears, LockInv, BackupInv, JobInv, HistoryInv, LoopInv, Pending
<1>9. ASSUME NEW s \in Service, NEW t \in Service, ServiceRenamed(s, t) PROVE IInv'
  <2>1. LockInv' /\ BackupInv' /\ JobInv'
    <3>1. ours' # {} => ours # {}
      BY <1>9 DEF ServiceRenamed, Renamed
    <3>2. UNCHANGED <<backup, marker, job, config, dnsLock, cli, daemon>>
      BY <1>9 DEF ServiceRenamed, Change, disk
    <3> QED BY <3>1, <3>2 DEF LockInv, BackupInv, JobInv
  <2>2. HistoryInv'
    BY <1>0, <1>9 DEF ServiceRenamed, HistoryInv, LockInv, BackupInv
  <2>3. LoopInv'
    BY <1>0, <1>9 DEF ServiceRenamed, LoopInv, Pending, LockInv, BackupInv
  <2> QED BY <1>0, <2>1, <2>2, <2>3
<1> QED BY <1>0, <1>1, <1>2, <1>3, <1>4, <1>5, <1>6, <1>7, <1>8, <1>9 DEF World

-----------------------------------------------------------------------------
(* Safety *)

\* The three states a machine can start from satisfy the invariant.
LEMMA InitInv == Init => IInv
<1> SUFFICES ASSUME Init PROVE IInv
  OBVIOUS
<1>1. MachineOK
  BY TypeCorrectInit DEF TypeOK
<1>2. PICK kind \in Starts : InitKind(kind)
  BY DEF Init
<1>3. kind \in {"fresh", "legacy", "corrupted"}
  BY ConstantsOK
<1>4. LockInv /\ LoopInv
  BY IdleCliFacts DEF Init, LockInv, LoopInv, CliLocked, TickLocked
<1>5. cli.pc = "idle" /\ daemon.pc = "down"
  BY IdleCliFacts DEF Init
<1>6. kind = "legacy" => backup.exists /\ job.plist /\ job.enabled /\ job.loaded
  <2> SUFFICES ASSUME kind = "legacy"
               PROVE  backup.exists /\ job.plist /\ job.enabled /\ job.loaded
    OBVIOUS
  <2>1. \E original \in InitialSettings({u \in OldSettings : ~Uses(u, {config})}) :
            backup = [exists |-> TRUE, names |-> InitialNames, original |-> original,
                      history |-> {}, legacy |-> TRUE]
    BY <1>2 DEF InitKind
  <2>2. job = [plist |-> kind = "legacy", enabled |-> TRUE, loaded |-> kind = "legacy"]
    BY <1>2 DEF InitKind
  <2>3. job.plist = (kind = "legacy") /\ job.enabled = TRUE /\ job.loaded = (kind = "legacy")
    BY <2>2
  <2>4. backup.exists
    BY <2>1
  <2> QED BY <2>3, <2>4
<1>7. kind # "legacy" => ours = {} /\ backup = NoBackup
  BY <1>2, <1>3 DEF InitKind
<1>8. ~NoBackup.exists /\ ~NoBackup.legacy
  BY DEF NoBackup
<1>9. BackupInv /\ JobInv
  BY <1>5, <1>6, <1>7, <1>8 DEF BackupInv, JobInv, UnsavedPc, SavedPc, TickLocked
<1>10. HistoryInv
  <2>1. CASE kind = "legacy"
    <3>1. PICK original \in InitialSettings({u \in OldSettings : ~Uses(u, {config})}) :
              backup = [exists |-> TRUE, names |-> InitialNames, original |-> original,
                        history |-> {}, legacy |-> TRUE]
      BY <1>2, <2>1 DEF InitKind
    <3>2. \A s \in ours : dns[s] = <<config>>
      BY <1>2, <2>1, ConstantsOK DEF Init, InitKind, InitialSettings
    <3>3. backup.legacy /\ config \in Listener
      BY <3>1 DEF Init
    <3> QED BY <1>5, <3>2, <3>3, OneAddress DEF HistoryInv
  <2>2. CASE kind # "legacy"
    BY <1>5, <1>7, <1>8, <2>2 DEF HistoryInv
  <2> QED BY <2>1, <2>2
<1> QED BY <1>1, <1>4, <1>9, <1>10 DEF IInv

\* So does a step that changes nothing, and a child that hangs.
LEMMA StutterInv == IInv /\ (UNCHANGED vars \/ ChildHangs) => IInv'
<1> SUFFICES ASSUME IInv, UNCHANGED vars \/ ChildHangs PROVE IInv'
  OBVIOUS
<1>0. UNCHANGED <<net, disk, job, config, dnsLock, cli, daemon>> /\ MachineOK'
  BY MachineType, HangChanges DEF vars, IInv, Next
<1> USE <1>0 DEF IInv, net, disk
<1>1. LockInv' /\ BackupInv' /\ JobInv' /\ HistoryInv' /\ LoopInv'
  BY DEF LockInv, BackupInv, JobInv, HistoryInv, LoopInv, Pending
<1> QED BY <1>1

\* The inductive invariant holds in every behaviour.
THEOREM Invariance == Spec => []IInv
<1>1. IInv /\ [Next]_vars => IInv'
  BY StutterInv, StartInductive, StopInductive, RestartInductive, UserInductive,
     DaemonInductive, WorldInductive DEF Next, CliNext
<1> QED BY InitInv, <1>1, PTL DEF Spec

\* Every service a takeover steers is covered by restore data, and by nothing
\* the verification of a restore could miss but the setting a version 1 backup
\* records as that service's own: no crash, failure or change of the network
\* services separates the two.
THEOREM RecoveryData == Spec => []RecoveryDataKept
<1>1. IInv => RecoveryDataKept
  BY OursDepend DEF IInv, BackupInv, RecoveryDataKept
<1> QED BY Invariance, <1>1, PTL

\* No service is ever left pointing at a resolver that does not run and will
\* not come back after a reboot.
THEOREM Served == Spec => []ServedWhileOurs
<1>1. IInv => ServedWhileOurs
  BY DEF IInv, BackupInv, JobInv, ServedWhileOurs
<1> QED BY Invariance, <1>1, PTL

\* The steps that write or remove the backup.
LEMMA BackupSteps ==
    Next => \/ UNCHANGED backup
            \/ TakeOverBackup \/ RolledBack \/ Restored \/ TickPrepare
<1> USE DEF disk
<1>1. StartNext => \/ UNCHANGED backup \/ TakeOverBackup \/ RolledBack
  BY DEF StartNext, StartPlist, StartEnable, StartBootstrap, StartProbe, StartProbeFails,
         StartBootstrapFails, TakeOverLock, TakeOverRefused, TakeOverMark,
         RollBackIncomplete, CleanupBootout, CleanupPlist, TakeOverSet,
         TakeOverSetFails, RollBack, RollBackFails
<1>2. StopNext => UNCHANGED backup \/ Restored
  BY DEF StopNext, ReleaseBegin, ReleaseNothing, ReleaseRefused, ReleaseMarker,
         RestoreList, RestoreRelist, BackupRetained, RestoreSet, RestoreSetFails,
         RestoreVerify, RestoreVerifyFails, StopDisable, StopBootout, UninstallFiles,
         UninstallReenable
<1>3. RestartNext \/ UserCommands => UNCHANGED backup
  BY DEF RestartNext, Kick, RestartSucceeds, ReconfigReverts, RestartGivesUp,
         UserCommands, StartInstall, ReconfigBegin, StopBegin, RestartBegin
<1>4. DaemonNext => UNCHANGED backup \/ TickPrepare
  BY DEF DaemonNext, DaemonStarts, TickBegin, TickRefused, TickSnapshot, TickDone,
         Reassert, ReassertFails
<1>5. World => UNCHANGED backup
  BY DEF World, CliAborts, DaemonDies, TickAborts, Reboot, Change, ServiceVanishes,
         ServiceToggled, UserSets, ServiceAppears, ServiceRenamed
<1>6. ChildHangs => UNCHANGED backup
  BY HangChanges DEF net, disk
<1> QED BY <1>1, <1>2, <1>3, <1>4, <1>5, <1>6 DEF Next, CliNext

\* Restore data is never DNSRivet's own setting: what take_over and the watchdog
\* record was chosen by somebody else.
THEOREM RecordsForeign == Spec => NeverRecordsOwn
<1>1. ASSUME IInv, [Next]_vars
      PROVE  [\A s \in backup'.names \ backup.names : s \notin ours]_vars
  <2>1. CASE UNCHANGED vars
    BY <2>1
  <2>2. CASE UNCHANGED backup
    BY <2>2
  <2>3. CASE TakeOverBackup
    BY <1>1, <2>3 DEF TakeOverBackup, TakeOverUnsafe, IInv, BackupInv
  <2>4. CASE RolledBack \/ Restored
    BY <2>4 DEF RolledBack, Restored, NoBackup
  <2>5. CASE TickPrepare
    <3>1. \A s \in NewServices : ~Depends(s) /\ ~HasOriginal(s)
      BY <2>5 DEF TickPrepare, Unrecordable, NewServices, HasOriginal, OriginalBack
    <3>2. backup'.names = backup.names \cup NewServices
      BY <1>1, <2>5 DEF TickPrepare, IInv, MachineOK, DiskOK, Backup
    <3> QED BY <1>1, <3>1, <3>2, OursDepend
  <2> QED BY <1>1, <2>1, <2>2, <2>3, <2>4, <2>5, BackupSteps
<1> QED BY Invariance, <1>1, PTL DEF Spec, NeverRecordsOwn

\* A recorded original is never rewritten and the address history never shrinks
\* while the backup exists.
THEOREM OriginalsStay == Spec => OriginalsKept
<1> DEFINE Kept == backup.exists /\ backup'.exists =>
         /\ backup.names \subseteq backup'.names
         /\ backup.history \subseteq backup'.history
         /\ \A s \in backup.names : backup'.original[s] = backup.original[s]
<1>1. ASSUME IInv, [Next]_vars
      PROVE  [Kept]_vars
  <2>1. CASE UNCHANGED vars
    BY <2>1
  <2>2. CASE UNCHANGED backup
    BY <2>2
  <2>3. CASE TakeOverBackup
    BY <2>3 DEF TakeOverBackup, TakeOverUnsafe
  <2>4. CASE RolledBack \/ Restored
    BY <2>4 DEF RolledBack, Restored, NoBackup
  <2>5. CASE TickPrepare
    <3>1. /\ backup'.names = backup.names \cup NewServices
          /\ backup.history \subseteq backup'.history
          /\ \A s \in Service : s \notin NewServices => backup'.original[s] = backup.original[s]
      BY <1>1, <2>5 DEF TickPrepare, IInv, MachineOK, DiskOK, Backup
    <3>2. backup.names \subseteq Service /\ backup.names \cap NewServices = {}
      BY <1>1 DEF IInv, MachineOK, DiskOK, Backup, NewServices
    <3> QED BY <3>1, <3>2
  <2> QED BY <1>1, <2>1, <2>2, <2>3, <2>4, <2>5, BackupSteps
<1> QED BY Invariance, <1>1, PTL DEF Spec, OriginalsKept

-----------------------------------------------------------------------------
(* What is armed *)

\* Which commands are where, when the marker exists, and that only recorded
\* services are ever pointed at DNSRivet.
ArmedInv ==
    /\ cli.pc \in StartPc <=> cli.cmd = "start"
    /\ cli.pc \in RestartPc <=> cli.cmd \in {"restart", "reconfig", "revert"}
    /\ cli.pc \in StartPc \cup {"rel_list", "rel_set", "rel_verify"} => ~marker
    /\ cli.pc = "tk_set" => cli.todo \subseteq backup.names
    /\ daemon.pc \in TickLocked => marker
    /\ daemon.pc = "set" => daemon.todo \subseteq backup.names

\* StartNext keeps it.
LEMMA StartArmed == IInv /\ ArmedInv /\ StartNext => ArmedInv'
<1> SUFFICES ASSUME IInv, ArmedInv, StartNext PROVE ArmedInv'
  OBVIOUS
<1>0. MachineOK /\ LockInv /\ BackupInv
  BY DEF IInv
<1> USE IdleCliFacts DEF ArmedInv, Fault, Goto, Finish, Begin, TakeLock, ReleaseLock, KillDaemon,
         Unlocked, Write, WriteFails, TickEnds, At, Change, CliLocked, TickLocked, StartPc, RestartPc,
         SavedPc, LockInv, BackupInv, net, disk, used, MachineOK, CliOK, Command, DaemonOK, Daemon, DiskOK,
         Backup, NoBackup
<1>1. CASE StartPlist
  BY <1>0, <1>1 DEF StartPlist
<1>2. CASE StartEnable
  BY <1>0, <1>2 DEF StartEnable
<1>3. CASE StartBootstrap
  BY <1>0, <1>3 DEF StartBootstrap
<1>4. CASE StartProbe
  BY <1>0, <1>4 DEF StartProbe
<1>5. CASE StartProbeFails
  BY <1>0, <1>5 DEF StartProbeFails
<1>6. CASE TakeOverLock
  BY <1>0, <1>6 DEF TakeOverLock
<1>7. CASE TakeOverBackup
  BY <1>0, <1>7 DEF TakeOverBackup
<1>8. CASE TakeOverRefused
  BY <1>0, <1>8 DEF TakeOverRefused
<1>9. CASE TakeOverMark
  BY <1>0, <1>9 DEF TakeOverMark
<1>10. CASE RolledBack
  BY <1>0, <1>10 DEF RolledBack
<1>11. CASE RollBackIncomplete
  BY <1>0, <1>11 DEF RollBackIncomplete
<1>12. CASE CleanupBootout
  BY <1>0, <1>12 DEF CleanupBootout
<1>13. CASE CleanupPlist
  BY <1>0, <1>13 DEF CleanupPlist
<1>14. ASSUME NEW left \in BOOLEAN, StartBootstrapFails(left) PROVE ArmedInv'
  BY <1>0, <1>14 DEF StartBootstrapFails
<1>15. ASSUME NEW s \in Service, TakeOverSet(s) PROVE ArmedInv'
  BY <1>0, <1>15 DEF TakeOverSet
<1>16. ASSUME NEW s \in Service, TakeOverSetFails(s) PROVE ArmedInv'
  BY <1>0, <1>16 DEF TakeOverSetFails
<1>17. ASSUME NEW s \in Service, RollBack(s) PROVE ArmedInv'
  BY <1>0, <1>17 DEF RollBack
<1>18. ASSUME NEW s \in Service, RollBackFails(s) PROVE ArmedInv'
  BY <1>0, <1>18 DEF RollBackFails
<1> QED
  BY <1>1, <1>2, <1>3, <1>4, <1>5, <1>6, <1>7, <1>8, <1>9, <1>10, <1>11, <1>12, <1>13, <1>14, <1>15, <1>16, <1>17, <1>18 DEF StartNext

\* StopNext keeps it.
LEMMA StopArmed == IInv /\ ArmedInv /\ StopNext => ArmedInv'
<1> SUFFICES ASSUME IInv, ArmedInv, StopNext PROVE ArmedInv'
  OBVIOUS
<1>0. MachineOK /\ LockInv /\ BackupInv
  BY DEF IInv
<1> USE IdleCliFacts DEF ArmedInv, Fault, Goto, Finish, Begin, TakeLock, ReleaseLock, KillDaemon,
         Unlocked, Write, WriteFails, TickEnds, At, Change, CliLocked, TickLocked, StartPc, RestartPc,
         SavedPc, LockInv, BackupInv, net, disk, used, MachineOK, CliOK, Command, DaemonOK, Daemon, DiskOK,
         Backup, NoBackup
<1>1. CASE ReleaseBegin
  BY <1>0, <1>1 DEF ReleaseBegin
<1>2. CASE ReleaseNothing
  BY <1>0, <1>2 DEF ReleaseNothing
<1>3. CASE ReleaseRefused
  BY <1>0, <1>3 DEF ReleaseRefused
<1>4. CASE ReleaseMarker
  BY <1>0, <1>4 DEF ReleaseMarker
<1>5. CASE RestoreList
  BY <1>0, <1>5 DEF RestoreList
<1>6. CASE RestoreRelist
  <2>1. cli.pc = "rel_set" /\ UNCHANGED <<disk, daemon>>
    BY <1>6 DEF RestoreRelist
  <2>2. cli'.pc = "rel_verify" /\ cli'.cmd = cli.cmd
    BY <1>0, <1>6 DEF RestoreRelist
  <2> QED BY <2>1, <2>2
<1>7. CASE Restored
  BY <1>0, <1>7 DEF Restored
<1>8. CASE BackupRetained
  BY <1>0, <1>8 DEF BackupRetained
<1>9. CASE StopDisable
  BY <1>0, <1>9 DEF StopDisable
<1>10. CASE StopBootout
  BY <1>0, <1>10 DEF StopBootout
<1>11. CASE UninstallFiles
  BY <1>0, <1>11 DEF UninstallFiles
<1>12. CASE UninstallReenable
  BY <1>0, <1>12 DEF UninstallReenable
<1>13. ASSUME NEW s \in Service, RestoreSet(s) PROVE ArmedInv'
  BY <1>0, <1>13 DEF RestoreSet
<1>14. ASSUME NEW s \in Service, RestoreSetFails(s) PROVE ArmedInv'
  BY <1>0, <1>14 DEF RestoreSetFails
<1>15. ASSUME NEW s \in Service, RestoreVerify(s) PROVE ArmedInv'
  BY <1>0, <1>15 DEF RestoreVerify
<1>16. ASSUME NEW s \in Service, RestoreVerifyFails(s) PROVE ArmedInv'
  BY <1>0, <1>16 DEF RestoreVerifyFails
<1> QED
  BY <1>1, <1>2, <1>3, <1>4, <1>5, <1>6, <1>7, <1>8, <1>9, <1>10, <1>11, <1>12, <1>13, <1>14, <1>15, <1>16 DEF StopNext

\* RestartNext keeps it.
LEMMA RestartArmed == IInv /\ ArmedInv /\ RestartNext => ArmedInv'
<1> SUFFICES ASSUME IInv, ArmedInv, RestartNext PROVE ArmedInv'
  OBVIOUS
<1>0. MachineOK /\ LockInv /\ BackupInv
  BY DEF IInv
<1> USE IdleCliFacts DEF ArmedInv, Fault, Goto, Finish, Begin, TakeLock, ReleaseLock, KillDaemon,
         Unlocked, Write, WriteFails, TickEnds, At, Change, CliLocked, TickLocked, StartPc, RestartPc,
         SavedPc, LockInv, BackupInv, net, disk, used, MachineOK, CliOK, Command, DaemonOK, Daemon, DiskOK,
         Backup, NoBackup
<1>1. CASE Kick
  BY <1>0, <1>1 DEF Kick
<1>2. CASE RestartSucceeds
  BY <1>0, <1>2 DEF RestartSucceeds
<1>3. CASE ReconfigReverts
  BY <1>0, <1>3 DEF ReconfigReverts
<1>4. CASE RestartGivesUp
  BY <1>0, <1>4 DEF RestartGivesUp
<1> QED
  BY <1>1, <1>2, <1>3, <1>4 DEF RestartNext

\* UserCommands keeps it.
LEMMA UserArmed == IInv /\ ArmedInv /\ UserCommands => ArmedInv'
<1> SUFFICES ASSUME IInv, ArmedInv, UserCommands PROVE ArmedInv'
  OBVIOUS
<1>0. MachineOK /\ LockInv /\ BackupInv
  BY DEF IInv
<1> USE IdleCliFacts DEF ArmedInv, Fault, Goto, Finish, Begin, TakeLock, ReleaseLock, KillDaemon,
         Unlocked, Write, WriteFails, TickEnds, At, Change, CliLocked, TickLocked, StartPc, RestartPc,
         SavedPc, LockInv, BackupInv, net, disk, used, MachineOK, CliOK, Command, DaemonOK, Daemon, DiskOK,
         Backup, NoBackup
<1>1. CASE RestartBegin
  BY <1>0, <1>1 DEF RestartBegin
<1>2. ASSUME NEW a \in Listener, StartInstall(a) PROVE ArmedInv'
  BY <1>0, <1>2 DEF StartInstall, NotTakenOver
<1>3. ASSUME NEW a \in Listener, ReconfigBegin(a) PROVE ArmedInv'
  BY <1>0, <1>3 DEF ReconfigBegin
<1>4. ASSUME NEW name \in {"stop", "uninstall"}, StopBegin(name) PROVE ArmedInv'
  BY <1>0, <1>4 DEF StopBegin
<1> QED
  BY <1>1, <1>2, <1>3, <1>4 DEF UserCommands

\* DaemonNext keeps it.
LEMMA DaemonArmed == IInv /\ ArmedInv /\ DaemonNext => ArmedInv'
<1> SUFFICES ASSUME IInv, ArmedInv, DaemonNext PROVE ArmedInv'
  OBVIOUS
<1>0. MachineOK /\ LockInv /\ BackupInv
  BY DEF IInv
<1> USE IdleCliFacts DEF ArmedInv, Fault, Goto, Finish, Begin, TakeLock, ReleaseLock, KillDaemon,
         Unlocked, Write, WriteFails, TickEnds, At, Change, CliLocked, TickLocked, StartPc, RestartPc,
         SavedPc, LockInv, BackupInv, net, disk, used, MachineOK, CliOK, Command, DaemonOK, Daemon, DiskOK,
         Backup, NoBackup
<1>1. CASE DaemonStarts
  BY <1>0, <1>1 DEF DaemonStarts
<1>2. CASE TickBegin
  BY <1>0, <1>2 DEF TickBegin, Active
<1>3. CASE TickPrepare
  BY <1>0, <1>3 DEF TickPrepare
<1>4. CASE TickRefused
  BY <1>0, <1>4 DEF TickRefused
<1>5. CASE TickSnapshot
  BY <1>0, <1>5 DEF TickSnapshot, Drifted
<1>6. CASE TickDone
  BY <1>0, <1>6 DEF TickDone
<1>7. ASSUME NEW s \in Service, Reassert(s) PROVE ArmedInv'
  BY <1>0, <1>7 DEF Reassert
<1>8. ASSUME NEW s \in Service, ReassertFails(s) PROVE ArmedInv'
  BY <1>0, <1>8 DEF ReassertFails
<1> QED
  BY <1>1, <1>2, <1>3, <1>4, <1>5, <1>6, <1>7, <1>8 DEF DaemonNext

\* World keeps it.
LEMMA WorldArmed == IInv /\ ArmedInv /\ World => ArmedInv'
<1> SUFFICES ASSUME IInv, ArmedInv, World PROVE ArmedInv'
  OBVIOUS
<1>0. MachineOK /\ LockInv /\ BackupInv
  BY DEF IInv
<1> USE IdleCliFacts DEF ArmedInv, Fault, Goto, Finish, Begin, TakeLock, ReleaseLock, KillDaemon,
         Unlocked, Write, WriteFails, TickEnds, At, Change, CliLocked, TickLocked, StartPc, RestartPc,
         SavedPc, LockInv, BackupInv, net, disk, used, MachineOK, CliOK, Command, DaemonOK, Daemon, DiskOK,
         Backup, NoBackup
<1>1. CASE CliAborts
  BY <1>0, <1>1 DEF CliAborts
<1>2. CASE DaemonDies
  BY <1>0, <1>2 DEF DaemonDies
<1>3. CASE TickAborts
  BY <1>0, <1>3 DEF TickAborts
<1>4. CASE Reboot
  BY <1>0, <1>4 DEF Reboot
<1>5. ASSUME NEW s \in Service, ServiceVanishes(s) PROVE ArmedInv'
  BY <1>0, <1>5 DEF ServiceVanishes
<1>6. ASSUME NEW s \in Service, ServiceToggled(s) PROVE ArmedInv'
  BY <1>0, <1>6 DEF ServiceToggled
<1>7. ASSUME NEW s \in Service, NEW u \in UserSettings, UserSets(s, u) PROVE ArmedInv'
  BY <1>0, <1>7 DEF UserSets
<1>8. ASSUME NEW s \in Service, NEW u \in UserSettings, ServiceAppears(s, u) PROVE ArmedInv'
  BY <1>0, <1>8 DEF ServiceAppears
<1>9. ASSUME NEW s \in Service, NEW t \in Service, ServiceRenamed(s, t) PROVE ArmedInv'
  BY <1>0, <1>9 DEF ServiceRenamed
<1> QED
  BY <1>1, <1>2, <1>3, <1>4, <1>5, <1>6, <1>7, <1>8, <1>9 DEF World

\* It holds in every behaviour.
THEOREM ArmedInvariance == Spec => []ArmedInv
<1>1. Init => ArmedInv
  BY IdleCliFacts DEF Init, ArmedInv, StartPc, RestartPc, TickLocked
<1>2. IInv /\ ArmedInv /\ [Next]_vars => ArmedInv'
  <2> SUFFICES ASSUME IInv, ArmedInv, [Next]_vars PROVE ArmedInv'
    OBVIOUS
  <2>1. CASE UNCHANGED vars \/ ChildHangs
    <3>1. UNCHANGED <<disk, cli, daemon>>
      BY <2>1, HangChanges DEF vars
    <3> QED BY <3>1 DEF disk, ArmedInv
  <2> QED BY <2>1, StartArmed, StopArmed, RestartArmed, UserArmed, DaemonArmed, WorldArmed
       DEF Next, CliNext
<1> QED BY <1>1, <1>2, Invariance, PTL DEF Spec

\* The steps that write or remove the marker.
LEMMA MarkerSteps == Next => UNCHANGED marker \/ marker' = FALSE \/ TakeOverMark
<1> USE DEF disk
<1>1. StartNext => UNCHANGED marker \/ TakeOverMark
  BY DEF StartNext, StartPlist, StartEnable, StartBootstrap, StartProbe, StartProbeFails,
         StartBootstrapFails, TakeOverLock, TakeOverBackup, TakeOverRefused, RolledBack,
         RollBackIncomplete, CleanupBootout, CleanupPlist, TakeOverSet,
         TakeOverSetFails, RollBack, RollBackFails
<1>2. StopNext => UNCHANGED marker \/ marker' = FALSE
  BY DEF StopNext, ReleaseBegin, ReleaseNothing, ReleaseRefused, ReleaseMarker,
         RestoreList, RestoreRelist, Restored, BackupRetained, RestoreSet, RestoreSetFails,
         RestoreVerify, RestoreVerifyFails, StopDisable, StopBootout, UninstallFiles,
         UninstallReenable
<1>3. RestartNext \/ UserCommands => UNCHANGED marker
  BY DEF RestartNext, Kick, RestartSucceeds, ReconfigReverts, RestartGivesUp,
         UserCommands, StartInstall, ReconfigBegin, StopBegin, RestartBegin
<1>4. DaemonNext => UNCHANGED marker
  BY DEF DaemonNext, DaemonStarts, TickBegin, TickPrepare, TickRefused, TickSnapshot, TickDone,
         Reassert, ReassertFails
<1>5. World => UNCHANGED marker
  BY DEF World, CliAborts, DaemonDies, TickAborts, Reboot, Change, ServiceVanishes,
         ServiceToggled, UserSets, ServiceAppears, ServiceRenamed
<1>6. ChildHangs => UNCHANGED marker
  BY HangChanges DEF net, disk
<1> QED BY <1>1, <1>2, <1>3, <1>4, <1>5, <1>6 DEF Next, CliNext

\* No step of a command, a tick, a kill or a reboot leaves a marker without a
\* backup: the marker comes last and goes first.
THEOREM StaysConsistent == Spec => NeverCorrupts
<1>1. ASSUME IInv, ArmedInv, [Next]_vars
      PROVE  [marker' /\ ~backup'.exists => marker /\ ~backup.exists]_vars
  <2>1. CASE UNCHANGED vars
    BY <2>1
  <2>2. CASE TakeOverMark
    BY <1>1, <2>2 DEF TakeOverMark, At, IInv, BackupInv, SavedPc
  <2>3. CASE marker' = FALSE
    BY <2>3
  <2>4. CASE UNCHANGED marker /\ UNCHANGED backup
    BY <2>4
  <2>5. CASE UNCHANGED marker /\ (RolledBack \/ Restored)
    BY <1>1, <2>5 DEF RolledBack, Restored, At, ArmedInv, StartPc
  <2>6. CASE TakeOverBackup
    BY <2>6 DEF TakeOverBackup
  <2>7. CASE TickPrepare
    <3>1. backup.exists /\ backup'.exists = backup.exists
      BY <1>1, <2>7 DEF TickPrepare, IInv, BackupInv, TickLocked, MachineOK, DiskOK, Backup
    <3> QED BY <3>1
  <2> QED BY <1>1, <2>1, <2>2, <2>3, <2>4, <2>5, <2>6, <2>7, BackupSteps, MarkerSteps
<1> QED BY Invariance, ArmedInvariance, <1>1, PTL DEF Spec, NeverCorrupts

\* The steps after which a takeover steers a service it did not steer before.
LEMMA SteeringSteps ==
    Next => \/ ours' \subseteq ours
            \/ \E s \in Service : TakeOverSet(s) \/ Reassert(s)
            \/ \E s, t \in Service : ServiceRenamed(s, t)
<1> USE DEF net
<1>1. StartNext => ours' \subseteq ours \/ \E s \in Service : TakeOverSet(s)
  BY DEF StartNext, StartPlist, StartEnable, StartBootstrap, StartProbe, StartProbeFails,
         StartBootstrapFails, TakeOverLock, TakeOverBackup, TakeOverRefused, TakeOverMark, RolledBack,
         RollBackIncomplete, CleanupBootout, CleanupPlist, Write, WriteFails,
         TakeOverSetFails, RollBack, RollBackFails
<1>2. StopNext => ours' \subseteq ours
  BY DEF StopNext, ReleaseBegin, ReleaseNothing, ReleaseRefused, ReleaseMarker,
         RestoreList, RestoreRelist, Restored, BackupRetained, RestoreSet, RestoreSetFails,
         RestoreVerify, RestoreVerifyFails, StopDisable, StopBootout, UninstallFiles,
         UninstallReenable, Write, WriteFails
<1>3. RestartNext \/ UserCommands => UNCHANGED ours
  BY DEF RestartNext, Kick, RestartSucceeds, ReconfigReverts, RestartGivesUp,
         UserCommands, StartInstall, ReconfigBegin, StopBegin, RestartBegin
<1>4. DaemonNext => UNCHANGED ours \/ \E s \in Service : Reassert(s)
  BY DEF DaemonNext, DaemonStarts, TickBegin, TickPrepare, TickRefused, TickSnapshot, TickDone,
         ReassertFails, WriteFails
<1>5. World => \/ ours' \subseteq ours
               \/ \E s, t \in Service : ServiceRenamed(s, t)
  BY DEF World, CliAborts, DaemonDies, TickAborts, Reboot, Change, ServiceVanishes,
         ServiceToggled, UserSets, ServiceAppears
<1>6. ChildHangs => UNCHANGED ours
  BY HangChanges DEF net, disk
<1> QED BY <1>1, <1>2, <1>3, <1>4, <1>5, <1>6 DEF Next, CliNext

\* A service is pointed at DNSRivet only with its restore data on disk, by a
\* start or by a tick while the takeover is armed.
THEOREM TakenArmed == Spec => TakenOnlyWhenArmed
<1>1. ASSUME IInv, ArmedInv, [Next]_vars,
             NEW s \in ours' \cap present', s \notin ours, changes' = changes
      PROVE  s \in backup.names /\ (Active \/ cli.cmd = "start")
  <2>1. CASE UNCHANGED vars
    BY <1>1, <2>1 DEF vars, net
  <2>2. ASSUME NEW r \in Service, TakeOverSet(r)
        PROVE  s \in backup.names /\ (Active \/ cli.cmd = "start")
    <3>1. s = r
      BY <1>1, <2>2 DEF TakeOverSet, Write
    <3> QED BY <1>1, <2>2, <3>1 DEF TakeOverSet, At, ArmedInv, StartPc
  <2>3. ASSUME NEW r \in Service, Reassert(r)
        PROVE  s \in backup.names /\ (Active \/ cli.cmd = "start")
    <3>1. s = r
      BY <1>1, <2>3 DEF Reassert, Write
    <3>2. marker /\ backup.exists
      BY <1>1, <2>3 DEF Reassert, ArmedInv, TickLocked, IInv, BackupInv
    <3> QED BY <1>1, <2>3, <3>1, <3>2 DEF Reassert, ArmedInv, Active
  <2>4. ASSUME NEW r \in Service, NEW t \in Service, ServiceRenamed(r, t) PROVE FALSE
    BY <1>1, <2>4 DEF ServiceRenamed, Change, IInv, MachineOK, UsedOK
  <2> QED BY <1>1, <2>1, <2>2, <2>3, <2>4, SteeringSteps
<1> DEFINE Armed == \A s \in ours' \cap present' :
         s \notin ours /\ changes' = changes =>
            /\ s \in backup.names
            /\ Active \/ cli.cmd = "start"
<1>2. IInv /\ ArmedInv /\ [Next]_vars => [Armed]_vars
  BY <1>1
<1> QED BY Invariance, ArmedInvariance, <1>2, PTL DEF Spec, TakenOnlyWhenArmed

\* The only steps that end a restart --config without a failure report success.
LEMMA ReconfigEnds ==
    ASSUME IInv, ArmedInv, Next, cli.cmd = "reconfig", cli'.cmd = "none", faults' = faults
    PROVE  RestartSucceeds
<1>1. cli.pc \in RestartPc /\ cli \in Command /\ faults \in Nat
  BY DEF ArmedInv, IInv, MachineOK, CliOK, UsedOK
<1>2. CASE StartNext \/ StopNext
  <2>1. cli.pc \in StartPc \cup StopPc
    BY <1>2 DEF StartNext, StartPlist, StartEnable, StartBootstrap, StartProbe, StartProbeFails,
         StartBootstrapFails, TakeOverLock, TakeOverBackup, TakeOverRefused, TakeOverMark, RolledBack,
         RollBackIncomplete, CleanupBootout, CleanupPlist, TakeOverSet, TakeOverSetFails, RollBack,
         RollBackFails, StopNext, ReleaseBegin, ReleaseNothing, ReleaseRefused, ReleaseMarker,
         RestoreList, RestoreRelist, Restored, BackupRetained, RestoreSet, RestoreSetFails,
         RestoreVerify, RestoreVerifyFails, StopDisable, StopBootout, UninstallFiles,
         UninstallReenable, At, StartPc, StopPc
  <2> QED BY <1>1, <2>1 DEF StartPc, StopPc, RestartPc
<1>3. CASE RestartNext
  <2>1. ~Kick /\ ~ReconfigReverts /\ ~RestartGivesUp
    BY <1>1 DEF Kick, Goto, ReconfigReverts, RestartGivesUp, Command
  <2> QED BY <1>3, <2>1 DEF RestartNext
<1>4. ASSUME UserCommands PROVE FALSE
  BY <1>1, <1>4 DEF UserCommands, StartInstall, ReconfigBegin, StopBegin, RestartBegin, Begin, At, RestartPc
<1>5. ASSUME DaemonNext PROVE FALSE
  <2>1. UNCHANGED cli
    BY <1>5 DEF DaemonNext, DaemonStarts, TickBegin, TickPrepare, TickRefused, TickSnapshot,
       TickDone, Reassert, ReassertFails
  <2> QED BY <2>1
<1>6. ASSUME World PROVE FALSE
  <2>1. UNCHANGED cli \/ faults' = faults + 1
    BY <1>6 DEF World, CliAborts, DaemonDies, TickAborts, Reboot, Fault, Change, ServiceVanishes,
       ServiceToggled, UserSets, ServiceAppears, ServiceRenamed
  <2> QED BY <1>1, <2>1
<1>7. ASSUME ChildHangs PROVE FALSE
  BY <1>1, <1>7, HangChanges
<1> QED BY <1>2, <1>3, <1>4, <1>5, <1>6, <1>7 DEF Next, CliNext

\* restart --config never reports a takeover that some service does not follow,
\* under whatever name and whether or not it is enabled.
THEOREM VerifiedSwitches == Spec => VerifiedMeansSwitched
<1>1. ASSUME IInv, ArmedInv, [Next]_vars, ~UNCHANGED vars,
             cli.cmd = "reconfig", cli.verify, cli'.cmd = "none", faults' = faults,
             NEW s \in ours
      PROVE  dns[s] = <<config>>
  <2>1. Intact(config)
    BY <1>1, ReconfigEnds DEF RestartSucceeds
  <2>2. s \in present /\ (Depends(s) \/ HasOriginal(s))
    BY <1>1, OursDepend DEF IInv, MachineOK, NetOK
  <2>3. s \in Concerned
    BY <2>2 DEF Concerned, HasOriginal, OriginalBack
  <2> QED BY <2>1, <2>3 DEF Intact
<1> DEFINE Switched == cli.cmd = "reconfig" /\ cli.verify /\ cli'.cmd = "none" /\ faults' = faults
         => \A s \in ours : dns[s] = <<config>>
<1>2. IInv /\ ArmedInv /\ [Next]_vars => [Switched]_vars
  BY <1>1
<1> QED BY Invariance, ArmedInvariance, <1>2, PTL DEF Spec, VerifiedMeansSwitched
-----------------------------------------------------------------------------
(* What a calm restore finds *)

\* No failure, and no change from outside since the backup was written; a
\* version 1 backup starts with one, see InitKind.
Calm == faults = 0 /\ changes = (IF backup.legacy THEN 1 ELSE 0)

RestorePc == {"rel_lock", "rel_gate", "rel_list", "rel_set", "rel_verify"}

\* While all is calm the backup names every service, and a restore leaves its
\* original setting at each one it is done with; only restore data that names a
\* takeover address can make the verification fail.
CalmInv ==
    /\ backup.legacy => changes # 0
    /\ cli.pc \in {"rel_lock", "rel_gate", "rel_list"} => ~cli.failed
    /\ Calm => off = {} /\ (backup.exists => backup.names = present)
    /\ Calm /\ At("rel_set") =>
          /\ ~cli.failed /\ cli.todo \subseteq present
          /\ \A s \in present \ cli.todo : dns[s] = backup.original[s]
    /\ Calm /\ At("rel_verify") =>
          /\ cli.todo \subseteq present
          /\ \A s \in present : dns[s] = backup.original[s]
          /\ cli.failed => ~RestoreDataIsForeign

\* Failures and changes are only ever counted up, and no service appears,
\* vanishes or is disabled but by such a change.
LEMMA CountedSteps ==
    Next => \/ UNCHANGED <<faults, changes, present, off>>
            \/ faults' = faults + 1 /\ UNCHANGED changes
            \/ changes' = changes + 1 /\ UNCHANGED <<faults, disk>>
<1> USE DEF net, used, Fault, Begin, Write, WriteFails
<1>1. StartNext => \/ UNCHANGED <<faults, changes, present, off>>
                   \/ faults' = faults + 1 /\ UNCHANGED changes
  BY DEF StartNext, StartPlist, StartEnable, StartBootstrap, StartProbe, StartProbeFails,
         StartBootstrapFails, TakeOverLock, TakeOverBackup, TakeOverRefused, TakeOverMark, RolledBack,
         RollBackIncomplete, CleanupBootout, CleanupPlist, TakeOverSet, TakeOverSetFails,
         RollBack, RollBackFails
<1>2. StopNext => \/ UNCHANGED <<faults, changes, present, off>>
                  \/ faults' = faults + 1 /\ UNCHANGED changes
  BY DEF StopNext, ReleaseBegin, ReleaseNothing, ReleaseRefused, ReleaseMarker,
         RestoreList, RestoreRelist, Restored, BackupRetained, RestoreSet, RestoreSetFails,
         RestoreVerify, RestoreVerifyFails, StopDisable, StopBootout, UninstallFiles,
         UninstallReenable
<1>3. RestartNext \/ UserCommands =>
                 \/ UNCHANGED <<faults, changes, present, off>>
                 \/ faults' = faults + 1 /\ UNCHANGED changes
  BY DEF RestartNext, Kick, RestartSucceeds, ReconfigReverts, RestartGivesUp,
         UserCommands, StartInstall, ReconfigBegin, StopBegin, RestartBegin
<1>4. DaemonNext => \/ UNCHANGED <<faults, changes, present, off>>
                    \/ faults' = faults + 1 /\ UNCHANGED changes
  BY DEF DaemonNext, DaemonStarts, TickBegin, TickPrepare, TickRefused, TickSnapshot, TickDone,
         Reassert, ReassertFails
<1>5. World => \/ faults' = faults + 1 /\ UNCHANGED changes
               \/ changes' = changes + 1 /\ UNCHANGED <<faults, disk>>
  BY DEF World, CliAborts, DaemonDies, TickAborts, Reboot, Change, ServiceVanishes,
         ServiceToggled, UserSets, ServiceAppears, ServiceRenamed
<1>6. ChildHangs => faults' = faults + 1 /\ UNCHANGED changes
  BY HangChanges DEF net, disk
<1> QED BY <1>1, <1>2, <1>3, <1>4, <1>5, <1>6 DEF Next, CliNext

\* Calm does not come back once it is gone.
LEMMA StaysCalm ==
    ASSUME IInv, CalmInv, Next, Calm'
    PROVE  /\ Calm /\ UNCHANGED <<faults, changes, present, off>>
           /\ backup'.legacy = backup.legacy
<1>1. faults \in Nat /\ changes \in Nat /\ backup \in Backup
  BY DEF IInv, MachineOK, UsedOK, DiskOK
<1>2. CASE UNCHANGED <<faults, changes, present, off>>
  <2>1. CASE UNCHANGED backup
    BY <1>2, <2>1 DEF Calm
  <2>2. CASE TakeOverBackup \/ RolledBack \/ Restored
    <3>1. backup'.legacy = FALSE
      BY <2>2 DEF TakeOverBackup, RolledBack, Restored, NoBackup
    <3>2. faults = 0 /\ changes = 0
      BY <1>2, <3>1 DEF Calm
    <3>3. backup.legacy = FALSE
      BY <1>1, <3>2 DEF CalmInv, Backup
    <3> QED BY <1>2, <3>1, <3>2, <3>3 DEF Calm
  <2>3. CASE TickPrepare
    <3>1. backup'.legacy = backup.legacy
      BY <1>1, <2>3 DEF TickPrepare, Backup
    <3> QED BY <1>2, <3>1 DEF Calm
  <2> QED BY <2>1, <2>2, <2>3, BackupSteps
<1>3. CASE faults' = faults + 1 /\ UNCHANGED changes
  BY <1>1, <1>3 DEF Calm
<1>4. CASE changes' = changes + 1 /\ UNCHANGED <<faults, disk>>
  BY <1>1, <1>4 DEF Calm, CalmInv, disk
<1> QED BY <1>2, <1>3, <1>4, CountedSteps

\* A service that has its original setting back fails the verification only if
\* that setting names an address of the history.
LEMMA OriginalPasses ==
    ASSUME NEW s \in backup.names, dns[s] = backup.original[s], Depends(s)
    PROVE  ~RestoreDataIsForeign
BY DEF Depends, MayDepend, OriginalBack, RestoreDataIsForeign

\* The backup names every service while all is calm, and keeps its version.
LEMMA CalmBackup ==
    ASSUME IInv, CalmInv, Next
    PROVE  /\ backup'.legacy => changes' # 0
           /\ Calm' => off' = {} /\ (backup'.exists => backup'.names = present')
<1>1. faults \in Nat /\ changes \in Nat /\ backup \in Backup
  BY DEF IInv, MachineOK, UsedOK, DiskOK
<1>2. backup'.legacy => changes' # 0
  <2>1. backup'.legacy => backup.legacy
    <3>1. TakeOverBackup \/ RolledBack \/ Restored => ~backup'.legacy
      BY DEF TakeOverBackup, RolledBack, Restored, NoBackup
    <3>2. TickPrepare => backup'.legacy = backup.legacy
      BY <1>1 DEF TickPrepare, Backup
    <3> QED BY <3>1, <3>2, BackupSteps
  <2>2. changes' = changes \/ changes' = changes + 1
    BY CountedSteps
  <2> QED BY <1>1, <2>1, <2>2 DEF CalmInv
<1>3. ASSUME Calm' PROVE off' = {} /\ (backup'.exists => backup'.names = present')
  <2>1. Calm /\ UNCHANGED <<present, off>> /\ off = {} /\ (backup.exists => backup.names = present)
    BY <1>3, StaysCalm DEF CalmInv
  <2>2. CASE UNCHANGED backup
    BY <2>1, <2>2
  <2>3. CASE TakeOverBackup
    BY <2>1, <2>3 DEF TakeOverBackup
  <2>4. CASE RolledBack \/ Restored
    BY <2>1, <2>4 DEF RolledBack, Restored, NoBackup
  <2>5. CASE TickPrepare
    <3>1. backup'.names = backup.names \cup NewServices /\ backup'.exists = backup.exists
      BY <1>1, <2>5 DEF TickPrepare, Backup
    <3> QED BY <2>1, <3>1 DEF NewServices
  <2> QED BY <2>1, <2>2, <2>3, <2>4, <2>5, BackupSteps
<1> QED BY <1>2, <1>3

\* The steps of a restore, among those of everyone else.
LEMMA RestoreSteps ==
    ASSUME MachineOK, Next
    PROVE  \/ cli'.pc \notin RestorePc
           \/ UNCHANGED cli /\ (DaemonNext \/ World \/ ChildHangs)
           \/ \E name \in {"stop", "uninstall"} : StopBegin(name)
           \/ ReleaseBegin \/ ReleaseMarker \/ RestoreList \/ RestoreRelist
           \/ \E s \in Service : \/ RestoreSet(s) \/ RestoreSetFails(s)
                                 \/ RestoreVerify(s) \/ RestoreVerifyFails(s)
<1>0. cli \in Command
  BY DEF MachineOK, CliOK
<1> USE <1>0, IdleCliFacts DEF Goto, Finish, Begin, At, RestorePc, Command, StartPc, StopPc, RestartPc
<1>1. StartNext => cli'.pc \notin RestorePc
  BY DEF StartNext, StartPlist, StartEnable, StartBootstrap, StartProbe, StartProbeFails,
         StartBootstrapFails, TakeOverLock, TakeOverBackup, TakeOverRefused, TakeOverMark, RolledBack,
         RollBackIncomplete, CleanupBootout, CleanupPlist, TakeOverSet, TakeOverSetFails,
         RollBack, RollBackFails
<1>2. ReleaseNothing \/ ReleaseRefused \/ Restored \/ BackupRetained \/ StopDisable
        \/ StopBootout \/ UninstallFiles \/ UninstallReenable => cli'.pc \notin RestorePc
  BY DEF ReleaseNothing, ReleaseRefused, Restored, BackupRetained, StopDisable,
         StopBootout, UninstallFiles, UninstallReenable
<1>3. RestartNext \/ RestartBegin \/ (\E a \in Listener : StartInstall(a) \/ ReconfigBegin(a))
        => cli'.pc \notin RestorePc
  BY DEF RestartNext, Kick, RestartSucceeds, ReconfigReverts, RestartGivesUp,
         StartInstall, ReconfigBegin, RestartBegin
<1>4. DaemonNext => UNCHANGED cli
  BY DEF DaemonNext, DaemonStarts, TickBegin, TickPrepare, TickRefused, TickSnapshot, TickDone,
         Reassert, ReassertFails
<1>5. World => UNCHANGED cli \/ cli'.pc \notin RestorePc
  BY DEF World, CliAborts, DaemonDies, TickAborts, Reboot, Change, ServiceVanishes,
         ServiceToggled, UserSets, ServiceAppears, ServiceRenamed
<1>6. ChildHangs => UNCHANGED cli
  BY HangChanges
<1> QED BY <1>1, <1>2, <1>3, <1>4, <1>5, <1>6 DEF Next, CliNext, UserCommands, StopNext

\* While a restore holds the DNS lock no tick touches the settings or the backup.
LEMMA RestoreUndisturbed ==
    ASSUME IInv, cli.pc \in CliLocked, DaemonNext \/ World \/ ChildHangs,
           UNCHANGED <<faults, changes>>
    PROVE  UNCHANGED <<dns, backup>>
<1>1. dnsLock = "cli" /\ daemon.pc \notin TickLocked
  BY DEF IInv, LockInv
<1>2. faults' # faults + 1 /\ changes' # changes + 1
  BY DEF IInv, MachineOK, UsedOK
<1>3. CASE DaemonNext
  BY <1>1, <1>3 DEF DaemonNext, DaemonStarts, TickBegin, TickPrepare, TickRefused, TickSnapshot,
     TickDone, Reassert, ReassertFails, TickLocked, net, disk
<1>4. CASE World
  BY <1>2, <1>4 DEF World, CliAborts, DaemonDies, TickAborts, Reboot, Fault, Change,
     ServiceVanishes, ServiceToggled, UserSets, ServiceAppears, ServiceRenamed, net, disk
<1>5. CASE ChildHangs
  BY <1>5, HangChanges DEF net, disk
<1> QED BY <1>3, <1>4, <1>5

\* What a restore has done so far, after each of its steps.
LEMMA CalmRestore ==
    ASSUME IInv, CalmInv, Next
    PROVE  /\ cli'.pc \in {"rel_lock", "rel_gate", "rel_list"} => ~cli'.failed
           /\ Calm' /\ At("rel_set")' =>
                /\ ~cli'.failed /\ cli'.todo \subseteq present'
                /\ \A s \in present' \ cli'.todo : dns'[s] = backup'.original[s]
           /\ Calm' /\ At("rel_verify")' =>
                /\ cli'.todo \subseteq present'
                /\ \A s \in present' : dns'[s] = backup'.original[s]
                /\ cli'.failed => ~RestoreDataIsForeign'
<1>1. MachineOK /\ cli \in Command /\ present \subseteq Service /\ dns \in [Service -> DnsSetting]
      /\ faults \in Nat
  BY DEF IInv, MachineOK, CliOK, NetOK, UsedOK
<1>2. Calm' => Calm /\ UNCHANGED <<faults, changes, present, off>>
  BY StaysCalm
<1>3. cli.pc \in SavedPc => backup.exists
  BY DEF IInv, BackupInv
<1>4. CASE cli'.pc \notin RestorePc
  BY <1>4 DEF RestorePc, At
<1>5. CASE UNCHANGED cli /\ (DaemonNext \/ World \/ ChildHangs)
  <2>1. Calm' /\ cli.pc \in {"rel_set", "rel_verify"} =>
          Calm /\ UNCHANGED <<dns, backup, present>>
    BY <1>2, <1>5, RestoreUndisturbed DEF CliLocked
  <2> QED BY <1>5, <2>1 DEF CalmInv, At, RestoreDataIsForeign
<1>6. ASSUME NEW name \in {"stop", "uninstall"}, StopBegin(name)
      PROVE  cli'.pc = "rel_lock" /\ ~cli'.failed
  BY <1>6, IdleCliFacts DEF StopBegin, Begin, Command
<1>7. CASE ReleaseBegin \/ ReleaseMarker
  BY <1>1, <1>7 DEF ReleaseBegin, ReleaseMarker, Goto, At, CalmInv, Command
<1>8. CASE RestoreList
  <2>1. /\ cli'.pc = "rel_set" /\ cli'.failed = cli.failed
        /\ cli'.todo = backup.names \cap present
        /\ ~cli.failed /\ backup.exists
    BY <1>1, <1>3, <1>8 DEF RestoreList, At, CalmInv, Command, SavedPc
  <2>2. Calm' => cli'.todo = present' /\ present' = present
    BY <1>2, <2>1 DEF CalmInv
  <2> QED BY <2>1, <2>2 DEF At
<1>9. CASE RestoreRelist
  <2>1. cli'.pc = "rel_verify" /\ UNCHANGED <<net, disk>> /\ At("rel_set") /\ cli.todo = {}
    BY <1>1, <1>9 DEF RestoreRelist, Command
  <2>2. Calm' => cli'.todo = present /\ cli'.failed = cli.failed
    <3> SUFFICES ASSUME Calm' PROVE cli'.todo = present /\ cli'.failed = cli.failed
      OBVIOUS
    <3>1. faults' # faults + 1
      BY <1>1, <1>2
    <3>2. cli' = [cli EXCEPT !.pc = "rel_verify", !.todo = present]
      BY <1>9, <3>1 DEF RestoreRelist, Fault
    <3> QED BY <1>1, <3>2 DEF Command
  <2> QED BY <1>2, <2>1, <2>2 DEF CalmInv, At, net, disk
<1>10. ASSUME NEW s \in Service, RestoreSet(s), Calm'
       PROVE  /\ cli'.pc = "rel_set" /\ ~cli'.failed /\ cli'.todo \subseteq present'
              /\ \A r \in present' \ cli'.todo : dns'[r] = backup'.original[r]
  <2>1. /\ cli'.pc = "rel_set" /\ cli'.failed = cli.failed /\ cli'.todo = cli.todo \ {s}
        /\ At("rel_set") /\ UNCHANGED <<backup, present>>
        /\ dns' = [dns EXCEPT ![s] = backup.original[s]]
    BY <1>1, <1>10 DEF RestoreSet, Write, Command, At, disk
  <2>2. /\ ~cli.failed /\ cli.todo \subseteq present
        /\ \A r \in present \ cli.todo : dns[r] = backup.original[r]
    BY <1>2, <1>10, <2>1 DEF CalmInv
  <2> QED BY <1>1, <2>1, <2>2
<1>11. ASSUME NEW s \in Service, RestoreSetFails(s) \/ RestoreVerifyFails(s)
       PROVE  ~Calm' /\ cli'.pc \in {"rel_set", "rel_verify"}
  <2>1. cli'.pc = cli.pc /\ cli.pc \in {"rel_set", "rel_verify"} /\ s \in cli.todo
    BY <1>1, <1>11 DEF RestoreSetFails, RestoreVerifyFails, Command, At
  <2>2. s \notin present \/ Fault
    BY <1>11 DEF RestoreSetFails, RestoreVerifyFails, WriteFails
  <2>3. Calm => cli.todo \subseteq present
    BY <2>1 DEF CalmInv, At
  <2> QED BY <1>1, <1>2, <2>1, <2>2, <2>3 DEF Fault
<1>12. ASSUME NEW s \in Service, RestoreVerify(s), Calm'
       PROVE  /\ cli'.pc = "rel_verify" /\ cli'.todo \subseteq present'
              /\ \A r \in present' : dns'[r] = backup'.original[r]
              /\ cli'.failed => ~RestoreDataIsForeign'
  <2>1. /\ cli'.pc = "rel_verify" /\ cli'.failed = (cli.failed \/ Depends(s))
        /\ cli'.todo = cli.todo \ {s} /\ s \in present
        /\ At("rel_verify") /\ UNCHANGED <<backup, present, dns>>
    BY <1>1, <1>12 DEF RestoreVerify, Command, At, net, disk
  <2>2. /\ cli.todo \subseteq present /\ \A r \in present : dns[r] = backup.original[r]
        /\ cli.failed => ~RestoreDataIsForeign
        /\ s \in backup.names
    BY <1>2, <1>3, <1>12, <2>1 DEF CalmInv, At, SavedPc
  <2>3. Depends(s) => ~RestoreDataIsForeign
    BY <2>1, <2>2, OriginalPasses
  <2>4. RestoreDataIsForeign' <=> RestoreDataIsForeign
    BY <2>1 DEF RestoreDataIsForeign
  <2> QED BY <2>1, <2>2, <2>3, <2>4
<1>13. \A s \in Service : RestoreSet(s) => cli'.pc = "rel_set"
  BY <1>1 DEF RestoreSet, Command, At
<1>14. \A s \in Service : RestoreVerify(s) => cli'.pc = "rel_verify"
  BY <1>1 DEF RestoreVerify, Command, At
<1> QED BY <1>1, <1>4, <1>5, <1>6, <1>7, <1>8, <1>9, <1>10, <1>11, <1>12, <1>13, <1>14, RestoreSteps DEF At

\* It holds in every behaviour.
THEOREM CalmInvariance == Spec => []CalmInv
<1>1. Init => CalmInv
  <2> SUFFICES ASSUME Init PROVE CalmInv
    OBVIOUS
  <2>1. PICK kind \in Starts : InitKind(kind)
    BY DEF Init
  <2>2. kind \in {"fresh", "legacy", "corrupted"}
    BY ConstantsOK
  <2>3. cli.pc = "idle" /\ off = {} /\ present = InitialNames
    BY IdleCliFacts DEF Init
  <2>4. kind = "legacy" => changes = 1 /\ backup.names = InitialNames
    <3> SUFFICES ASSUME kind = "legacy" PROVE changes = 1 /\ backup.names = InitialNames
      OBVIOUS
    <3>1. changes = 1
      BY <2>1 DEF InitKind
    <3>2. \E original : backup = [exists |-> TRUE, names |-> InitialNames,
                                  original |-> original, history |-> {}, legacy |-> TRUE]
      BY <2>1 DEF InitKind
    <3> QED BY <3>1, <3>2
  <2>5. kind # "legacy" => backup = NoBackup
    BY <2>1, <2>2 DEF InitKind
  <2> QED BY <2>3, <2>4, <2>5 DEF CalmInv, At, NoBackup
<1>2. IInv /\ CalmInv /\ [Next]_vars => CalmInv'
  <2> SUFFICES ASSUME IInv, CalmInv, [Next]_vars PROVE CalmInv'
    OBVIOUS
  <2>1. CASE UNCHANGED vars
    BY <2>1 DEF vars, net, disk, used, CalmInv, Calm, At, RestoreDataIsForeign
  <2>2. CASE Next
    BY <2>2, CalmBackup, CalmRestore DEF CalmInv, At
  <2> QED BY <2>1, <2>2
<1> QED BY <1>1, <1>2, Invariance, PTL DEF Spec

\* stop refuses only for a cause: with no failure and no change from outside, a
\* restore that keeps the backup has found restore data that names a takeover
\* address.
THEOREM CalmRestores == Spec => CalmRestoreSucceeds
<1>1. ASSUME IInv, CalmInv, [Next]_vars, ~UNCHANGED vars,
             At("rel_verify"), cli'.pc = "idle", faults' = 0,
             changes = (IF backup.legacy THEN 1 ELSE 0)
      PROVE  ~RestoreDataIsForeign
  <2>1. cli \in Command /\ faults \in Nat /\ cli.pc = "rel_verify"
    BY <1>1 DEF IInv, MachineOK, CliOK, UsedOK, At
  <2>2. faults = 0
    BY <1>1, <2>1, CountedSteps
  <2>3. cli.failed
    <3>1. BackupRetained
      <4>1. ~StartNext /\ ~RestartNext /\ ~UserCommands
        BY <2>1 DEF StartNext, StartPlist, StartEnable, StartBootstrap, StartProbe, StartProbeFails,
         StartBootstrapFails, TakeOverLock, TakeOverBackup, TakeOverRefused, TakeOverMark, RolledBack,
         RollBackIncomplete, CleanupBootout, CleanupPlist, TakeOverSet, TakeOverSetFails, RollBack,
         RollBackFails, RestartNext, Kick, RestartSucceeds, ReconfigReverts, RestartGivesUp,
         UserCommands, StartInstall, ReconfigBegin, StopBegin, RestartBegin, Begin, At, RestartPc
      <4>2. ~DaemonNext
        BY <1>1, <2>1 DEF DaemonNext, DaemonStarts, TickBegin, TickPrepare, TickRefused, TickSnapshot,
           TickDone, Reassert, ReassertFails
      <4>3. ~World
        BY <1>1, <2>1 DEF World, CliAborts, DaemonDies, TickAborts, Reboot, Fault, Change,
           ServiceVanishes, ServiceToggled, UserSets, ServiceAppears, ServiceRenamed
      <4>4. ~ChildHangs
        BY <1>1, <2>1, <2>2, HangChanges
      <4>5. StopNext => BackupRetained
        BY <1>1, <2>1 DEF StopNext, ReleaseBegin, ReleaseNothing, ReleaseRefused, ReleaseMarker,
           RestoreList, RestoreRelist, Restored, RestoreSet, RestoreSetFails,
           RestoreVerify, RestoreVerifyFails, StopDisable, StopBootout, UninstallFiles,
           UninstallReenable, At, Goto, Command
      <4> QED BY <1>1, <4>1, <4>2, <4>3, <4>4, <4>5 DEF Next, CliNext
    <3> QED BY <3>1 DEF BackupRetained
  <2> QED BY <1>1, <2>2, <2>3 DEF CalmInv, Calm
<1> DEFINE Succeeds == At("rel_verify") /\ cli'.pc = "idle" /\ faults' = 0
         /\ changes = (IF backup.legacy THEN 1 ELSE 0)
         => ~RestoreDataIsForeign
<1>2. IInv /\ CalmInv /\ [Next]_vars => [Succeeds]_vars
  BY <1>1
<1> QED BY Invariance, CalmInvariance, <1>2, PTL DEF Spec, CalmRestoreSucceeds
=============================================================================
