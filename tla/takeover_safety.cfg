\* Two services and a spare name, two listener addresses and another local
\* resolver, three commands; or a takeover left by an older release, or a
\* marker without a backup, and two commands.
CONSTANTS
    wifi = wifi  lan = lan  vpn = vpn
    a1 = a1  a2 = a2  lo = lo  isp = isp
    Service = {wifi, lan, vpn}
    InitialNames = {wifi, lan}
    Address = {a1, a2, lo, isp}
    Loopback = {a1, a2, lo}
    Listener = {a1, a2}
    UserSettings <- SettingsLocal
    OldSettings <- SettingsOld
    Starts = {"fresh", "legacy", "corrupted"}
    MaxFaults = 1
    MaxChanges = 2
    MaxCommands = 3
SPECIFICATION Spec
SYMMETRY Alike
INVARIANTS RecoveryDataKept ServedWhileOurs
PROPERTIES OriginalsKept NeverRecordsOwn NeverCorrupts TakenOnlyWhenArmed VerifiedMeansSwitched CalmRestoreSucceeds
\* Commands and changes are bounded: a machine with nothing left to do stops.
CHECK_DEADLOCK FALSE
