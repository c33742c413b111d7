\* Commands end and drift is repaired under the scheduling of the code.
CONSTANTS
    wifi = wifi  lan = lan  vpn = vpn
    a1 = a1  a2 = a2  lo = lo  isp = isp
    Service = {wifi, vpn}
    InitialNames = {wifi}
    Address = {a1, a2, lo, isp}
    Loopback = {a1, a2, lo}
    Listener = {a1, a2}
    UserSettings <- SettingsIsp
    OldSettings <- NoSettings
    Starts = {"fresh"}
    MaxFaults = 1
    MaxChanges = 1
    MaxCommands = 2
SPECIFICATION FairSpec
PROPERTIES CommandsEnd WatchdogRepairs
\* Commands and changes are bounded: a machine with nothing left to do stops.
CHECK_DEADLOCK FALSE
