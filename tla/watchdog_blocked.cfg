\* One rename stops the watchdog's repairs of every service.
CONSTANTS
    wifi = wifi  lan = lan  vpn = vpn
    a1 = a1  a2 = a2  lo = lo  isp = isp
    Service = {wifi, lan, vpn}
    InitialNames = {wifi, lan}
    Address = {a1, a2, lo, isp}
    Loopback = {a1, a2, lo}
    Listener = {a1}
    UserSettings <- SettingsIsp
    OldSettings <- NoSettings
    Starts = {"fresh"}
    MaxFaults = 0
    MaxChanges = 2
    MaxCommands = 1
SPECIFICATION FairSpec
PROPERTIES WatchdogAlwaysRepairs
\* Commands and changes are bounded: a machine with nothing left to do stops.
CHECK_DEADLOCK FALSE
