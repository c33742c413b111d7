\* A listener address moves to one that recorded settings list.
CONSTANTS
    wifi = wifi  lan = lan  vpn = vpn
    a1 = a1  a2 = a2  lo = lo  isp = isp
    Service = {wifi}
    InitialNames = {wifi}
    Address = {a1, a2, lo, isp}
    Loopback = {a1, a2, lo}
    Listener = {a1, a2}
    UserSettings <- SettingsListener
    OldSettings <- NoSettings
    Starts = {"fresh"}
    MaxFaults = 0
    MaxChanges = 0
    MaxCommands = 2
SPECIFICATION Spec
INVARIANTS RestoreDataIsForeign
\* Commands and changes are bounded: a machine with nothing left to do stops.
CHECK_DEADLOCK FALSE
