\* Two versions and configurations, a text that does not load; three commands.
CONSTANTS
    v1 = v1  v2 = v2  c1 = c1  c2 = c2  bad = bad
    Version = {v1, v2}
    Valid = {c1, c2}
    Invalid = {bad}
    Plist = Plist  None = None  Torn = Torn
    MaxCommands = 3
    MaxFaults = 2
    MaxChanges = 3
SPECIFICATION Spec
INVARIANTS FilesWhole InstallationComplete
PROPERTIES OthersKept
CHECK_DEADLOCK FALSE
