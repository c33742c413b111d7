\* The constants of the code: 30 minutes are 15 times two.
CONSTANTS
    lo = lo  lan = lan  isp = isp  vpn = vpn
    Address = {lo, lan, isp, vpn}
    Server = lo
    Listeners = {lo}
    Unusable = {lo}
    Networks <- AllNetworks
    Lists <- ServiceLists
    Slow = 15
    FlapWindow = 3
    FlapStrikes = 3
    MaxChanges = 2
    MaxFaults = 2
SPECIFICATION FairSpec
INVARIANTS CorrectionsBounded
PROPERTIES CalmRestoresCadence CorrectionLearnsNetwork FallbackKept
