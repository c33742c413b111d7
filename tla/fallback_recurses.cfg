\* The proxy also listens on an address of the local network.
CONSTANTS
    lo = lo  lan = lan  isp = isp  vpn = vpn
    Address = {lo, lan, isp, vpn}
    Server = lo
    Listeners = {lo, lan}
    Unusable = {lo}
    Networks <- AllNetworks
    Lists <- ServiceLists
    Slow = 15
    FlapWindow = 3
    FlapStrikes = 3
    MaxChanges = 2
    MaxFaults = 2
SPECIFICATION Spec
INVARIANTS FallbackNeverRecurses
