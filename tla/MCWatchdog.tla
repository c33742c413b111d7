----------------------------- MODULE MCWatchdog -----------------------------
(* Small instances of Watchdog for TLC. *)
EXTENDS Watchdog

CONSTANTS lo,       \* the takeover address
          lan,      \* another address of this machine the proxy may listen on
          isp, vpn  \* resolvers of networks

Home == [global |-> {isp}, scoped |-> {vpn}]
Served == [global |-> {isp, lan}, scoped |-> {}]
Offline == [global |-> {}, scoped |-> {vpn}]
TwoNetworks == {Home, Offline}
AllNetworks == {Home, Served, Offline}

\* Services without lists of their own, or one that names a resolver.
ServiceLists == {{}, {vpn}}

=============================================================================
