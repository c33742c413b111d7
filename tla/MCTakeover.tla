----------------------------- MODULE MCTakeover -----------------------------
(* Small instances of Takeover for TLC. *)
EXTENDS Takeover, TLC

CONSTANTS wifi, lan, vpn, \* service names
          a1, a2,         \* loopback addresses DNSRivet listens on
          lo, isp         \* another local resolver; the network's resolver

SettingsIsp == {<<isp>>}
SettingsLocal == {<<isp>>, <<lo, isp>>}
SettingsListener == {<<isp>>, <<a2>>}

\* Among what an older release found: another local resolver, in both orders of
\* the list, and the addresses a later configuration may take over with.
SettingsOld == {<<isp, lo>>, <<lo, isp>>, <<a1>>, <<a2>>}
NoSettings == {}

\* The code treats services alike, whatever their names, and its addresses too.
\* Only the "prev" of a command that never reads it is not permuted.
Alike == {services @@ addresses : services \in Permutations({wifi, lan}),
                                  addresses \in Permutations({a1, a2})}
=============================================================================
