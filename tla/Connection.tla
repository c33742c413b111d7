----------------------------- MODULE Connection -----------------------------
(***************************************************************************)
(* What an upstream's connection slot promises the queries that share it,  *)
(* without locks, leases or queries: connections come one at a time and    *)
(* are numbered; a new one is opened only when none is live and no         *)
(* cooldown runs; a cooldown starts only when a connection or a dial fails *)
(* and lasts until it expires; each failure of a connection or a dial      *)
(* counts once, however many queries notice it, and a connection ends the  *)
(* count.                                                                  *)
(***************************************************************************)
EXTENDS Naturals

CONSTANT MaxShift     \* more failures than these make no longer cooldown

VARIABLES generation, \* number of the last connection
          status,     \* of the slot: "empty", "live" or "cooling"
          failures    \* in a row

vars == <<generation, status, failures>>

Fails == /\ status' = "cooling"
         /\ failures' = IF failures < MaxShift THEN failures + 1 ELSE failures
         /\ UNCHANGED generation

Open == /\ status = "empty" /\ status' = "live"
        /\ generation' = generation + 1
        /\ failures' = 0

DialFails == status = "empty" /\ Fails

ConnectionFails == status = "live" /\ Fails

\* The connection is dropped without blame.
Drop == /\ status = "live" /\ status' = "empty"
        /\ UNCHANGED <<generation, failures>>

CooldownExpires == /\ status = "cooling" /\ status' = "empty"
                   /\ UNCHANGED <<generation, failures>>

Init == generation = 0 /\ status = "empty" /\ failures = 0
Next == Open \/ DialFails \/ ConnectionFails \/ Drop \/ CooldownExpires
Spec == Init /\ [][Next]_vars
=============================================================================
