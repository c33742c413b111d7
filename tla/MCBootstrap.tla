---------------------------- MODULE MCBootstrap -----------------------------
(* Small instances of Bootstrap for TLC. *)
EXTENDS Bootstrap

CONSTANTS c1, c2, c3, \* callers
          v4, both    \* address stacks

=============================================================================
