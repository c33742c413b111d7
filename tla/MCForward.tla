----------------------------- MODULE MCForward ------------------------------
(* Small instances of Forward for TLC. *)
EXTENDS Forward

CONSTANTS q1, q2

=============================================================================
