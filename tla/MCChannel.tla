----------------------------- MODULE MCChannel ------------------------------
(* Small instances of Channel for TLC. *)
EXTENDS Channel

CONSTANTS q1, q2

=============================================================================
