----------------------------- MODULE MCInstall ------------------------------
(* Small instances of Install for TLC. *)
EXTENDS Install

CONSTANTS v1, v2, \* versions
          c1, c2, bad \* configurations
=============================================================================
