----------------------------- MODULE MCShareCore -----------------------------
(* ShareCore on small instances. *)
EXTENDS ShareCore

CONSTANTS r1
=============================================================================
