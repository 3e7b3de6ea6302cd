------------------------------- MODULE MCAccount -------------------------------
(* Account for TLC. *)
EXTENDS Account, TLC

\* Tasks and handlers are told apart by nothing but what they do.
Alike == Permutations(Tasks) \cup Permutations(Handlers)

=============================================================================
