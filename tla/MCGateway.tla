------------------------------ MODULE MCGateway ------------------------------
(***************************************************************************)
(* Model values for Gateway: one client of one user.                       *)
(***************************************************************************)
EXTENDS Gateway, TLC

CONSTANTS c1, c2, c3, p1, p2, u1

OneUser == [c \in Conns |-> u1]

\* The client may use its sockets in any order (runs without liveness).
Alike == Permutations({c1, c2})

AnyPosition == 0..9

=============================================================================
