--------------------------- MODULE MCGatewayServer ---------------------------
(***************************************************************************)
(* Model values for GatewayServer.                                         *)
(***************************************************************************)
EXTENDS GatewayServer, TLC

CONSTANTS c1, c2, c3, p1, p2, u1, u2

\* Every connection authenticates as one user.
OneUser == [c \in Conns |-> u1]

\* c1 and c2 are one user's devices, any other connection is somebody else's.
TwoUsers == [c \in Conns |-> IF c \in {c1, c2} THEN u1 ELSE u2]

\* The devices of one user are alike, and so are publishers (runs without liveness).
Alike == Permutations({c1, c2}) \cup Permutations(Publishers)

FewPositions == {1, 3}

=============================================================================
