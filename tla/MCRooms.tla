------------------------------- MODULE MCRooms -------------------------------
(* Rooms on small instances. *)
EXTENDS Rooms, TLC

CONSTANTS u1, u2, c1, c2

ScreenRequests == {{}, {"screen"}}
WatchRequests == {{}}

UserSymmetry == Permutations({u1, u2})
=============================================================================
