----------------------------- MODULE MCLiveTags -----------------------------
(* LiveTags on a small instance: the rooms of two guilds share a queue of one. *)
EXTENDS LiveTags, TLC

CONSTANTS r1, r2, g1, g2, u1, n1

OneRoomEach == r1 :> g1 @@ r2 :> g2
=============================================================================
