--------------------------- MODULE MCPairingCodes ---------------------------
(* PairingCodes on a small instance: three codes, two tasks of each kind. *)
EXTENDS PairingCodes, TLC

CONSTANTS k1, k2, x1, x2, p1, p2, p3

Alike == Permutations(Commands) \cup Permutations(Exchanges) \cup Permutations(Codes)
=============================================================================
