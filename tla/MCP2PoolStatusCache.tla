------------------------- MODULE MCP2PoolStatusCache -------------------------
(* Small instances of the status cache for TLC.                            *)
EXTENDS P2PoolStatusCache, TLC

CONSTANTS s1, s2

MCStats == {s1, s2}

(* The two stats documents play the same role.                             *)
MCSymmetry == Permutations(MCStats)

====
