---------------------------- MODULE MCUspReplay ----------------------------
(* Small instances of UspReplay for TLC. *)
EXTENDS UspReplay, TLC

CONSTANTS r1, r2, w1, h1, h2, h3, d1, d2

MCIds == {r1, r2, w1}
MCReads == {r1, r2}
MCHandlers == {h1, h2, h3}
MCData == {d1, d2}
MCSizes == 2 .. 3
MCParts == 1 .. 2

Symmetry == Permutations(MCHandlers) \cup Permutations(MCData) \cup Permutations(MCReads)
=============================================================================
