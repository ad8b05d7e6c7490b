---------------------------- MODULE MCMcpMemory ----------------------------
(* Two processes and two ids: one call of each overlaps the other's.             *)
EXTENDS McpMemory, TLC

CONSTANTS p1, p2, a, b

TwoProcs  == {p1, p2}
TwoIds    == {a, b}
Symmetric == Permutations(Proc) \cup Permutations(Id)
=============================================================================
