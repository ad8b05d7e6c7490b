--------------------------- MODULE MCTelysServer ---------------------------
(* Rows and names are model values; the liveness run uses no symmetry.           *)
EXTENDS TelysServer, TLC

CONSTANTS c1, c2, n1, n2, r1, r2

OneConn  == {c1}
TwoConns == {c1, c2}
OneName  == {n1}
TwoNames == {n1, n2}
OneRow   == {r1}
TwoRows  == {r1, r2}

Symmetric == Permutations(Conn) \cup Permutations(Name) \cup Permutations(Row)
=============================================================================
