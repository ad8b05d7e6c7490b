---------------------------- MODULE MCRepoIndex ----------------------------
(* The chunks of a version are those of _chunk_text for its lines, in windows of five     *)
(* lines that overlap by one. The second version is shorter than the first, whose middle   *)
(* chunk is blank: an edit can leave a row too many, and fill a gap.                     *)
EXTENDS RepoIndex, Chunking

CONSTANTS f1, p1, p2, c1, c2

OneFile  == {f1}
OneProc  == {p1}
TwoProcs == {p1, p2}
OneColl  == {c1}
TwoColls == {c1, c2}

Lines     == [v \in 1..MaxEdits |-> IF v > 3 THEN 0 ELSE 17 - 4 * v]
Blank     == [v \in 1..MaxEdits |-> IF v = 1 THEN {1} ELSE {}]
Shrinking == [v \in 1..MaxEdits |->
                {i \in 0..Lines[v] : i < Cardinality(ChunkText("windowed", Lines[v], 5, 1))} \ Blank[v]]

(* The versions whose chunks are right for windows of up to five lines and overlaps up to   *)
(* more than the window.                                                       *)
WellCut == {v \in 1..MaxEdits : \A window \in 1..5, overlap \in 0..6 : ChunksOf(Lines[v], window, overlap)}

(* No line of a version that was written is left out of its chunks, and no chunk is      *)
(* empty, past the end or part of another (_chunk_text).                             *)
ChunksCover == 1..edits \subseteq WellCut
=============================================================================
