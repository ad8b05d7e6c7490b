------------------------------ MODULE Chunking ------------------------------
(* How index_repo cuts a file into records (mcp.py, _chunk_text): windows of lines that    *)
(* overlap. Only the line numbers are modelled; the arguments are those of the tool call,    *)
(* and the code checks none of them.                                             *)
EXTENDS Integers

\* Mutant: an overlap one line short.
StepOfOne(window, overlap) == IF window - overlap > 0 THEN window - overlap + 1 ELSE 1

(* What range(0, n, step) steps by.                                              *)
StepOf(window, overlap) == IF window - overlap > 1 THEN window - overlap ELSE 1

ReachesEnd(start, n, window) == start + window >= n

(* Where a window begins: the multiples of the step, up to the first whose window reaches     *)
(* the end of the text.                                                        *)
Starts(n, window, overlap) ==
  LET step == StepOf(window, overlap) IN
  {s \in {k * step : k \in 0..n} :
     s < n /\ \A k \in 0..n : k * step < s => ~ReachesEnd(k * step, n, window)}

WindowAt(s, n, window) ==
  [first |-> s + 1, last |-> IF ReachesEnd(s, n, window) THEN n ELSE s + window]

(* The records of a text of n lines.                                             *)
ChunkText(mode, n, window, overlap) ==
  IF n = 0 THEN {}
  ELSE IF mode = "file" THEN {[first |-> 1, last |-> n]}
  ELSE {WindowAt(s, n, window) : s \in Starts(n, window, overlap)}

-----------------------------------------------------------------------------
(* No line of the text is left out of the index.                                   *)
Covers(C, n) == \A l \in 1..n : \E c \in C : c.first <= l /\ l <= c.last

(* Every record has lines, all of the text, and none is part of another.              *)
Proper(C, n) ==
  /\ \A c \in C : 1 <= c.first /\ c.first <= c.last /\ c.last <= n
  /\ \A c, d \in C : c.first <= d.first /\ d.last <= c.last => c = d

(* For windows of at least one line and no negative overlap.                          *)
ChunksOf(n, window, overlap) ==
  LET C == ChunkText("windowed", n, window, overlap) IN Covers(C, n) /\ Proper(C, n)
=============================================================================
