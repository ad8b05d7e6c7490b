---------------------------- MODULE MCCollection ----------------------------
(* Batches of one or two ids, in both orders, so that a batch may mix new and    *)
(* existing ids; with repetition, the batches that give an id twice.             *)
EXTENDS Collection

CONSTANTS a, b, c, v1, v2

TwoIds   == {a, b}
ThreeIds == {a, b, c}

Single        == {<<e>> : e \in Ids}
Pairs         == {<<e, f>> : e, f \in Ids}
DistinctPairs == {p \in Pairs : p[1] # p[2]}

DistinctBatches == Single \cup DistinctPairs
AllBatches      == Single \cup Pairs

OwnStr == [e \in Ids |-> e]
(* b is the integer 5 and c the string "5".                                       *)
SameStr == [e \in Ids |-> IF e = c THEN b ELSE e]
=============================================================================
