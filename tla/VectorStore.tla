----------------------------- MODULE VectorStore -----------------------------
(***************************************************************************)
(* What a collection promises its caller: a map from external ids to         *)
(* vectors.  A call that writes a batch touches the ids of the batch only,    *)
(* may fail half-way, and has written every one of them when it returns.  A   *)
(* crash falls back on the last completed save or, when a save was under way, *)
(* on what that save was writing.                                             *)
(***************************************************************************)
CONSTANTS Ids, Versions

VARIABLES
  store,        \* store[e]: the set of vectors visible under id e
  putting,      \* the batch being written: [ids, vec], ids = {} when none
  candidates,   \* the contents a crash may fall back on
  committed,    \* some save has returned
  up            \* the collection is open

vars == <<store, putting, candidates, committed, up>>

Empty   == [e \in Ids |-> {}]
NoBatch == {}

Init ==
  /\ store = Empty
  /\ putting.ids = NoBatch
  /\ candidates = {}
  /\ committed = FALSE
  /\ up = FALSE

Call ==
  /\ up /\ putting.ids = NoBatch
  /\ putting' \in [ids : (SUBSET Ids) \ {NoBatch}, vec : Versions]
  /\ UNCHANGED <<store, candidates, committed, up>>

Write ==
  /\ \E S \in SUBSET putting.ids :
       store' = [e \in Ids |-> IF e \in S THEN {putting.vec} ELSE store[e]]
  /\ putting'.ids = NoBatch => \A e \in putting.ids : store'[e] = {putting.vec}
  /\ putting'.ids = NoBatch \/ putting' = putting
  /\ UNCHANGED <<candidates, committed, up>>

Raise ==
  /\ putting.ids # NoBatch /\ putting'.ids = NoBatch
  /\ UNCHANGED <<store, candidates, committed, up>>

Remove ==
  /\ up /\ putting.ids = NoBatch /\ putting' = putting
  /\ \E S \in SUBSET Ids :
       store' = [e \in Ids |-> IF e \in S THEN {} ELSE store[e]]
  /\ UNCHANGED <<candidates, committed, up>>

SaveBegins ==
  /\ up /\ candidates' = candidates \cup {store}
  /\ UNCHANGED <<store, putting, committed, up>>

SaveReturns ==
  /\ up /\ candidates' = {store} /\ committed'
  /\ UNCHANGED <<store, putting, up>>

Crash ==
  /\ up /\ ~up'
  /\ store' = Empty /\ putting'.ids = NoBatch
  /\ UNCHANGED <<candidates, committed>>

(* A collection whose first save never returned is gone: it is created anew.   *)
Start ==
  /\ ~up /\ up'
  /\ \/ committed /\ store' \in candidates /\ candidates' = {store'}
     \/ ~committed /\ store' = Empty /\ candidates' = {}
  /\ UNCHANGED <<putting, committed>>

Next ==
  Call \/ Write \/ Raise \/ Remove \/ SaveBegins \/ SaveReturns \/ Crash \/ Start

Spec == Init /\ [][Next]_vars
=============================================================================
