--------------------------- MODULE SharedExclusive ---------------------------
(***************************************************************************)
(* What a readers-writer lock promises: a thread holds the lock in shared   *)
(* or in exclusive mode or not at all, any number of threads may share it,  *)
(* and an exclusive holder is alone.  How a thread waits is not said here.  *)
(***************************************************************************)
CONSTANT Thread

VARIABLE holds          \* holds[t]: the mode in which t holds the lock

Modes == {"none", "shared", "exclusive"}

Init == holds = [t \in Thread |-> "none"]

Share(t) ==
  /\ holds[t] = "none"
  /\ \A u \in Thread : holds[u] # "exclusive"
  /\ holds' = [holds EXCEPT ![t] = "shared"]

Exclude(t) ==
  /\ \A u \in Thread : holds[u] = "none"
  /\ holds' = [holds EXCEPT ![t] = "exclusive"]

Release(t) ==
  /\ holds[t] # "none"
  /\ holds' = [holds EXCEPT ![t] = "none"]

Next == \E t \in Thread : Share(t) \/ Exclude(t) \/ Release(t)

Spec == Init /\ [][Next]_holds
=============================================================================
