---------------------------- MODULE RequestReply ----------------------------
(* What a connection to the server promises (client.py, "one in-flight           *)
(* request/response per connection"): calls are asked one at a time; a call is     *)
(* executed at most once and only after it was asked; it returns with the reply to  *)
(* its own request, or is refused without having been executed, or fails, and then  *)
(* it may or may not have been executed, even later.                           *)
EXTENDS Integers

CONSTANT MaxCalls

VARIABLES
  asked,     \* the number of calls asked so far: calls are 1..asked
  waiting,   \* the last of them has not returned
  done,      \* the calls the server has executed
  outcome    \* how each call ended
rrvars == <<asked, waiting, done, outcome>>

Calls == 1..MaxCalls

Init == asked = 0 /\ waiting = FALSE /\ done = {} /\ outcome = [i \in Calls |-> "none"]

Ask ==
  /\ ~waiting /\ asked < MaxCalls
  /\ asked' = asked + 1 /\ waiting' = TRUE
  /\ UNCHANGED <<done, outcome>>

Execute(i) ==
  /\ i <= asked /\ i \notin done /\ outcome[i] \in {"none", "failed"}
  /\ done' = done \cup {i}
  /\ UNCHANGED <<asked, waiting, outcome>>

Return(o) ==
  /\ waiting /\ waiting' = FALSE
  /\ o = "own" => asked \in done
  /\ o = "refused" => asked \notin done
  /\ outcome' = [outcome EXCEPT ![asked] = o]
  /\ UNCHANGED <<asked, done>>

Next == Ask \/ (\E i \in Calls : Execute(i)) \/ (\E o \in {"own", "refused", "failed"} : Return(o))

Spec == Init /\ [][Next]_rrvars
=============================================================================
