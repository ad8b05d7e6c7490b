------------------------------- MODULE RWLock -------------------------------
(***************************************************************************)
(* The readers-writer lock of telys/server.py, class _RWLock.  Each method   *)
(* runs under the mutex of one threading.Condition, so the body of a method *)
(* up to its return or its cond.wait() is one step.  A thread blocked in     *)
(* cond.wait() is asleep until notify_all, and then takes the mutex again    *)
(* and re-evaluates the condition of its while loop.                         *)
(***************************************************************************)
EXTENDS Naturals, FiniteSets

CONSTANT Thread                 \* the threads that share the lock

ASSUME ThreadAssumption == IsFiniteSet(Thread)

VARIABLES
  readers,         \* self._readers
  writersWaiting,  \* self._writers_waiting
  writer,          \* self._writer
  pc               \* where each thread stands with respect to the lock

vars == <<readers, writersWaiting, writer, pc>>

(* "out": does not use the lock.  "...Wait": asleep in cond.wait().          *)
(* "...Check": woken, not yet run.  "reading", "writing": holds the lock.    *)
States == {"out", "readWait", "readCheck", "reading",
           "writeWait", "writeCheck", "writing"}

Reading        == {t \in Thread : pc[t] = "reading"}
Writing        == {t \in Thread : pc[t] = "writing"}
WaitingWriters == {t \in Thread : pc[t] \in {"writeWait", "writeCheck"}}
WaitingReaders == {t \in Thread : pc[t] \in {"readWait", "readCheck"}}

-----------------------------------------------------------------------------
(* cond.notify_all(): every sleeping thread, except that t moves to next.    *)
NotifyAll(t, next) ==
  pc' = [u \in Thread |->
           CASE u = t                -> next
             [] u # t /\ pc[u] = "readWait"  -> "readCheck"
             [] u # t /\ pc[u] = "writeWait" -> "writeCheck"
             [] OTHER                -> pc[u]]

Init ==
  /\ readers = 0
  /\ writersWaiting = 0
  /\ writer = FALSE
  /\ pc = [t \in Thread |-> "out"]

-----------------------------------------------------------------------------
(* One pass through the while loop of acquire_read.                          *)
\* Mutant: a waiting writer does not hold back new readers.
TryReadIgnoringWaiters(t) ==
  \/ /\ writer
     /\ pc' = [pc EXCEPT ![t] = "readWait"]
     /\ UNCHANGED readers
  \/ /\ ~writer
     /\ readers' = readers + 1
     /\ pc' = [pc EXCEPT ![t] = "reading"]

\* Mutant: only waiting writers are looked at, not the writer inside.
TryReadIgnoringWriter(t) ==
  \/ /\ writersWaiting > 0
     /\ pc' = [pc EXCEPT ![t] = "readWait"]
     /\ UNCHANGED readers
  \/ /\ writersWaiting = 0
     /\ readers' = readers + 1
     /\ pc' = [pc EXCEPT ![t] = "reading"]

TryRead(t) ==
  \/ /\ writer \/ writersWaiting > 0
     /\ pc' = [pc EXCEPT ![t] = "readWait"]
     /\ UNCHANGED readers
  \/ /\ ~writer /\ writersWaiting = 0
     /\ readers' = readers + 1
     /\ pc' = [pc EXCEPT ![t] = "reading"]

AcquireRead(t) ==
  /\ pc[t] = "out"
  /\ TryRead(t)
  /\ UNCHANGED <<writersWaiting, writer>>

RecheckRead(t) ==
  /\ pc[t] = "readCheck"
  /\ TryRead(t)
  /\ UNCHANGED <<writersWaiting, writer>>

ReleaseRead(t) ==
  /\ pc[t] = "reading"
  /\ readers' = readers - 1
  /\ \/ readers' = 0 /\ NotifyAll(t, "out")
     \/ readers' # 0 /\ pc' = [pc EXCEPT ![t] = "out"]
  /\ UNCHANGED <<writersWaiting, writer>>

(* acquire_write: the thread counts as waiting from its first step until it *)
(* gets the lock; when it gets it at once the counter is back in one step.   *)
AcquireWrite(t) ==
  /\ pc[t] = "out"
  /\ \/ /\ writer \/ readers > 0
        /\ writersWaiting' = writersWaiting + 1
        /\ pc' = [pc EXCEPT ![t] = "writeWait"]
        /\ UNCHANGED writer
     \/ /\ ~writer /\ readers = 0
        /\ writer' = TRUE
        /\ pc' = [pc EXCEPT ![t] = "writing"]
        /\ UNCHANGED writersWaiting
  /\ UNCHANGED readers

\* Mutant: a woken writer takes the lock without re-evaluating the loop (if for while).
RecheckWriteOnce(t) ==
  /\ pc[t] = "writeCheck"
  /\ writer' = TRUE
  /\ writersWaiting' = writersWaiting - 1
  /\ pc' = [pc EXCEPT ![t] = "writing"]
  /\ UNCHANGED readers

\* Mutant: the waiting counter is decremented before the loop instead of after it.
RecheckWriteUncounted(t) ==
  /\ pc[t] = "writeCheck"
  /\ writersWaiting' = writersWaiting - 1
  /\ \/ /\ writer \/ readers > 0
        /\ pc' = [pc EXCEPT ![t] = "writeWait"]
        /\ UNCHANGED writer
     \/ /\ ~writer /\ readers = 0
        /\ writer' = TRUE
        /\ pc' = [pc EXCEPT ![t] = "writing"]
  /\ UNCHANGED readers

RecheckWrite(t) ==
  /\ pc[t] = "writeCheck"
  /\ \/ /\ writer \/ readers > 0
        /\ pc' = [pc EXCEPT ![t] = "writeWait"]
        /\ UNCHANGED <<writersWaiting, writer>>
     \/ /\ ~writer /\ readers = 0
        /\ writer' = TRUE
        /\ writersWaiting' = writersWaiting - 1
        /\ pc' = [pc EXCEPT ![t] = "writing"]
  /\ UNCHANGED readers

\* Mutant: release_write forgets to notify.
ReleaseWriteSilent(t) ==
  /\ pc[t] = "writing"
  /\ writer' = FALSE
  /\ pc' = [pc EXCEPT ![t] = "out"]
  /\ UNCHANGED <<readers, writersWaiting>>

\* Mutant: release_write hands over to writers only and leaves readers asleep.
ReleaseWriteToWriters(t) ==
  /\ pc[t] = "writing"
  /\ writer' = FALSE
  /\ pc' = [u \in Thread |->
              IF u = t THEN "out"
              ELSE IF pc[u] = "writeWait" THEN "writeCheck" ELSE pc[u]]
  /\ UNCHANGED <<readers, writersWaiting>>

ReleaseWrite(t) ==
  /\ pc[t] = "writing"
  /\ writer' = FALSE
  /\ NotifyAll(t, "out")
  /\ UNCHANGED <<readers, writersWaiting>>

Next ==
  \E t \in Thread :
    \/ AcquireRead(t) \/ RecheckRead(t) \/ ReleaseRead(t)
    \/ AcquireWrite(t) \/ RecheckWrite(t) \/ ReleaseWrite(t)

Spec == Init /\ [][Next]_vars

(* A woken thread is scheduled again, and a holder releases: the server      *)
(* releases in a finally block and no operation waits for another client.    *)
(* Nothing obliges a thread to ask for the lock.                             *)
Fairness ==
  \A t \in Thread :
    /\ WF_vars(RecheckRead(t)) /\ WF_vars(ReleaseRead(t))
    /\ WF_vars(RecheckWrite(t)) /\ WF_vars(ReleaseWrite(t))

FairSpec == Spec /\ Fairness

-----------------------------------------------------------------------------
TypeOK ==
  /\ readers \in Nat
  /\ writersWaiting \in Nat
  /\ writer \in BOOLEAN
  /\ pc \in [Thread -> States]

(* A thread inside the write section is alone: no other thread writes and no *)
(* thread reads.  This is what the server relies on when it mutates the id   *)
(* map of a collection under acquire_write.                                  *)
MutualExclusion ==
  \A t \in Writing : Writing = {t} /\ Reading = {}

(* The counters describe the threads: a reader or waiting writer missed or    *)
(* counted twice would block the lock for ever or open it too early.          *)
CountersAgree ==
  /\ readers = Cardinality(Reading)
  /\ writersWaiting = Cardinality(WaitingWriters)
  /\ writer <=> Writing # {}

(* No lost wake-up: whoever sleeps has someone left who will call notify_all. *)
(* A sleeping writer waits for a holder; a sleeping reader for the writer     *)
(* inside or for a waiting writer, which release_write wakes both.            *)
NoLostWakeup ==
  /\ (\E t \in Thread : pc[t] = "writeWait") => writer \/ readers > 0
  /\ (\E t \in Thread : pc[t] = "readWait")  => writer \/ writersWaiting > 0

(* The strengthening of the three that is inductive.                          *)
IInv == TypeOK /\ MutualExclusion /\ CountersAgree /\ NoLostWakeup

(* A reader does not enter past a writer that waits (writer preference): a    *)
(* step that makes a thread a reader starts with no writer waiting.           *)
NoReaderOvertakes ==
  [][\A t \in Thread :
       pc[t] # "reading" /\ pc'[t] = "reading" => WaitingWriters = {}]_vars

(* Writer preference pays: when a writer waits, some writer gets the lock,    *)
(* however many readers keep coming.                                          *)
WriterServed == (WaitingWriters # {}) ~> writer

(* Once writers stop coming, every waiting reader gets in: the wake-up of      *)
(* release_write reaches readers that slept through any number of writers.     *)
ReaderServed ==
  <>[](WaitingWriters = {} /\ Writing = {}) =>
    \A t \in Thread : (t \in WaitingReaders) ~> (pc[t] = "reading")

-----------------------------------------------------------------------------
(* The lock implements the abstract one: waiting is invisible.               *)
Abstract == INSTANCE SharedExclusive WITH
  holds <- [t \in Thread |->
              CASE pc[t] = "reading" -> "shared"
                [] pc[t] = "writing" -> "exclusive"
                [] OTHER             -> "none"]

ImplementsSharedExclusive == Abstract!Spec
=============================================================================
