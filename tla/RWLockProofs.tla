---------------------------- MODULE RWLockProofs ----------------------------
(***************************************************************************)
(* What holds of the readers-writer lock for every finite set of threads:    *)
(* its invariants, that no reader overtakes a waiting writer, and that it    *)
(* implements the abstract shared/exclusive lock.                            *)
(***************************************************************************)
EXTENDS RWLock, FiniteSetTheorems, TLAPS

(* Adding a thread to one of the groups, or taking it out, moves its size by *)
(* one.                                                                      *)
LEMMA GroupSizes ==
  ASSUME NEW S \in SUBSET Thread, NEW t \in Thread
  PROVE  /\ Cardinality(S) \in Nat
         /\ Cardinality(S) = 0 <=> S = {}
         /\ t \notin S => Cardinality(S \cup {t}) = Cardinality(S) + 1
         /\ t \in S => /\ Cardinality(S \ {t}) = Cardinality(S) - 1
                       /\ Cardinality(S) > 0
<1>1. IsFiniteSet(S)
  BY ThreadAssumption, FS_Subset
<1>2. Cardinality(S) \in Nat /\ (Cardinality(S) = 0 <=> S = {})
  BY <1>1, FS_CardinalityType, FS_EmptySet
<1>3. t \notin S => Cardinality(S \cup {t}) = Cardinality(S) + 1
  BY <1>1, FS_AddElement
<1>4. t \in S => Cardinality(S \ {t}) = Cardinality(S) - 1
  BY <1>1, FS_RemoveElement
<1>5. t \in S => Cardinality(S) > 0
  BY <1>2
<1>6. QED
  BY <1>2, <1>3, <1>4, <1>5

LEMMA GroupsAreThreads ==
  /\ Reading \in SUBSET Thread
  /\ WaitingWriters \in SUBSET Thread
  /\ Writing \in SUBSET Thread
BY DEF Reading, WaitingWriters, Writing

LEMMA InitInv == Init => IInv
<1> SUFFICES ASSUME Init PROVE IInv
  OBVIOUS
<1>1. Reading = {} /\ Writing = {} /\ WaitingWriters = {}
  BY DEF Init, Reading, Writing, WaitingWriters
<1>2. TypeOK
  BY DEF Init, TypeOK, States
<1>3. CountersAgree
  BY <1>1, FS_EmptySet DEF CountersAgree, Init
<1>4. MutualExclusion /\ NoLostWakeup
  BY <1>1 DEF MutualExclusion, NoLostWakeup, Init
<1>5. QED
  BY <1>2, <1>3, <1>4 DEF IInv

-----------------------------------------------------------------------------
(* A pass of the read loop either falls asleep, with a writer inside or      *)
(* waiting, or adds the thread to the readers, with no writer inside.         *)
LEMMA TryReadKeepsInv ==
  ASSUME IInv, NEW t \in Thread, pc[t] \in {"out", "readCheck"}, TryRead(t),
         UNCHANGED <<writersWaiting, writer>>
  PROVE  IInv'
<1> USE DEF IInv
<1>1. CASE /\ writer \/ writersWaiting > 0
           /\ pc' = [pc EXCEPT ![t] = "readWait"]
           /\ UNCHANGED readers
  <2>1. TypeOK'
    BY <1>1 DEF TypeOK, States
  <2>2. Reading' = Reading /\ Writing' = Writing /\ WaitingWriters' = WaitingWriters
    BY <1>1 DEF TypeOK, Reading, Writing, WaitingWriters
  <2>3. MutualExclusion' /\ CountersAgree'
    BY <1>1, <2>2 DEF MutualExclusion, CountersAgree
  <2>4. NoLostWakeup'
    BY <1>1 DEF NoLostWakeup, TypeOK
  <2>5. QED
    BY <2>1, <2>3, <2>4
<1>2. CASE /\ ~writer /\ writersWaiting = 0
           /\ readers' = readers + 1
           /\ pc' = [pc EXCEPT ![t] = "reading"]
  <2>1. TypeOK'
    BY <1>2 DEF TypeOK, States
  <2>2. /\ Reading' = Reading \cup {t} /\ t \notin Reading
        /\ Writing' = Writing /\ WaitingWriters' = WaitingWriters
    BY <1>2 DEF TypeOK, Reading, Writing, WaitingWriters
  <2>3. Writing' = {}
    BY <1>2, <2>2 DEF CountersAgree
  <2>4. MutualExclusion'
    BY <2>3 DEF MutualExclusion
  <2>5. CountersAgree'
    BY <1>2, <2>2, GroupSizes, GroupsAreThreads DEF CountersAgree
  <2>6. NoLostWakeup'
    BY <1>2 DEF NoLostWakeup, TypeOK
  <2>7. QED
    BY <2>1, <2>4, <2>5, <2>6
<1>3. QED
  BY <1>1, <1>2 DEF TryRead

LEMMA ReleaseReadKeepsInv ==
  ASSUME IInv, NEW t \in Thread, ReleaseRead(t)
  PROVE  IInv'
<1> USE DEF IInv
<1>1. t \in Reading /\ Writing = {} /\ ~writer
  BY DEF ReleaseRead, Reading, MutualExclusion, CountersAgree
<1>2. readers > 0 /\ readers' = readers - 1 /\ readers' \in Nat
  <2>1. Cardinality(Reading) > 0
    BY <1>1, GroupSizes, GroupsAreThreads
  <2>2. QED
    BY <2>1 DEF ReleaseRead, CountersAgree, TypeOK
<1>3. TypeOK'
  BY <1>2 DEF ReleaseRead, NotifyAll, TypeOK, States
<1>4. /\ Reading' = Reading \ {t}
      /\ Writing' = Writing /\ WaitingWriters' = WaitingWriters
  BY DEF ReleaseRead, NotifyAll, TypeOK, Reading, Writing, WaitingWriters
<1>5. MutualExclusion'
  BY <1>1, <1>4 DEF MutualExclusion
<1>6. CountersAgree'
  BY <1>1, <1>2, <1>4, GroupSizes, GroupsAreThreads DEF CountersAgree, ReleaseRead
<1>7. NoLostWakeup'
  <2>1. CASE readers' = 0
    BY <2>1, <1>2 DEF ReleaseRead, NotifyAll, NoLostWakeup, TypeOK
  <2>2. CASE readers' # 0
    BY <2>2, <1>2 DEF ReleaseRead, NoLostWakeup, TypeOK
  <2>3. QED
    BY <2>1, <2>2
<1>8. QED
  BY <1>3, <1>5, <1>6, <1>7

LEMMA AcquireWriteKeepsInv ==
  ASSUME IInv, NEW t \in Thread, AcquireWrite(t)
  PROVE  IInv'
<1> USE DEF IInv
<1>1. CASE /\ writer \/ readers > 0
           /\ writersWaiting' = writersWaiting + 1
           /\ pc' = [pc EXCEPT ![t] = "writeWait"]
           /\ UNCHANGED writer
  <2>1. TypeOK' /\ readers' = readers /\ pc[t] = "out"
    BY <1>1 DEF AcquireWrite, TypeOK, States
  <2>2. /\ Reading' = Reading /\ Writing' = Writing
        /\ WaitingWriters' = WaitingWriters \cup {t} /\ t \notin WaitingWriters
    BY <1>1, <2>1 DEF TypeOK, Reading, Writing, WaitingWriters
  <2>3. MutualExclusion' /\ CountersAgree'
    BY <1>1, <2>1, <2>2, GroupSizes, GroupsAreThreads DEF MutualExclusion, CountersAgree
  <2>4. NoLostWakeup'
    BY <1>1, <2>1 DEF NoLostWakeup, TypeOK
  <2>5. QED
    BY <2>1, <2>3, <2>4
<1>2. CASE /\ ~writer /\ readers = 0
           /\ writer' = TRUE
           /\ pc' = [pc EXCEPT ![t] = "writing"]
           /\ UNCHANGED writersWaiting
  <2>1. TypeOK' /\ readers' = readers /\ pc[t] = "out"
    BY <1>2 DEF AcquireWrite, TypeOK, States
  <2>2. Reading = {} /\ Writing = {}
    BY <1>2, GroupSizes, GroupsAreThreads DEF CountersAgree
  <2>3. Reading' = {} /\ Writing' = {t} /\ WaitingWriters' = WaitingWriters
    BY <1>2, <2>1, <2>2 DEF TypeOK, Reading, Writing, WaitingWriters
  <2>4. MutualExclusion' /\ CountersAgree'
    BY <1>2, <2>1, <2>2, <2>3 DEF MutualExclusion, CountersAgree
  <2>5. NoLostWakeup'
    BY <1>2 DEF NoLostWakeup
  <2>6. QED
    BY <2>1, <2>4, <2>5
<1>3. QED
  BY <1>1, <1>2 DEF AcquireWrite

LEMMA RecheckWriteKeepsInv ==
  ASSUME IInv, NEW t \in Thread, RecheckWrite(t)
  PROVE  IInv'
<1> USE DEF IInv
<1>0. pc[t] = "writeCheck" /\ t \in WaitingWriters /\ readers' = readers
  BY DEF RecheckWrite, WaitingWriters
<1>1. CASE /\ writer \/ readers > 0
           /\ pc' = [pc EXCEPT ![t] = "writeWait"]
           /\ UNCHANGED <<writersWaiting, writer>>
  <2>1. TypeOK'
    BY <1>0, <1>1 DEF TypeOK, States
  <2>2. Reading' = Reading /\ Writing' = Writing /\ WaitingWriters' = WaitingWriters
    BY <1>0, <1>1 DEF TypeOK, Reading, Writing, WaitingWriters
  <2>3. MutualExclusion' /\ CountersAgree'
    BY <1>0, <1>1, <2>2 DEF MutualExclusion, CountersAgree
  <2>4. NoLostWakeup'
    BY <1>0, <1>1 DEF NoLostWakeup, TypeOK
  <2>5. QED
    BY <2>1, <2>3, <2>4
<1>2. CASE /\ ~writer /\ readers = 0
           /\ writer' = TRUE
           /\ writersWaiting' = writersWaiting - 1
           /\ pc' = [pc EXCEPT ![t] = "writing"]
  <2>1. writersWaiting > 0 /\ writersWaiting' \in Nat
    <3>1. Cardinality(WaitingWriters) > 0
      BY <1>0, GroupSizes, GroupsAreThreads
    <3>2. QED
      BY <1>2, <3>1 DEF CountersAgree, TypeOK
  <2>2. TypeOK'
    BY <1>0, <1>2, <2>1 DEF TypeOK, States
  <2>3. Reading = {} /\ Writing = {}
    BY <1>2, GroupSizes, GroupsAreThreads DEF CountersAgree
  <2>4. Reading' = {} /\ Writing' = {t} /\ WaitingWriters' = WaitingWriters \ {t}
    BY <1>0, <1>2, <2>3 DEF TypeOK, Reading, Writing, WaitingWriters
  <2>5. MutualExclusion' /\ CountersAgree'
    BY <1>0, <1>2, <2>3, <2>4, GroupSizes, GroupsAreThreads
       DEF MutualExclusion, CountersAgree
  <2>6. NoLostWakeup'
    BY <1>2 DEF NoLostWakeup
  <2>7. QED
    BY <2>2, <2>5, <2>6
<1>3. QED
  BY <1>1, <1>2 DEF RecheckWrite

LEMMA ReleaseWriteKeepsInv ==
  ASSUME IInv, NEW t \in Thread, ReleaseWrite(t)
  PROVE  IInv'
<1> USE DEF IInv
<1>1. Writing = {t} /\ Reading = {}
  BY DEF ReleaseWrite, Writing, MutualExclusion
<1>2. TypeOK'
  BY DEF ReleaseWrite, NotifyAll, TypeOK, States
<1>3. Reading' = {} /\ Writing' = {} /\ WaitingWriters' = WaitingWriters
  BY <1>1 DEF ReleaseWrite, NotifyAll, TypeOK, Reading, Writing, WaitingWriters
<1>4. MutualExclusion' /\ CountersAgree'
  BY <1>1, <1>3 DEF ReleaseWrite, MutualExclusion, CountersAgree
<1>5. NoLostWakeup'
  BY DEF ReleaseWrite, NotifyAll, NoLostWakeup
<1>6. QED
  BY <1>2, <1>4, <1>5

LEMMA NextInv == IInv /\ [Next]_vars => IInv'
<1> SUFFICES ASSUME IInv, [Next]_vars PROVE IInv'
  OBVIOUS
<1>1. CASE UNCHANGED vars
  BY <1>1 DEF vars, IInv, TypeOK, MutualExclusion, CountersAgree, NoLostWakeup,
              Reading, Writing, WaitingWriters
<1>2. CASE Next
  <2> SUFFICES ASSUME NEW t \in Thread,
                      \/ AcquireRead(t) \/ RecheckRead(t) \/ ReleaseRead(t)
                      \/ AcquireWrite(t) \/ RecheckWrite(t) \/ ReleaseWrite(t)
               PROVE  IInv'
    BY <1>2 DEF Next
  <2>1. CASE AcquireRead(t)
    BY <2>1, TryReadKeepsInv DEF AcquireRead
  <2>2. CASE RecheckRead(t)
    BY <2>2, TryReadKeepsInv DEF RecheckRead
  <2>3. CASE ReleaseRead(t)
    BY <2>3, ReleaseReadKeepsInv
  <2>4. CASE AcquireWrite(t)
    BY <2>4, AcquireWriteKeepsInv
  <2>5. CASE RecheckWrite(t)
    BY <2>5, RecheckWriteKeepsInv
  <2>6. CASE ReleaseWrite(t)
    BY <2>6, ReleaseWriteKeepsInv
  <2>7. QED
    BY <2>1, <2>2, <2>3, <2>4, <2>5, <2>6
<1>3. QED
  BY <1>1, <1>2

(* The conjunction of the invariants holds in every reachable state.          *)
THEOREM Invariance == Spec => []IInv
BY InitInv, NextInv, PTL DEF Spec

(* The counters stay natural numbers: none is ever decremented below zero.    *)
THEOREM TypeCorrect == Spec => []TypeOK
<1>1. IInv => TypeOK
  BY DEF IInv
<1>2. QED
  BY <1>1, Invariance, PTL

(* A writer inside the lock is alone, for any number of threads.              *)
THEOREM WriterIsAlone == Spec => []MutualExclusion
<1>1. IInv => MutualExclusion
  BY DEF IInv
<1>2. QED
  BY <1>1, Invariance, PTL

(* No thread sleeps in cond.wait() with nobody left to wake it.               *)
THEOREM NobodySleepsForgotten == Spec => []NoLostWakeup
<1>1. IInv => NoLostWakeup
  BY DEF IInv
<1>2. QED
  BY <1>1, Invariance, PTL

-----------------------------------------------------------------------------
(* A thread becomes a reader only when no writer waits.                       *)
LEMMA StepOvertakes ==
  ASSUME IInv, [Next]_vars, NEW t \in Thread,
         pc[t] # "reading", pc'[t] = "reading"
  PROVE  WaitingWriters = {}
<1>1. pc \in [Thread -> States]
  BY DEF IInv, TypeOK
<1>2. pc' # pc
  OBVIOUS
<1>3. PICK u \in Thread :
         \/ AcquireRead(u) \/ RecheckRead(u) \/ ReleaseRead(u)
         \/ AcquireWrite(u) \/ RecheckWrite(u) \/ ReleaseWrite(u)
  BY <1>2 DEF Next, vars
<1>4. CASE AcquireRead(u) \/ RecheckRead(u)
  <2>1. writersWaiting = 0
    BY <1>1, <1>4 DEF AcquireRead, RecheckRead, TryRead
  <2>2. QED
    BY <2>1, GroupSizes, GroupsAreThreads DEF IInv, CountersAgree
<1>5. CASE ReleaseRead(u) \/ AcquireWrite(u) \/ RecheckWrite(u) \/ ReleaseWrite(u)
  BY <1>1, <1>5 DEF ReleaseRead, AcquireWrite, RecheckWrite, ReleaseWrite, NotifyAll
<1>6. QED
  BY <1>3, <1>4, <1>5

(* Writer preference for every set of threads.                                *)
THEOREM WriterPreference == Spec => NoReaderOvertakes
<1>1. IInv /\ [Next]_vars =>
        [\A t \in Thread :
           pc[t] # "reading" /\ pc'[t] = "reading" => WaitingWriters = {}]_vars
  BY StepOvertakes
<1>2. QED
  BY <1>1, Invariance, PTL DEF Spec, NoReaderOvertakes

-----------------------------------------------------------------------------
(* Refinement: each step of the lock is a step of the abstract lock, or it is *)
(* only about waiting.                                                        *)
Held == [t \in Thread |->
           CASE pc[t] = "reading" -> "shared"
             [] pc[t] = "writing" -> "exclusive"
             [] OTHER             -> "none"]

LEMMA StepRefines ==
  ASSUME IInv, Next
  PROVE  Abstract!Next \/ UNCHANGED Held
<1> DEFINE AShare(t) == /\ Held[t] = "none"
                        /\ \A u \in Thread : Held[u] # "exclusive"
                        /\ Held' = [Held EXCEPT ![t] = "shared"]
           AExclude(t) == /\ \A u \in Thread : Held[u] = "none"
                          /\ Held' = [Held EXCEPT ![t] = "exclusive"]
           ARelease(t) == /\ Held[t] # "none"
                          /\ Held' = [Held EXCEPT ![t] = "none"]
<1>0. (\E t \in Thread : AShare(t) \/ AExclude(t) \/ ARelease(t)) => Abstract!Next
  BY DEF Abstract!Next, Abstract!Share, Abstract!Exclude, Abstract!Release, Held
<1>1. pc \in [Thread -> States]
  BY DEF IInv, TypeOK
<1>2. PICK t \in Thread :
         \/ AcquireRead(t) \/ RecheckRead(t) \/ ReleaseRead(t)
         \/ AcquireWrite(t) \/ RecheckWrite(t) \/ ReleaseWrite(t)
  BY DEF Next
<1>3. CASE AcquireRead(t) \/ RecheckRead(t)
  <2>1. CASE pc' = [pc EXCEPT ![t] = "readWait"]
    BY <1>1, <1>3, <2>1 DEF AcquireRead, RecheckRead, Held
  <2>2. CASE ~writer /\ pc' = [pc EXCEPT ![t] = "reading"]
    <3>1. Writing = {}
      BY <2>2 DEF IInv, CountersAgree
    <3>2. AShare(t)
      BY <1>1, <1>3, <2>2, <3>1 DEF AcquireRead, RecheckRead, Held, Writing
    <3>3. QED
      BY <3>2, <1>0
  <2>3. QED
    BY <1>3, <2>1, <2>2 DEF AcquireRead, RecheckRead, TryRead
<1>4. CASE ReleaseRead(t)
  <2>1. ARelease(t)
    BY <1>1, <1>4 DEF ReleaseRead, NotifyAll, Held
  <2>2. QED
    BY <2>1, <1>0
<1>5. CASE AcquireWrite(t) \/ RecheckWrite(t)
  <2>1. CASE pc' = [pc EXCEPT ![t] = "writeWait"]
    BY <1>1, <1>5, <2>1 DEF AcquireWrite, RecheckWrite, Held
  <2>2. CASE ~writer /\ readers = 0 /\ pc' = [pc EXCEPT ![t] = "writing"]
    <3>1. Writing = {} /\ Reading = {}
      BY <2>2, GroupSizes, GroupsAreThreads DEF IInv, CountersAgree
    <3>2. AExclude(t)
      BY <1>1, <1>5, <2>2, <3>1 DEF Held, Writing, Reading
    <3>3. QED
      BY <3>2, <1>0
  <2>3. QED
    BY <1>5, <2>1, <2>2 DEF AcquireWrite, RecheckWrite
<1>6. CASE ReleaseWrite(t)
  <2>1. ARelease(t)
    BY <1>1, <1>6 DEF ReleaseWrite, NotifyAll, Held
  <2>2. QED
    BY <2>1, <1>0
<1>7. QED
  BY <1>2, <1>3, <1>4, <1>5, <1>6

(* The lock implements the abstract shared/exclusive lock.                    *)
THEOREM Refinement == Spec => ImplementsSharedExclusive
<1>1. Init => Abstract!Init
  BY DEF Init, Abstract!Init
<1>2. IInv /\ [Next]_vars => [Abstract!Next]_Held
  BY StepRefines DEF vars, Held
<1>3. QED
  BY <1>1, <1>2, Invariance, PTL
     DEF Spec, ImplementsSharedExclusive, Abstract!Spec, Held
=============================================================================
