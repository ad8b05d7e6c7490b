------------------------- MODULE TelysServerProofs -------------------------
(***************************************************************************)
(* Requests to one object hold one lock, so a write is exclusive; a save meets    *)
(* them at the same lock; what is acknowledged stays in memory, and what is due   *)
(* when the drain begins reaches the disk; for any set of clients and collections  *)
(* and any number of drops and re-creations.                                    *)
(*                                                                         *)
(* The argument: a step only ever adds objects and locks, and what the registry   *)
(* says of an object it keeps naming does not change (Extends).  A handler that    *)
(* has resolved an object is not disturbed by such a step, and one that resolves    *)
(* finds the lock of everybody who resolved the object before it.  Who uses a     *)
(* collection that is not dropped meanwhile keeps the object and the lock of the   *)
(* registry (HeldRight, PassRight), so that a save writes what was acknowledged    *)
(* (Memory), nothing writes what was dropped (Dropped), and Main has each due row  *)
(* on disk or still before it (Draining).                                        *)
(***************************************************************************)
EXTENDS TelysServer, SequenceTheorems, TLAPS

RegistryType ==
  /\ objs \in Seq([name : Name, rows : SUBSET Row])
  /\ nlocks \in Nat
  /\ cols \in [Name -> Objects \cup {Absent}]
  /\ locks \in [Name -> 0..nlocks]

ConnRecord ==
  [pc : {"closed", "auth", "recv", "dispatch", "wait", "run"},
   op : Ops \cup {"none"}, name : MaybeName, row : MaybeRow,
   obj : Objects \cup {Absent}, lock : 0..nlocks]

ConnType == conn \in [Conn -> ConnRecord]

(* The registry calls an object by its name.                                     *)
NamedRight == \A n \in Name : cols[n] # Absent => objs[cols[n]].name = n

(* A request has a collection, unless its handler waits for one.                  *)
RequestNamed ==
  \A c \in Conn : conn[c].pc \in {"dispatch", "wait", "run"} =>
    /\ conn[c].name \in Name /\ conn[c].op \in Ops
    /\ conn[c].op = "add" => conn[c].row \in Row

(* What a handler has resolved.                                                 *)
ResolvedRight ==
  \A c \in Conn : Resolved(c) =>
    /\ conn[c].obj \in Objects
    /\ objs[conn[c].obj].name = conn[c].name
    /\ conn[c].lock # Absent
    /\ conn[c].op \in DataOps

(* A lock held for writing has one holder among the requests.                     *)
LockExclusive ==
  \A c, d \in Conn :
    /\ c # d /\ conn[c].pc = "run" /\ conn[d].pc = "run"
    /\ conn[c].op \in WriteOps /\ conn[c].lock = conn[d].lock
    => FALSE

ConnInv == ConnType /\ RequestNamed /\ ResolvedRight /\ OneLockPerObject /\ LockExclusive

DiskType == disk \in [Name -> [there : BOOLEAN, rows : SUBSET Row]]

IInv == RegistryType /\ DiskType /\ NamedRight /\ ConnInv

(* What a step may do to the registry.                                           *)
Extends ==
  /\ RegistryType' /\ NamedRight'
  /\ Len(objs) <= Len(objs') /\ nlocks <= nlocks'
  /\ \A o \in Objects : objs'[o].name = objs[o].name
  /\ \A n \in Name : cols'[n] \in Objects =>
       cols'[n] = cols[n] /\ (locks[n] # Absent => locks'[n] = locks[n])

-----------------------------------------------------------------------------
(* The operations of the registry extend it.                                     *)

LEMMA SameExtends ==
  ASSUME RegistryType, NamedRight, UNCHANGED registry
  PROVE  Extends
<1>1. RegistryType' /\ NamedRight'
  BY DEF RegistryType, NamedRight, registry, Objects
<1>2. Len(objs) \in Nat
  BY DEF RegistryType
<1> QED BY <1>1, <1>2 DEF Extends, registry, RegistryType

LEMMA LockExtends ==
  ASSUME RegistryType, NamedRight, NEW n \in Name, SetDefaultLock(n), UNCHANGED <<objs, cols>>
  PROVE  Extends /\ locks'[n] # Absent /\ locks'[n] \in 0..nlocks'
<1>1. RegistryType' /\ locks'[n] # Absent
  BY DEF RegistryType, SetDefaultLock, Objects, Absent
<1>2. NamedRight'
  BY DEF NamedRight
<1>3. nlocks <= nlocks' /\ \A m \in Name : locks[m] # Absent => locks'[m] = locks[m]
  BY DEF RegistryType, SetDefaultLock
<1>4. Len(objs) \in Nat
  BY DEF RegistryType
<1> QED BY <1>1, <1>2, <1>3, <1>4 DEF Extends, RegistryType

LEMMA ObjectExtends ==
  ASSUME RegistryType, NamedRight, NEW n \in Name, NEW rows \in SUBSET Row,
         NewObject(n, rows), SetDefaultLock(n) \/ UNCHANGED <<locks, nlocks>>
  PROVE  /\ Extends
         /\ cols'[n] = Len(objs) + 1 /\ cols'[n] \in Objects' /\ objs'[cols'[n]].name = n
         /\ SetDefaultLock(n) => locks'[n] # Absent
<1> DEFINE new == [name |-> n, rows |-> rows]
<1>1. /\ objs' = Append(objs, new) /\ new \in [name : Name, rows : SUBSET Row]
      /\ objs' \in Seq([name : Name, rows : SUBSET Row])
      /\ Len(objs) \in Nat /\ Len(objs') = Len(objs) + 1
      /\ objs'[Len(objs) + 1] = new
      /\ \A o \in 1..Len(objs) : objs'[o] = objs[o]
  BY DEF RegistryType, NewObject
<1>2. Objects = 1..Len(objs) /\ Objects' = 1..(Len(objs) + 1)
  BY <1>1 DEF Objects, RegistryType
<1>3. /\ cols' = [cols EXCEPT ![n] = Len(objs) + 1]
      /\ cols' \in [Name -> Objects' \cup {Absent}]
      /\ cols'[n] = Len(objs) + 1
      /\ \A m \in Name : m # n => cols'[m] = cols[m]
  BY <1>1, <1>2 DEF RegistryType, NewObject, Absent
<1>4. /\ locks' \in [Name -> 0..nlocks'] /\ nlocks' \in Nat /\ nlocks <= nlocks'
      /\ \A m \in Name : locks[m] # Absent => locks'[m] = locks[m]
      /\ SetDefaultLock(n) => locks'[n] # Absent
  BY DEF RegistryType, SetDefaultLock, Absent
<1>5. RegistryType'
  BY <1>1, <1>3, <1>4 DEF RegistryType
<1>6. NamedRight'
  <2>1. SUFFICES ASSUME NEW m \in Name, cols'[m] # Absent PROVE objs'[cols'[m]].name = m
    BY DEF NamedRight
  <2>2. CASE m = n
    BY <2>2, <1>1, <1>3
  <2>3. CASE m # n
    <3>1. cols[m] \in 1..Len(objs) /\ objs[cols[m]].name = m
      BY <2>1, <2>3, <1>2, <1>3 DEF NamedRight, RegistryType
    <3> QED BY <3>1, <2>3, <1>1, <1>3
  <2> QED BY <2>2, <2>3
<1>7. \A m \in Name : cols'[m] \in Objects => cols'[m] = cols[m]
  BY <1>1, <1>2, <1>3
<1>8. \A o \in Objects : objs'[o].name = objs[o].name
  BY <1>1, <1>2
<1>9. Len(objs) <= Len(objs')
  BY <1>1
<1>10. Extends
  BY <1>4, <1>5, <1>6, <1>7, <1>8, <1>9 DEF Extends
<1> QED BY <1>1, <1>2, <1>3, <1>4, <1>10

(* Rows come and go in an object, and the registry does not notice.              *)
LEMMA RowsExtend ==
  ASSUME RegistryType, NamedRight, NEW o \in Objects, NEW rows \in SUBSET Row,
         objs' = [objs EXCEPT ![o].rows = rows], UNCHANGED <<cols, locks, nlocks>>
  PROVE  Extends
<1> DEFINE Obj == [name : Name, rows : SUBSET Row]
<1>0. objs \in Seq(Obj)
  BY DEF RegistryType
<1>1. /\ Len(objs) \in Nat /\ Objects = 1..Len(objs)
      /\ \A i \in Objects : objs[i] \in Obj
  <2> HIDE DEF Obj
  <2> QED BY <1>0, LenProperties, ElementOfSeq DEF Objects
<1>2. /\ objs' \in Seq(Obj) /\ Len(objs') = Len(objs)
      /\ Objects' = Objects
  <2> DEFINE e == [objs[o] EXCEPT !.rows = rows]
  <2>1. e \in Obj
    BY <1>1
  <2>2. objs' = [objs EXCEPT ![o] = e]
    OBVIOUS
  <2> HIDE DEF Obj, e
  <2> QED BY <1>0, <1>1, <2>1, <2>2, ExceptSeq DEF Objects
<1>3. \A i \in Objects : objs'[i].name = objs[i].name
  BY <1>1
<1>4. RegistryType'
  BY <1>2 DEF RegistryType
<1>5. NamedRight'
  BY <1>3 DEF NamedRight, RegistryType
<1>6. Len(objs) <= Len(objs') /\ nlocks <= nlocks'
  BY <1>1, <1>2 DEF RegistryType
<1>7. \A n \in Name : cols'[n] = cols[n] /\ locks'[n] = locks[n]
  OBVIOUS
<1> QED BY <1>3, <1>4, <1>5, <1>6, <1>7 DEF Extends

-----------------------------------------------------------------------------
(* What the extension of the registry leaves to the handlers.                    *)

LEMMA RecordsGrow ==
  ASSUME RegistryType, Extends
  PROVE  ConnRecord \subseteq ConnRecord'
<1>1. /\ Len(objs) \in Nat /\ Len(objs') \in Nat /\ Objects = 1..Len(objs)
      /\ Objects' = 1..Len(objs') /\ Len(objs) <= Len(objs')
      /\ nlocks \in Nat /\ nlocks' \in Nat /\ nlocks <= nlocks'
  BY LenProperties DEF RegistryType, Extends, Objects
<1>2. Objects \subseteq Objects' /\ 0..nlocks \subseteq 0..nlocks'
  BY <1>1
<1> QED BY <1>2 DEF ConnRecord

(* Handlers that had resolved keep what they had, no other has resolved.           *)
LEMMA Undisturbed ==
  ASSUME IInv, Extends, DiskType', ConnType', RequestNamed',
         \A d \in Conn : conn'[d].pc \in {"wait", "run"} => conn'[d] = conn[d]
  PROVE  IInv'
<1>1. \A d \in Conn : Resolved(d)' => Resolved(d) /\ conn'[d] = conn[d]
  BY DEF Resolved
<1>2. \A d \in Conn : Resolved(d)' =>
        /\ conn'[d].obj \in Objects /\ conn'[d].obj \in Objects'
        /\ objs'[conn'[d].obj].name = objs[conn[d].obj].name
        /\ conn'[d].name \in Name
  <2>1. Objects \subseteq Objects'
    BY LenProperties DEF IInv, Extends, RegistryType, Objects
  <2> QED BY <1>1, <2>1 DEF IInv, ConnInv, ResolvedRight, RequestNamed, Extends, Resolved
<1>3. ResolvedRight'
  BY <1>1, <1>2 DEF IInv, ConnInv, ResolvedRight
<1>4. OneLockPerObject'
  <2>1. ASSUME NEW c \in Conn, Resolved(c)', NEW d \in Conn, Resolved(d)',
               conn'[d].obj = conn'[c].obj
        PROVE  conn'[d].lock = conn'[c].lock
    BY <2>1, <1>1 DEF IInv, ConnInv, OneLockPerObject
  <2>2. ASSUME NEW c \in Conn, Resolved(c)', IsCurrent(conn[c].obj)'
        PROVE  conn'[c].lock = locks'[conn'[c].name]
    <3> DEFINE n == conn[c].name
    <3>1. /\ Resolved(c) /\ conn'[c] = conn[c] /\ n \in Name
          /\ objs[conn[c].obj].name = n /\ objs'[conn[c].obj].name = n
          /\ conn[c].obj \in Objects /\ conn[c].lock # Absent
      BY <2>2, <1>1, <1>2 DEF IInv, ConnInv, ResolvedRight
    <3>2. cols'[n] = conn[c].obj
      BY <2>2, <3>1 DEF IsCurrent
    <3>3. cols[n] = conn[c].obj /\ (locks[n] # Absent => locks'[n] = locks[n])
      BY <3>1, <3>2 DEF Extends
    <3>4. conn[c].lock = locks[n]
      BY <3>1, <3>3 DEF IInv, ConnInv, OneLockPerObject, IsCurrent
    <3> QED BY <3>1, <3>3, <3>4
  <2> QED BY <2>1, <2>2 DEF OneLockPerObject
<1>5. LockExclusive'
  BY <1>1 DEF IInv, ConnInv, LockExclusive, Resolved
<1> QED BY <1>3, <1>4, <1>5 DEF IInv, ConnInv, Extends

(* A handler that does not resolve, and the rest of the connections as they were.   *)
LEMMA OneHandler ==
  ASSUME IInv, Extends, DiskType', NEW c \in Conn, NEW x \in ConnRecord,
         conn' = [conn EXCEPT ![c] = x],
         x.pc \notin {"wait", "run"},
         x.pc = "dispatch" => /\ x.name \in Name /\ x.op \in Ops
                              /\ x.op = "add" => x.row \in Row
  PROVE  IInv'
<1>1. ConnType'
  BY RecordsGrow DEF IInv, ConnInv, ConnType
<1>2. \A d \in Conn : conn'[d] = IF d = c THEN x ELSE conn[d]
  BY DEF IInv, ConnInv, ConnType
<1>3. RequestNamed'
  BY <1>2 DEF IInv, ConnInv, RequestNamed
<1>4. \A d \in Conn : conn'[d].pc \in {"wait", "run"} => conn'[d] = conn[d]
  BY <1>2
<1> QED BY <1>1, <1>3, <1>4, Undisturbed

LEMMA ReplyKeeps ==
  ASSUME IInv, Extends, DiskType', NEW c \in Conn, Reply(c)
  PROVE  IInv'
<1>1. PICK x \in {Closed, [Closed EXCEPT !.pc = "recv"]} : conn' = [conn EXCEPT ![c] = x]
  BY DEF Reply, Next_request
<1>2. x \in ConnRecord /\ x.pc \in {"closed", "recv"}
  BY <1>1 DEF Closed, ConnRecord, MaybeName, MaybeRow, Absent, IInv, RegistryType
<1>3. x.pc \notin {"wait", "run"} /\ x.pc # "dispatch"
  BY <1>2
<1> HIDE DEF IInv, Extends
<1> QED BY <1>1, <1>2, <1>3, OneHandler

LEMMA ConnsUnchanged ==
  ASSUME IInv, Extends, DiskType', UNCHANGED conn
  PROVE  IInv'
<1>1. ConnType'
  BY RecordsGrow DEF IInv, ConnInv, ConnType
<1>2. RequestNamed'
  BY DEF IInv, ConnInv, RequestNamed
<1> QED BY <1>1, <1>2, Undisturbed

-----------------------------------------------------------------------------
(* The actions.                                                               *)

LEMMA RequestKeeps ==
  ASSUME IInv, NEW c \in Conn, NEW op \in Ops, NEW n \in Name, NEW r \in Row \cup {Absent},
         Request(c, op, n, r)
  PROVE  IInv'
<1> DEFINE x == [pc |-> "dispatch", op |-> op, name |-> n, row |-> r,
                 obj |-> Absent, lock |-> Absent]
<1>1. Extends
  <2>1. UNCHANGED registry
    BY DEF Request
  <2> QED BY <2>1, SameExtends DEF IInv
<1>2. x \in ConnRecord
  <2>1. Absent \in 0..nlocks
    BY DEF IInv, RegistryType, Absent
  <2> QED BY <2>1 DEF ConnRecord, MaybeName, MaybeRow
<1>6. DiskType'
  BY DEF Request, DiskType, IInv
<1>3. x.pc = "dispatch" /\ x.name \in Name /\ x.op \in Ops /\ (x.op = "add" => x.row \in Row)
  <2>1. op = "add" => r \in Row
    BY DEF Request
  <2> QED BY <2>1
<1>4. conn' = [conn EXCEPT ![c] = x]
  BY DEF Request
<1>5. x.pc \notin {"wait", "run"}
  BY <1>3
<1> HIDE DEF x
<1> QED BY <1>1, <1>2, <1>3, <1>4, <1>5, <1>6, OneHandler

(* accept, the handshake and a disconnect: the handler listens or is gone.         *)
LEMMA ListenKeeps ==
  ASSUME IInv, NEW c \in Conn, Accept(c) \/ Authenticate(c) \/ Disconnect(c)
  PROVE  IInv'
<1>1. Extends /\ DiskType'
  <2>1. UNCHANGED registry /\ UNCHANGED disk
    BY DEF Accept, Authenticate, Disconnect
  <2> QED BY <2>1, SameExtends DEF IInv, DiskType
<1>2. CASE Accept(c)
  <2> DEFINE p == IF TokenRequired THEN "auth" ELSE "recv"
             x == [conn[c] EXCEPT !.pc = p]
  <2>1. x \in ConnRecord /\ x.pc \in {"auth", "recv"}
    BY DEF IInv, ConnInv, ConnType, ConnRecord
  <2>2. conn' = [conn EXCEPT ![c] = x]
    BY <1>2 DEF Accept
  <2>3. x.pc \notin {"wait", "run"} /\ x.pc # "dispatch"
    BY <2>1
  <2> HIDE DEF x
  <2> QED BY <1>1, <2>1, <2>2, <2>3, OneHandler
<1>3. CASE Authenticate(c) \/ Disconnect(c)
  <2>1. Reply(c)
    BY <1>3 DEF Authenticate, Disconnect, Reply
  <2> QED BY <1>1, <2>1, ReplyKeeps
<1> QED BY <1>2, <1>3

LEMMA GetColExtends ==
  ASSUME RegistryType, NamedRight, NEW n \in Name, CanGet(n), GetCol(n),
         disk[n].rows \in SUBSET Row,
         SetDefaultLock(n) \/ UNCHANGED <<locks, nlocks>>
  PROVE  /\ Extends
         /\ cols'[n] \in Objects' /\ objs'[cols'[n]].name = n
         /\ cols'[n] = cols[n] \/ cols'[n] \notin Objects
         /\ SetDefaultLock(n) => locks'[n] # Absent
<1>1. CASE cols[n] # Absent
  <2>1. UNCHANGED <<objs, cols>>
    BY <1>1 DEF GetCol
  <2>2. Extends /\ (SetDefaultLock(n) => locks'[n] # Absent)
    BY <2>1, LockExtends, SameExtends DEF registry
  <2>3. cols[n] \in Objects /\ objs[cols[n]].name = n
    BY <1>1 DEF RegistryType, NamedRight
  <2> QED BY <2>1, <2>2, <2>3 DEF Objects
<1>2. CASE cols[n] = Absent
  <2>1. NewObject(n, disk[n].rows)
    BY <1>2 DEF GetCol
  <2>2. Len(objs) + 1 \notin Objects
    BY LenProperties DEF Objects, RegistryType
  <2> QED BY <2>1, <2>2, ObjectExtends
<1> QED BY <1>1, <1>2

(* create, open and drop: the registry changes and the handler replies.           *)
LEMMA ManageKeeps ==
  ASSUME IInv, NEW c \in Conn, CreateCollection(c) \/ OpenCollection(c) \/ DropCollection(c)
  PROVE  IInv'
<1> DEFINE n == conn[c].name
<1>1. n \in Name /\ RegistryType /\ NamedRight /\ DiskType /\ disk[n].rows \in SUBSET Row
  BY DEF CreateCollection, OpenCollection, DropCollection, Dispatching, IInv, ConnInv,
         RequestNamed, DiskType
<1>2. Extends
  <2>1. CASE CreateCollection(c)
    <3>1. SetDefaultLock(n) \/ UNCHANGED <<locks, nlocks>>
      BY <2>1 DEF CreateCollection
    <3>2. (CanGet(n) /\ GetCol(n)) \/ NewObject(n, {})
      BY <2>1 DEF CreateCollection
    <3> QED BY <1>1, <3>1, <3>2, GetColExtends, ObjectExtends
  <2>2. CASE OpenCollection(c)
    <3>1. (CanGet(n) /\ GetCol(n) /\ SetDefaultLock(n)) \/ UNCHANGED registry
      BY <2>2 DEF OpenCollection
    <3> QED BY <1>1, <3>1, GetColExtends, SameExtends
  <2>3. CASE DropCollection(c)
    <3>1. /\ UNCHANGED <<objs, nlocks>>
          /\ cols' = [cols EXCEPT ![n] = Absent] /\ locks' = [locks EXCEPT ![n] = Absent]
      BY <2>3 DEF DropCollection
    <3>2. RegistryType'
      BY <1>1, <3>1 DEF RegistryType, Objects, Absent
    <3>3. Absent \notin Objects /\ Len(objs) \in Nat /\ nlocks \in Nat
      BY <1>1, LenProperties DEF RegistryType, Objects, Absent
    <3>4. \A m \in Name : cols'[m] = Absent \/ (cols'[m] = cols[m] /\ locks'[m] = locks[m])
      BY <1>1, <3>1 DEF RegistryType
    <3>5. NamedRight'
      BY <1>1, <3>1, <3>4 DEF NamedRight
    <3> QED BY <3>1, <3>2, <3>3, <3>4, <3>5 DEF Extends
  <2> QED BY <2>1, <2>2, <2>3
<1>3. Reply(c)
  BY DEF CreateCollection, OpenCollection, DropCollection
<1>4. DiskType'
  <2>1. UNCHANGED disk \/ disk' = [disk EXCEPT ![n] = [there |-> FALSE, rows |-> {}]]
    BY DEF CreateCollection, OpenCollection, DropCollection
  <2>2. [there |-> FALSE, rows |-> {}] \in [there : BOOLEAN, rows : SUBSET Row]
    OBVIOUS
  <2> HIDE DEF n
  <2> QED BY <1>1, <2>1, <2>2 DEF DiskType
<1> QED BY <1>2, <1>3, <1>4, ReplyKeeps

LEMMA KeptRight ==
  ASSUME IInv, Extends, NEW d \in Conn, Resolved(d)
  PROVE  /\ conn[d].obj \in Objects /\ conn[d].obj \in Objects'
         /\ conn[d].name \in Name /\ objs'[conn[d].obj].name = conn[d].name
         /\ cols'[conn[d].name] = conn[d].obj => conn[d].lock = locks'[conn[d].name]
         /\ conn[d].lock # Absent /\ conn[d].op \in DataOps
<1>1. /\ conn[d].obj \in Objects /\ conn[d].name \in Name
      /\ objs[conn[d].obj].name = conn[d].name
      /\ conn[d].lock # Absent /\ conn[d].op \in DataOps
  BY DEF IInv, ConnInv, ResolvedRight, RequestNamed, Resolved
<1>2. conn[d].obj \in Objects' /\ objs'[conn[d].obj].name = conn[d].name
  <2>1. RegistryType /\ RegistryType' /\ Len(objs) <= Len(objs')
    BY DEF IInv, Extends
  <2>2. Objects = 1..Len(objs) /\ Objects' = 1..Len(objs') /\ Len(objs) \in Nat /\ Len(objs') \in Nat
    BY <2>1, LenProperties DEF RegistryType, Objects
  <2> QED BY <1>1, <2>1, <2>2 DEF Extends
<1>3. ASSUME cols'[conn[d].name] = conn[d].obj PROVE conn[d].lock = locks'[conn[d].name]
  <2>1. cols[conn[d].name] = conn[d].obj
    BY <1>1, <1>3 DEF Extends
  <2>2. conn[d].lock = locks[conn[d].name]
    BY <1>1, <2>1 DEF IInv, ConnInv, OneLockPerObject, IsCurrent
  <2> QED BY <1>1, <1>3, <2>2 DEF Extends
<1> QED BY <1>1, <1>2, <1>3

(* A handler that resolves finds the lock of everybody with the same object.       *)
LEMMA ResolveKeeps ==
  ASSUME IInv, NEW c \in Conn, Resolve(c)
  PROVE  IInv'
<1> DEFINE n == conn[c].name
<1>1. /\ n \in Name /\ RegistryType /\ NamedRight /\ DiskType /\ disk[n].rows \in SUBSET Row
      /\ conn[c].op \in DataOps /\ conn[c].pc = "dispatch"
  BY DEF Resolve, IInv, ConnInv, RequestNamed, DiskType
<1>2. DiskType'
  BY <1>1 DEF Resolve, DiskType
<1>3. CASE UNCHANGED registry /\ Reply(c)
  BY <1>1, <1>2, <1>3, SameExtends, ReplyKeeps
<1>4. CASE /\ CanGet(n) /\ GetCol(n) /\ SetDefaultLock(n)
           /\ conn' = [conn EXCEPT ![c].pc = "wait", ![c].obj = cols'[n], ![c].lock = locks'[n]]
  <2>1. /\ Extends
        /\ cols'[n] \in Objects' /\ objs'[cols'[n]].name = n
        /\ cols'[n] = cols[n] \/ cols'[n] \notin Objects
        /\ locks'[n] # Absent
    BY <1>1, <1>4, GetColExtends
  <2>2. /\ conn'[c].pc = "wait" /\ conn'[c].obj = cols'[n] /\ conn'[c].lock = locks'[n]
        /\ conn'[c].name = n /\ conn'[c].op = conn[c].op /\ conn'[c].row = conn[c].row
        /\ \A d \in Conn : d # c => conn'[d] = conn[d]
    BY <1>4 DEF IInv, ConnInv, ConnType, ConnRecord
  <2>3. ConnType'
    <3>1. conn[c] \in ConnRecord' /\ conn \in [Conn -> ConnRecord']
      BY <1>1, <2>1, RecordsGrow DEF IInv, ConnInv, ConnType
    <3>2. cols'[n] \in Objects' \cup {Absent} /\ locks'[n] \in 0..nlocks'
      BY <1>1, <2>1 DEF Extends, RegistryType
    <3>3. [conn[c] EXCEPT !.pc = "wait", !.obj = cols'[n], !.lock = locks'[n]] \in ConnRecord'
      BY <3>1, <3>2 DEF ConnRecord
    <3> QED BY <1>4, <3>1, <3>3 DEF ConnType
  <2>4. RequestNamed'
    <3>1. \A d \in Conn : d # c => conn'[d] = conn[d]
      BY <2>2
    <3>2. conn'[c].name \in Name /\ conn'[c].op \in Ops /\ (conn'[c].op = "add" => conn'[c].row \in Row)
      BY <1>1, <2>2 DEF IInv, ConnInv, RequestNamed, Ops
    <3> QED BY <3>1, <3>2 DEF IInv, ConnInv, RequestNamed
  <2>5. \A d \in Conn : Resolved(d)' /\ d # c => Resolved(d) /\ conn'[d] = conn[d]
    BY <2>2 DEF Resolved
  <2>6. \A d \in Conn : Resolved(d)' /\ d # c =>
          /\ conn'[d].obj \in Objects /\ conn'[d].obj \in Objects' /\ conn'[d].name \in Name
          /\ objs'[conn'[d].obj].name = conn'[d].name
          /\ cols'[conn'[d].name] = conn'[d].obj => conn'[d].lock = locks'[conn'[d].name]
          /\ conn'[d].lock # Absent /\ conn'[d].op \in DataOps
    BY <2>1, <2>5, KeptRight
  <2>7. ResolvedRight'
    BY <1>1, <2>1, <2>2, <2>6 DEF ResolvedRight
  <2>8. \A d \in Conn : Resolved(d)' /\ conn'[d].obj = conn'[c].obj => conn'[d].lock = conn'[c].lock
    BY <2>1, <2>2, <2>6
  <2>9. OneLockPerObject'
    <3>1. ASSUME NEW e \in Conn, Resolved(e)', NEW d \in Conn, Resolved(d)', conn'[d].obj = conn'[e].obj
          PROVE  conn'[d].lock = conn'[e].lock
      <4>1. CASE d = c \/ e = c
        BY <3>1, <4>1, <2>8
      <4>2. CASE d # c /\ e # c
        BY <3>1, <4>2, <2>5 DEF IInv, ConnInv, OneLockPerObject
      <4> QED BY <4>1, <4>2
    <3>2. ASSUME NEW e \in Conn, Resolved(e)', IsCurrent(conn[e].obj)'
          PROVE  conn'[e].lock = locks'[conn'[e].name]
      BY <3>2, <2>1, <2>2, <2>6 DEF IsCurrent
    <3> QED BY <3>1, <3>2 DEF OneLockPerObject
  <2>10. LockExclusive'
    BY <2>2 DEF IInv, ConnInv, LockExclusive
  <2> QED BY <1>2, <2>1, <2>3, <2>4, <2>7, <2>9, <2>10 DEF IInv, ConnInv, Extends
<1>5. \/ UNCHANGED registry /\ Reply(c)
      \/ /\ CanGet(n) /\ GetCol(n) /\ SetDefaultLock(n)
         /\ conn' = [conn EXCEPT ![c].pc = "wait", ![c].obj = cols'[n], ![c].lock = locks'[n]]
  BY DEF Resolve
<1> QED BY <1>3, <1>4, <1>5

(* The lock is taken: whoever is inside it keeps others out.                      *)
LEMMA AcquireKeeps ==
  ASSUME IInv, NEW c \in Conn, Acquire(c)
  PROVE  IInv'
<1> DEFINE x == [conn[c] EXCEPT !.pc = "run"]
<1>1. Extends /\ DiskType'
  <2>1. UNCHANGED registry /\ UNCHANGED disk
    BY DEF Acquire
  <2> QED BY <2>1, SameExtends DEF IInv, DiskType
<1>2. /\ conn' = [conn EXCEPT ![c] = x] /\ x \in ConnRecord
      /\ conn[c].pc = "wait" /\ conn[c].op \in DataOps /\ Resolved(c)
  BY DEF Acquire, IInv, ConnInv, ConnType, ConnRecord, ResolvedRight, Resolved
<1>3. /\ conn'[c].pc = "run" /\ conn'[c].obj = conn[c].obj /\ conn'[c].lock = conn[c].lock
      /\ conn'[c].name = conn[c].name /\ conn'[c].op = conn[c].op /\ conn'[c].row = conn[c].row
      /\ \A d \in Conn : d # c => conn'[d] = conn[d]
  BY <1>2 DEF IInv, ConnInv, ConnType, ConnRecord
<1>4. ConnType'
  BY <1>1, <1>2, RecordsGrow DEF IInv, ConnInv, ConnType
<1>5. \A d \in Conn : Resolved(d)' =>
        /\ Resolved(d)
        /\ conn'[d].obj = conn[d].obj /\ conn'[d].lock = conn[d].lock
        /\ conn'[d].name = conn[d].name /\ conn'[d].op = conn[d].op /\ conn'[d].row = conn[d].row
  BY <1>2, <1>3 DEF Resolved
<1>6. RequestNamed'
  BY <1>2, <1>3 DEF IInv, ConnInv, RequestNamed
<1>7. objs' = objs /\ cols' = cols /\ locks' = locks
  BY DEF Acquire, registry
<1>8. ResolvedRight'
  BY <1>5, <1>7 DEF IInv, ConnInv, ResolvedRight, Objects
<1>9. OneLockPerObject'
  <2>1. ASSUME NEW e \in Conn, Resolved(e)', NEW d \in Conn, Resolved(d)', conn'[d].obj = conn'[e].obj
        PROVE  conn'[d].lock = conn'[e].lock
    BY <2>1, <1>5 DEF IInv, ConnInv, OneLockPerObject
  <2>2. ASSUME NEW e \in Conn, Resolved(e)', IsCurrent(conn[e].obj)'
        PROVE  conn'[e].lock = locks'[conn'[e].name]
    BY <2>2, <1>5, <1>7 DEF IInv, ConnInv, OneLockPerObject, IsCurrent
  <2> QED BY <2>1, <2>2 DEF OneLockPerObject
<1>10. LockExclusive'
  <2>1. ASSUME NEW d \in Conn, d # c, conn[d].pc = "run", conn[d].lock = conn[c].lock
        PROVE  conn[c].op \notin WriteOps /\ conn[d].op \notin WriteOps
    <3>1. conn[d].op \in DataOps
      BY <2>1 DEF IInv, ConnInv, ResolvedRight, Resolved
    <3>2. d \in ConnInside(conn[c].lock, DataOps)
      BY <2>1, <3>1 DEF ConnInside
    <3>3. conn[c].op \notin WriteOps /\ ConnInside(conn[c].lock, WriteOps) = {}
      BY <3>2 DEF Acquire, NoHolder, NoWriter
    <3> QED BY <2>1, <3>3 DEF ConnInside
  <2>2. SUFFICES ASSUME NEW d \in Conn, NEW e \in Conn, d # e,
                        conn'[d].pc = "run", conn'[e].pc = "run",
                        conn'[d].op \in WriteOps, conn'[d].lock = conn'[e].lock
                 PROVE  FALSE
    BY DEF LockExclusive
  <2>3. CASE d = c \/ e = c
    BY <2>1, <2>2, <2>3, <1>3
  <2>4. CASE d # c /\ e # c
    BY <2>2, <2>4, <1>3 DEF IInv, ConnInv, LockExclusive
  <2> QED BY <2>3, <2>4
<1> QED BY <1>1, <1>4, <1>6, <1>8, <1>9, <1>10 DEF IInv, ConnInv, Extends

(* The operation runs on its object and the handler replies.                      *)
LEMMA RunKeeps ==
  ASSUME IInv, NEW c \in Conn, RunOp(c)
  PROVE  IInv'
<1> DEFINE o == conn[c].obj
<1>1. /\ conn[c].pc = "run" /\ conn[c].op \in Ops
      /\ Reply(c) /\ o \in Objects /\ conn[c].name \in Name
      /\ RegistryType /\ NamedRight /\ DiskType
  BY DEF RunOp, RunAdd, RunDelete, RunSave, RunSearchOrRaise, Running, IInv, ConnInv,
         ResolvedRight, RequestNamed, Resolved
<1>2. objs[o] \in [name : Name, rows : SUBSET Row]
  <2> DEFINE Obj == [name : Name, rows : SUBSET Row]
  <2>1. objs \in Seq(Obj)
    BY <1>1 DEF RegistryType
  <2> HIDE DEF Obj
  <2>2. objs[o] \in Obj
    BY <1>1, <2>1, LenProperties, ElementOfSeq DEF Objects
  <2> QED BY <2>2 DEF Obj
<1>3. Extends
  <2>1. CASE UNCHANGED registry
    BY <1>1, <2>1, SameExtends
  <2>2. ASSUME NEW rows \in SUBSET Row, objs' = [objs EXCEPT ![o].rows = rows],
               UNCHANGED <<cols, locks, nlocks>>
        PROVE  Extends
    BY <1>1, <2>2, RowsExtend
  <2>3. CASE RunAdd(c)
    <3>1. objs[o].rows \cup {conn[c].row} \in SUBSET Row
      BY <2>3, <1>1, <1>2 DEF RunAdd, Running, IInv, ConnInv, RequestNamed
    <3>2. objs' = [objs EXCEPT ![o].rows = objs[o].rows \cup {conn[c].row}]
      BY <2>3 DEF RunAdd
    <3> QED BY <2>2, <2>3, <3>1, <3>2 DEF RunAdd
  <2>4. CASE RunDelete(c)
    <3>1. objs[o].rows \ {conn[c].row} \in SUBSET Row
      BY <1>2
    <3>2. objs' = [objs EXCEPT ![o].rows = objs[o].rows \ {conn[c].row}]
      BY <2>4 DEF RunDelete
    <3> QED BY <2>2, <2>4, <3>1, <3>2 DEF RunDelete
  <2> QED BY <2>1, <2>3, <2>4 DEF RunOp, RunSave, RunSearchOrRaise
<1>4. DiskType'
  <2>1. [there |-> TRUE, rows |-> objs[o].rows] \in [there : BOOLEAN, rows : SUBSET Row]
    BY <1>2
  <2>2. UNCHANGED disk \/ disk' = [disk EXCEPT ![conn[c].name] = [there |-> TRUE, rows |-> objs[o].rows]]
    BY DEF RunOp, RunAdd, RunDelete, RunSave, RunSearchOrRaise
  <2> HIDE DEF o
  <2> QED BY <1>1, <2>1, <2>2 DEF DiskType
<1> QED BY <1>1, <1>3, <1>4, ReplyKeeps

-----------------------------------------------------------------------------
(* The save threads: they make locks and write directories.                      *)
PassRecord ==
  [pc : {"rest", "next", "wait", "run", "exited"}, todo : SUBSET Name,
   name : MaybeName, obj : Objects \cup {Absent}, lock : Nat]

PassType ==
  /\ pass \in [SaveThread -> PassRecord]
  /\ \A s \in SaveThread :
       /\ pass[s].pc \in {"wait", "run"} => pass[s].name \in Name
       /\ pass[s].pc = "run" => pass[s].obj # Absent

LEMMA SaverKeeps ==
  ASSUME IInv, PassType,
         \/ PeriodicSave \/ Stop \/ Drain
         \/ \E s \in SaveThread : EndPass(s) \/ AcquireSave(s) \/ SaveRaises(s) \/ SaveReturns(s)
  PROVE  IInv'
<1>1. UNCHANGED registry /\ UNCHANGED conn
  BY ZenonT(30) DEF PeriodicSave, Stop, Drain, EndPass, AcquireSave, SaveRaises, SaveReturns, Saved
<1>2. DiskType'
  <2>1. CASE UNCHANGED disk
    BY <2>1 DEF IInv, DiskType
  <2>2. CASE \E s \in SaveThread : SaveReturns(s)
    <3>1. PICK s \in SaveThread : SaveReturns(s)
      BY <2>2
    <3> DEFINE new == [there |-> TRUE, rows |-> objs[pass[s].obj].rows]
               Obj == [name : Name, rows : SUBSET Row]
    <3>2. pass[s].obj \in Objects /\ objs \in Seq(Obj)
      BY <3>1 DEF SaveReturns, PassType, PassRecord, IInv, RegistryType
    <3>3. objs[pass[s].obj] \in Obj
      <4> HIDE DEF Obj
      <4> QED BY <3>2, LenProperties, ElementOfSeq DEF Objects
    <3>4. new \in [there : BOOLEAN, rows : SUBSET Row]
      BY <3>3
    <3>5. disk' = [disk EXCEPT ![pass[s].name] = new]
      BY <3>1 DEF SaveReturns
    <3> HIDE DEF new
    <3> QED BY <3>4, <3>5 DEF IInv, DiskType
  <2> QED BY <2>1, <2>2 DEF PeriodicSave, Stop, Drain, EndPass, AcquireSave, SaveRaises
<1>3. Extends
  BY <1>1, SameExtends DEF IInv
<1> QED BY <1>1, <1>2, <1>3, ConnsUnchanged

LEMMA LockForKeeps ==
  ASSUME IInv, PassType, NEW s \in SaveThread, NEW n \in Name, LockFor(s, n)
  PROVE  IInv'
<1>1. SetDefaultLock(n) /\ UNCHANGED <<objs, cols>> /\ UNCHANGED disk /\ UNCHANGED conn
  BY DEF LockFor
<1>2. Extends /\ DiskType'
  BY <1>1, LockExtends DEF IInv, DiskType
<1> QED BY <1>1, <1>2, ConnsUnchanged

(* Objects are never forgotten.                                                 *)
LEMMA ObjectsGrow ==
  ASSUME IInv, [Next]_vars
  PROVE  Objects \subseteq Objects'
<1> DEFINE Obj == [name : Name, rows : SUBSET Row]
<1>1. objs \in Seq(Obj)
  BY DEF IInv, RegistryType
<1>2. Objects = 1..Len(objs) /\ Len(objs) \in Nat
  <2> HIDE DEF Obj
  <2> QED BY <1>1, LenProperties, SMTT(30) DEF Objects
<1>3. \/ objs' = objs
      \/ \E e : objs' = Append(objs, e)
      \/ \E o, e : objs' = [objs EXCEPT ![o] = e]
  <2>1. ASSUME NEW c \in Conn, CreateCollection(c) \/ OpenCollection(c) \/ Resolve(c)
        PROVE  objs' = objs \/ \E e : objs' = Append(objs, e)
    BY <2>1 DEF CreateCollection, OpenCollection, Resolve, GetCol, NewObject, registry
  <2>2. ASSUME NEW c \in Conn, RunAdd(c) \/ RunDelete(c)
        PROVE  \E o, e : objs' = [objs EXCEPT ![o] = e]
    BY <2>2 DEF RunAdd, RunDelete
  <2> QED BY <2>1, <2>2 DEF Next, vars, Accept, Authenticate, Request, Disconnect,
        DropCollection, Acquire, RunSave, RunSearchOrRaise, PeriodicSave, Stop, Drain,
        EndPass, LockFor, AcquireSave, SaveRaises, SaveReturns, Saved, registry
<1>4. CASE \E e : objs' = Append(objs, e)
  <2>1. PICK e : objs' = Append(objs, e)
    BY <1>4
  <2>2. Len(objs') = Len(objs) + 1 /\ DOMAIN objs' = 1..(Len(objs) + 1)
    BY <1>1, <2>1
  <2> QED BY <1>2, <2>2 DEF Objects
<1>5. CASE objs' = objs \/ \E o, e : objs' = [objs EXCEPT ![o] = e]
  BY <1>1, <1>2, <1>5 DEF Objects
<1> QED BY <1>3, <1>4, <1>5

LEMMA OnePass ==
  ASSUME PassType, Objects \subseteq Objects', NEW s \in SaveThread, NEW x \in PassRecord',
         pass' = [pass EXCEPT ![s] = x],
         x.pc \in {"wait", "run"} => x.name \in Name, x.pc = "run" => x.obj # Absent
  PROVE  PassType'
<1>1. PassRecord \subseteq PassRecord'
  BY DEF PassRecord
<1> QED BY <1>1 DEF PassType

LEMMA PassKeeps ==
  ASSUME IInv, PassType, [Next]_vars
  PROVE  PassType'
<1>1. Objects \subseteq Objects'
  BY ObjectsGrow
<1>2. CASE UNCHANGED pass
  BY <1>1, <1>2 DEF PassType, PassRecord
<1>3. ASSUME NEW s \in SaveThread, BeginPass(s) \/ EndPass(s)
      PROVE  PassType'
  <2>1. PICK x \in {[Resting EXCEPT !.pc = "next", !.todo = OpenNames],
                    [Resting EXCEPT !.pc = "exited"], [Resting EXCEPT !.pc = "rest"]} :
          pass' = [pass EXCEPT ![s] = x]
    BY <1>3 DEF BeginPass, EndPass
  <2>2. x \in PassRecord' /\ x.pc \notin {"wait", "run"}
    <3>1. OpenNames \in SUBSET Name
      BY DEF OpenNames
    <3>2. x = [pc |-> "next", todo |-> OpenNames, name |-> Absent, obj |-> Absent, lock |-> Absent]
          \/ \E p \in {"exited", "rest"} :
               x = [pc |-> p, todo |-> {}, name |-> Absent, obj |-> Absent, lock |-> Absent]
      BY <2>1 DEF Resting
    <3> QED BY <3>1, <3>2 DEF PassRecord, MaybeName, Absent
  <2> QED BY <1>1, <2>1, <2>2, OnePass
<1>4. ASSUME NEW s \in SaveThread, NEW n \in Name, LockFor(s, n)
      PROVE  PassType'
  <2> DEFINE x == [pass[s] EXCEPT !.pc = "wait", !.todo = @ \ {n}, !.name = n, !.lock = locks'[n]]
  <2>1. locks'[n] \in Nat
    <3>1. Extends /\ locks'[n] \in 0..nlocks'
      BY <1>4, LockExtends DEF LockFor, IInv
    <3> QED BY <3>1 DEF Extends, RegistryType
  <2>2. pass[s] \in PassRecord'
    BY <1>1 DEF PassType, PassRecord
  <2>3. x \in PassRecord' /\ x.pc = "wait" /\ x.name = n
    BY <2>1, <2>2 DEF PassRecord, MaybeName
  <2>4. pass' = [pass EXCEPT ![s] = x]
    BY <1>4 DEF LockFor
  <2> HIDE DEF x
  <2> QED BY <1>1, <2>3, <2>4, OnePass
<1>5. ASSUME NEW s \in SaveThread, AcquireSave(s) \/ SaveRaises(s) \/ SaveReturns(s)
      PROVE  PassType'
  <2> DEFINE x == [pass[s] EXCEPT !.pc = "run", !.obj = cols[pass[s].name]]
             y == [Resting EXCEPT !.pc = "next", !.todo = pass[s].todo]
  <2>1. pass[s] \in PassRecord'
    BY <1>1 DEF PassType, PassRecord
  <2>2. \/ pass' = [pass EXCEPT ![s] = x] /\ cols[pass[s].name] # Absent
        \/ pass' = [pass EXCEPT ![s] = y]
    BY <1>5 DEF AcquireSave, SaveRaises, SaveReturns, Saved
  <2>3. y \in PassRecord' /\ y.pc \notin {"wait", "run"}
    BY <2>1 DEF Resting, PassRecord, MaybeName, Absent
  <2>4. CASE pass' = [pass EXCEPT ![s] = x] /\ cols[pass[s].name] # Absent
    <3>1. pass[s].pc \in {"wait", "run"} /\ pass[s].name \in Name
      BY <1>5 DEF AcquireSave, SaveRaises, SaveReturns, PassType
    <3>2. cols[pass[s].name] \in Objects
      BY <2>4, <3>1 DEF IInv, RegistryType
    <3>3. x \in PassRecord' /\ x.name = pass[s].name /\ x.obj # Absent
      BY <1>1, <2>1, <2>4, <3>2 DEF PassRecord
    <3> HIDE DEF x
    <3> QED BY <1>1, <2>4, <3>1, <3>3, OnePass
  <2>5. CASE pass' = [pass EXCEPT ![s] = y]
    <3> HIDE DEF y
    <3> QED BY <1>1, <2>3, <2>5, OnePass
  <2> QED BY <2>2, <2>4, <2>5
<1>6. \/ UNCHANGED pass
      \/ \E s \in SaveThread :
           \/ BeginPass(s) \/ EndPass(s) \/ AcquireSave(s) \/ SaveRaises(s) \/ SaveReturns(s)
           \/ \E n \in Name : LockFor(s, n)
  <2>1. CASE UNCHANGED vars
    BY <2>1, Zenon DEF vars
  <2>2. ASSUME NEW c \in Conn,
               \/ Accept(c) \/ Authenticate(c) \/ Disconnect(c)
               \/ CreateCollection(c) \/ OpenCollection(c) \/ DropCollection(c)
               \/ Resolve(c) \/ Acquire(c)
               \/ RunAdd(c) \/ RunDelete(c) \/ RunSave(c) \/ RunSearchOrRaise(c)
        PROVE  UNCHANGED pass
    BY <2>2 DEF Accept, Authenticate, Disconnect, CreateCollection, OpenCollection,
         DropCollection, Resolve, Acquire, RunAdd, RunDelete, RunSave, RunSearchOrRaise
  <2>3. (\E c \in Conn, op \in Ops, n \in Name, r \in Row \cup {Absent} : Request(c, op, n, r))
          => UNCHANGED pass
    BY DEF Request
  <2>4. (PeriodicSave => BeginPass(Saver)) /\ (Drain => BeginPass(Main)) /\ (Stop => UNCHANGED pass)
    BY DEF PeriodicSave, Drain, Stop
  <2> QED BY <2>1, <2>2, <2>3, <2>4 DEF Next, SaveThread
<1> QED BY <1>2, <1>3, <1>4, <1>5, <1>6

-----------------------------------------------------------------------------
(* The theorems.                                                              *)

LEMMA Initially == Init => IInv /\ PassType
<1> SUFFICES ASSUME Init PROVE IInv /\ PassType
  OBVIOUS
<1>1. objs = <<>> /\ Objects = {}
  BY DEF Init, Objects
<1>2. RegistryType /\ NamedRight /\ DiskType
  BY <1>1 DEF Init, RegistryType, NamedRight, DiskType, Absent
<1>3. \A c \in Conn : conn[c] = Closed
  BY DEF Init
<1>4. ConnType
  <2>1. Closed \in ConnRecord
    BY DEF Init, Closed, ConnRecord, MaybeName, MaybeRow, Absent
  <2> QED BY <2>1 DEF Init, ConnType
<1>5. RequestNamed /\ ResolvedRight /\ OneLockPerObject /\ LockExclusive
  BY <1>3 DEF Closed, RequestNamed, ResolvedRight, OneLockPerObject, LockExclusive, Resolved
<1>6. PassType
  <2>1. Resting \in PassRecord /\ Resting.pc = "rest"
    BY DEF Resting, PassRecord, MaybeName, Absent
  <2> QED BY <2>1 DEF Init, PassType
<1> QED BY <1>2, <1>4, <1>5, <1>6 DEF IInv, ConnInv

LEMMA Inductive == IInv /\ PassType /\ [Next]_vars => (IInv /\ PassType)'
<1> SUFFICES ASSUME IInv, PassType, [Next]_vars PROVE IInv' /\ PassType'
  OBVIOUS
<1>1. PassType'
  BY PassKeeps
<1>2. CASE UNCHANGED vars
  <2>1. UNCHANGED registry /\ UNCHANGED conn /\ UNCHANGED disk
    BY <1>2 DEF vars, registry
  <2>2. Extends /\ DiskType'
    BY <2>1, SameExtends DEF IInv, DiskType
  <2> QED BY <1>1, <2>1, <2>2, ConnsUnchanged
<1>3. ASSUME NEW c \in Conn,
             \/ Accept(c) \/ Authenticate(c) \/ Disconnect(c)
             \/ CreateCollection(c) \/ OpenCollection(c) \/ DropCollection(c)
             \/ Resolve(c) \/ Acquire(c)
             \/ RunAdd(c) \/ RunDelete(c) \/ RunSave(c) \/ RunSearchOrRaise(c)
      PROVE  IInv'
  BY <1>3, ListenKeeps, ManageKeeps, ResolveKeeps, AcquireKeeps, RunKeeps DEF RunOp
<1>4. ASSUME NEW c \in Conn, NEW op \in Ops, NEW n \in Name, NEW r \in Row \cup {Absent},
             Request(c, op, n, r)
      PROVE  IInv'
  BY <1>4, RequestKeeps
<1>5. CASE \/ PeriodicSave \/ Stop \/ Drain
           \/ \E s \in SaveThread : EndPass(s) \/ AcquireSave(s) \/ SaveRaises(s) \/ SaveReturns(s)
  BY <1>1, <1>5, SaverKeeps
<1>6. ASSUME NEW s \in SaveThread, NEW n \in Name, LockFor(s, n)
      PROVE  IInv'
  BY <1>6, LockForKeeps
<1>7. IInv'
  BY <1>2, <1>3, <1>4, <1>5, <1>6 DEF Next
<1> QED BY <1>1, <1>7

(* The strengthened invariant: the registry names its objects right, and what a    *)
(* handler resolved stays what the registry said (_get_col, _lock_for, _dispatch).  *)
THEOREM Invariance == Spec => [](IInv /\ PassType)
BY Initially, Inductive, PTL DEF Spec

(* Two requests that resolved the same Collection object hold the same lock, the   *)
(* registered one while the object is registered, however often the name is         *)
(* dropped and created again (_dispatch, _resolve).                              *)
THEOREM RequestsShareLock == Spec => []OneLockPerObject
<1>1. IInv /\ PassType => OneLockPerObject
  BY DEF IInv, ConnInv
<1> QED BY <1>1, Invariance, PTL

(* A request that writes is alone among the requests on its object: its lock is    *)
(* the lock of every other, and a lock held for writing has one holder              *)
(* (_dispatch's acquire_write, "a write is exclusive", server.py:15).            *)
THEOREM WritesAreExclusive == Spec => []ExclusiveAccess
<1>1. IInv /\ PassType => ExclusiveAccess
  <2> SUFFICES ASSUME IInv, NEW c \in Conn, NEW d \in Conn, c # d,
                      conn[c].pc = "run", conn[d].pc = "run", conn[c].op \in WriteOps,
                      conn[c].obj = conn[d].obj
               PROVE  FALSE
    BY DEF ExclusiveAccess
  <2>1. conn[d].lock = conn[c].lock
    BY DEF IInv, ConnInv, OneLockPerObject, Resolved
  <2> QED BY <2>1 DEF IInv, ConnInv, LockExclusive
<1> QED BY <1>1, Invariance, PTL

-----------------------------------------------------------------------------
(* What a step does to a handler, to a save thread and to the registry.          *)

LEMMA ConnStep ==
  ASSUME IInv, [Next]_vars, NEW c \in Conn
  PROVE  \/ conn'[c] = conn[c]
         \/ ~Resolved(c)'
         \/ /\ Resolve(c) /\ conn'[c].pc = "wait" /\ conn'[c].name \in Name
            /\ conn'[c].obj = cols'[conn'[c].name]
         \/ /\ Acquire(c) /\ conn'[c] = [conn[c] EXCEPT !.pc = "run"]
<1>1. conn \in [Conn -> ConnRecord]
  BY DEF IInv, ConnInv, ConnType
<1>2. ASSUME NEW d \in Conn, Reply(d)
      PROVE  conn'[c] = conn[c] \/ ~Resolved(c)'
  <2>1. PICK x \in {Closed, [Closed EXCEPT !.pc = "recv"]} : conn' = [conn EXCEPT ![d] = x]
    BY <1>2 DEF Reply, Next_request
  <2>2. x.pc \notin {"wait", "run"}
    BY <2>1 DEF Closed
  <2> QED BY <1>1, <2>1, <2>2 DEF Resolved
<1>3. ASSUME NEW d \in Conn,
             \/ Accept(d) \/ Authenticate(d) \/ Disconnect(d)
             \/ \E op \in Ops, n \in Name, r \in Row \cup {Absent} : Request(d, op, n, r)
      PROVE  conn'[c] = conn[c] \/ ~Resolved(c)'
  <2>1. PICK x : conn' = [conn EXCEPT ![d] = x] /\ x.pc \notin {"wait", "run"}
    <3>1. CASE Accept(d)
      <4>1. conn' = [conn EXCEPT ![d] = [conn[d] EXCEPT !.pc = IF TokenRequired THEN "auth" ELSE "recv"]]
        BY <3>1 DEF Accept
      <4>2. [conn[d] EXCEPT !.pc = IF TokenRequired THEN "auth" ELSE "recv"].pc \notin {"wait", "run"}
        BY <1>1 DEF ConnRecord
      <4> QED BY <4>1, <4>2
    <3>2. CASE Authenticate(d) \/ Disconnect(d)
      BY <3>2 DEF Authenticate, Disconnect, Next_request, Closed
    <3>3. CASE \E op \in Ops, n \in Name, r \in Row \cup {Absent} : Request(d, op, n, r)
      BY <3>3 DEF Request
    <3> QED BY <1>3, <3>1, <3>2, <3>3
  <2> QED BY <1>1, <2>1 DEF Resolved
<1>4. ASSUME NEW d \in Conn,
             CreateCollection(d) \/ OpenCollection(d) \/ DropCollection(d) \/ RunOp(d)
      PROVE  conn'[c] = conn[c] \/ ~Resolved(c)'
  BY <1>2, <1>4 DEF CreateCollection, OpenCollection, DropCollection, RunOp, RunAdd,
       RunDelete, RunSave, RunSearchOrRaise
<1>5. ASSUME NEW d \in Conn, Resolve(d)
      PROVE  \/ conn'[c] = conn[c] \/ ~Resolved(c)'
             \/ /\ c = d /\ conn'[c].pc = "wait" /\ conn'[c].name \in Name
                /\ conn'[c].obj = cols'[conn'[c].name]
  <2>1. CASE Reply(d)
    BY <1>2, <2>1
  <2>2. CASE conn' = [conn EXCEPT ![d].pc = "wait", ![d].obj = cols'[conn[d].name],
                                  ![d].lock = locks'[conn[d].name]]
    <3>1. conn[d].name \in Name
      BY <1>5 DEF Resolve, IInv, ConnInv, RequestNamed
    <3> QED BY <1>1, <2>2, <3>1 DEF ConnRecord
  <2> QED BY <1>5, <2>1, <2>2 DEF Resolve
<1>6. ASSUME NEW d \in Conn, Acquire(d)
      PROVE  conn'[c] = conn[c] \/ (c = d /\ conn'[c] = [conn[c] EXCEPT !.pc = "run"])
  BY <1>1, <1>6 DEF Acquire
<1>7. CASE \/ UNCHANGED vars \/ PeriodicSave \/ Stop \/ Drain
           \/ \E s \in SaveThread : EndPass(s) \/ AcquireSave(s) \/ SaveRaises(s) \/ SaveReturns(s)
           \/ \E s \in SaveThread, n \in Name : LockFor(s, n)
  <2>1. CASE UNCHANGED vars \/ PeriodicSave \/ Stop \/ Drain
    BY <2>1 DEF vars, PeriodicSave, Stop, Drain
  <2>2. ASSUME NEW s \in SaveThread, EndPass(s) \/ AcquireSave(s) \/ SaveRaises(s) \/ SaveReturns(s)
        PROVE  conn' = conn
    BY <2>2 DEF EndPass, AcquireSave, SaveRaises, SaveReturns, Saved
  <2>3. ASSUME NEW s \in SaveThread, NEW n \in Name, LockFor(s, n)
        PROVE  conn' = conn
    BY <2>3 DEF LockFor
  <2> QED BY <1>7, <2>1, <2>2, <2>3
<1> QED BY <1>3, <1>4, <1>5, <1>6, <1>7 DEF Next, RunOp

(* A save thread is at a name: it holds or awaits the lock of it.                  *)
AtName(s) == pass[s].pc \in {"wait", "run"}

Between(s) == ~AtName(s) /\ pass[s].lock = Absent

TakesLock(s, n) ==
  /\ LockFor(s, n) /\ pass'[s].pc = "wait" /\ pass'[s].name = n
  /\ pass'[s].lock = locks'[n] /\ locks'[n] # Absent

TakesCollection(s) ==
  /\ AcquireSave(s) /\ pass[s].pc = "wait" /\ cols[pass[s].name] # Absent
  /\ pass'[s] = [pass[s] EXCEPT !.pc = "run", !.obj = cols[pass[s].name]]

LEMMA PassStep ==
  ASSUME IInv, PassType, [Next]_vars, NEW s \in SaveThread
  PROVE  \/ pass'[s] = pass[s] \/ Between(s)'
         \/ \E n \in Name : TakesLock(s, n)
         \/ TakesCollection(s)
<1>1. pass \in [SaveThread -> PassRecord]
  BY DEF PassType
<1>2. CASE UNCHANGED pass
  BY <1>2
<1>3. ASSUME NEW t \in SaveThread, BeginPass(t) \/ EndPass(t) \/ Saved(t)
      PROVE  pass'[s] = pass[s] \/ Between(s)'
  BY <1>1, <1>3 DEF BeginPass, EndPass, Saved, Resting, AtName, Between
<1>4. ASSUME NEW t \in SaveThread, NEW n \in Name, LockFor(t, n)
      PROVE  pass'[s] = pass[s] \/ TakesLock(s, n)
  <2>1. locks'[n] # Absent
    BY <1>4, LockExtends DEF LockFor, IInv
  <2> QED BY <1>1, <1>4, <2>1 DEF LockFor, PassRecord, TakesLock
<1>5. ASSUME NEW t \in SaveThread, AcquireSave(t)
      PROVE  pass'[s] = pass[s] \/ Between(s)' \/ TakesCollection(s)
  <2> DEFINE x == [pass[t] EXCEPT !.pc = "run", !.obj = cols[pass[t].name]]
             y == [Resting EXCEPT !.pc = "next", !.todo = pass[t].todo]
  <2>1. /\ pass[t].pc = "wait"
        /\ \/ pass' = [pass EXCEPT ![t] = x] /\ cols[pass[t].name] # Absent
           \/ pass' = [pass EXCEPT ![t] = y]
    BY <1>5 DEF AcquireSave
  <2>2. y.pc \notin {"wait", "run"} /\ y.lock = Absent
    BY DEF Resting
  <2> HIDE DEF y
  <2> QED BY <1>1, <1>5, <2>1, <2>2 DEF TakesCollection, AtName, Between
<1>6. CASE \/ UNCHANGED vars \/ Stop
           \/ \E c \in Conn :
                \/ Accept(c) \/ Authenticate(c) \/ Disconnect(c)
                \/ CreateCollection(c) \/ OpenCollection(c) \/ DropCollection(c)
                \/ Resolve(c) \/ Acquire(c)
                \/ RunAdd(c) \/ RunDelete(c) \/ RunSave(c) \/ RunSearchOrRaise(c)
           \/ \E c \in Conn, op \in Ops, n \in Name, r \in Row \cup {Absent} : Request(c, op, n, r)
  <2>1. CASE UNCHANGED vars \/ Stop
    BY <2>1, Zenon DEF vars, Stop
  <2>2. ASSUME NEW c \in Conn,
               \/ Accept(c) \/ Authenticate(c) \/ Disconnect(c)
               \/ CreateCollection(c) \/ OpenCollection(c) \/ DropCollection(c)
               \/ Resolve(c) \/ Acquire(c)
               \/ RunAdd(c) \/ RunDelete(c) \/ RunSave(c) \/ RunSearchOrRaise(c)
        PROVE  UNCHANGED pass
    BY <2>2 DEF Accept, Authenticate, Disconnect, CreateCollection, OpenCollection,
         DropCollection, Resolve, Acquire, RunAdd, RunDelete, RunSave, RunSearchOrRaise
  <2>3. (\E c \in Conn, op \in Ops, n \in Name, r \in Row \cup {Absent} : Request(c, op, n, r))
          => UNCHANGED pass
    BY DEF Request
  <2> QED BY <1>2, <1>6, <2>1, <2>2, <2>3
<1>7. (PeriodicSave => BeginPass(Saver)) /\ (Drain => BeginPass(Main))
  BY DEF PeriodicSave, Drain
<1>8. \A t \in SaveThread : SaveRaises(t) \/ SaveReturns(t) => Saved(t)
  BY DEF SaveRaises, SaveReturns
<1> QED BY <1>3, <1>4, <1>5, <1>6, <1>7, <1>8 DEF Next, SaveThread

(* Only a drop takes a name out of the registry, and only for that name; a new    *)
(* object comes only for a name without one.                                     *)
Opens(n) ==
  /\ cols[n] = Absent
  /\ \E rows \in SUBSET Row : NewObject(n, rows)

LEMMA ManageStep ==
  ASSUME IInv, NEW c \in Conn, CreateCollection(c) \/ OpenCollection(c) \/ Resolve(c)
  PROVE  LET n == conn[c].name
         IN  /\ n \in Name
             /\ \/ UNCHANGED <<objs, cols>> \/ Opens(n)
             /\ SetDefaultLock(n) \/ UNCHANGED <<locks, nlocks>>
             /\ \/ dropped' = dropped \ {n} /\ cols'[n] # Absent
                \/ UNCHANGED <<objs, cols, dropped>>
             /\ UNCHANGED <<disk, acked, due, failed, orphaned>>
<1> DEFINE n == conn[c].name
<1>1. n \in Name /\ disk[n].rows \in SUBSET Row
  BY DEF CreateCollection, OpenCollection, Resolve, Dispatching, IInv, ConnInv, RequestNamed,
         DiskType
<1>2. \A rows : NewObject(n, rows) => cols'[n] # Absent
  <2>1. Len(objs) + 1 # Absent
    BY LenProperties DEF IInv, RegistryType, Absent
  <2> QED BY <1>1, <2>1 DEF NewObject, IInv, RegistryType
<1>3. ASSUME CanGet(n), GetCol(n)
      PROVE  (UNCHANGED <<objs, cols>> \/ Opens(n)) /\ cols'[n] # Absent
  BY <1>1, <1>2, <1>3 DEF GetCol, Opens
<1>4. ASSUME ~CanGet(n), NewObject(n, {})
      PROVE  Opens(n) /\ cols'[n] # Absent
  BY <1>2, <1>4 DEF CanGet, Opens
<1>5. CASE CreateCollection(c)
  BY <1>1, <1>3, <1>4, <1>5 DEF CreateCollection
<1>6. CASE OpenCollection(c) \/ Resolve(c)
  BY <1>1, <1>3, <1>6 DEF OpenCollection, Resolve, registry
<1> QED BY <1>5, <1>6

LEMMA OpensKeeps ==
  ASSUME RegistryType, NEW n \in Name, Opens(n) \/ UNCHANGED <<objs, cols>>
  PROVE  /\ \A m \in Name : cols[m] # Absent => cols'[m] = cols[m]
         /\ \A o \in Objects : objs'[o] = objs[o]
         /\ Objects \subseteq Objects'
<1> DEFINE Obj == [name : Name, rows : SUBSET Row]
<1>1. objs \in Seq(Obj)
  BY DEF RegistryType
<1>2. Objects = 1..Len(objs) /\ Len(objs) \in Nat
  <2> HIDE DEF Obj
  <2> QED BY <1>1, LenProperties DEF Objects
<1>3. CASE UNCHANGED <<objs, cols>>
  BY <1>3 DEF Objects
<1>4. CASE Opens(n)
  <2>1. PICK rows \in SUBSET Row : NewObject(n, rows)
    BY <1>4 DEF Opens
  <2>2. /\ objs' = Append(objs, [name |-> n, rows |-> rows])
        /\ cols' = [cols EXCEPT ![n] = Len(objs) + 1] /\ cols[n] = Absent
    BY <1>4, <2>1 DEF NewObject, Opens
  <2>3. \A o \in 1..Len(objs) : objs'[o] = objs[o]
    BY <1>1, <1>2, <2>2
  <2>4. Objects' = 1..(Len(objs) + 1)
    <3>1. PICK e : objs' = Append(objs, e)
      BY <2>2
    <3>2. Len(objs') = Len(objs) + 1 /\ DOMAIN objs' = 1..(Len(objs) + 1)
      BY <1>1, <3>1
    <3> QED BY <3>2 DEF Objects
  <2>5. \A m \in Name : cols[m] # Absent => cols'[m] = cols[m]
    BY <2>2 DEF RegistryType
  <2> QED BY <1>2, <2>3, <2>4, <2>5
<1> QED BY <1>3, <1>4

LEMMA RegistryStep ==
  ASSUME IInv, [Next]_vars, NEW n \in Name
  PROVE  /\ \/ /\ cols[n] # Absent => cols'[n] = cols[n]
               /\ locks[n] # Absent => locks'[n] = locks[n]
            \/ \E c \in Conn : DropCollection(c) /\ conn[c].name = n
         /\ orphaned \subseteq orphaned'
         /\ \A o \in Objects : objs'[o].name = objs[o].name
<1>1. RegistryType
  BY DEF IInv
<1>2. \A m \in Name : SetDefaultLock(m) => (locks[n] # Absent => locks'[n] = locks[n])
  BY <1>1 DEF SetDefaultLock, RegistryType
<1>3. ASSUME NEW c \in Conn, CreateCollection(c) \/ OpenCollection(c) \/ Resolve(c)
      PROVE  /\ cols[n] # Absent => cols'[n] = cols[n]
             /\ locks[n] # Absent => locks'[n] = locks[n]
             /\ orphaned' = orphaned
             /\ \A o \in Objects : objs'[o].name = objs[o].name
  BY <1>1, <1>2, <1>3, ManageStep, OpensKeeps
<1>4. ASSUME NEW c \in Conn, DropCollection(c)
      PROVE  /\ \/ /\ cols'[n] = cols[n] /\ locks'[n] = locks[n]
                \/ conn[c].name = n
             /\ orphaned \subseteq orphaned'
             /\ \A o \in Objects : objs'[o].name = objs[o].name
  BY <1>1, <1>4 DEF DropCollection, RegistryType
<1>5. ASSUME NEW c \in Conn, RunAdd(c) \/ RunDelete(c)
      PROVE  /\ UNCHANGED <<cols, locks, orphaned>>
             /\ \A o \in Objects : objs'[o].name = objs[o].name
  <2>1. UNCHANGED <<cols, locks, orphaned>>
    BY <1>5 DEF RunAdd, RunDelete
  <2>2. \E rows : objs' = [objs EXCEPT ![conn[c].obj].rows = rows]
    <3>1. CASE RunAdd(c)
      <4>1. objs' = [objs EXCEPT ![conn[c].obj].rows = objs[conn[c].obj].rows \cup {conn[c].row}]
        BY <3>1 DEF RunAdd
      <4> QED BY <4>1
    <3>2. CASE RunDelete(c)
      <4>1. objs' = [objs EXCEPT ![conn[c].obj].rows = objs[conn[c].obj].rows \ {conn[c].row}]
        BY <3>2 DEF RunDelete
      <4> QED BY <4>1
    <3> QED BY <1>5, <3>1, <3>2
  <2>3. objs \in Seq([name : Name, rows : SUBSET Row])
    BY <1>1 DEF RegistryType
  <2>4. \A o \in Objects : objs[o] \in [name : Name, rows : SUBSET Row]
    <3> DEFINE Obj == [name : Name, rows : SUBSET Row]
    <3> HIDE DEF Obj
    <3>1. objs \in Seq(Obj)
      BY <2>3 DEF Obj
    <3>2. \A o \in Objects : objs[o] \in Obj
      BY <3>1, LenProperties, ElementOfSeq DEF Objects
    <3> QED BY <3>2 DEF Obj
  <2>5. \A o \in Objects : objs'[o].name = objs[o].name
    BY <2>2, <2>4 DEF Objects
  <2> QED BY <2>1, <2>5
<1>6. ASSUME NEW s \in SaveThread, NEW m \in Name, LockFor(s, m)
      PROVE  /\ UNCHANGED <<objs, cols, orphaned>>
             /\ locks[n] # Absent => locks'[n] = locks[n]
  <2>1. SetDefaultLock(m) /\ UNCHANGED <<objs, cols, orphaned>>
    BY <1>6 DEF LockFor, history
  <2> QED BY <1>2, <2>1
<1>7. ASSUME NEW c \in Conn,
             \/ Accept(c) \/ Authenticate(c) \/ Disconnect(c) \/ Acquire(c)
             \/ RunSave(c) \/ RunSearchOrRaise(c)
             \/ \E op \in Ops, m \in Name, r \in Row \cup {Absent} : Request(c, op, m, r)
      PROVE  UNCHANGED <<registry, orphaned>>
  <2>1. CASE \E op \in Ops, m \in Name, r \in Row \cup {Absent} : Request(c, op, m, r)
    BY <2>1 DEF Request, history
  <2>2. CASE \/ Accept(c) \/ Authenticate(c) \/ Disconnect(c) \/ Acquire(c)
             \/ RunSave(c) \/ RunSearchOrRaise(c)
    BY <2>2 DEF Accept, Authenticate, Disconnect, Acquire, RunSave, RunSearchOrRaise, history
  <2> QED BY <1>7, <2>1, <2>2
<1>8. ASSUME NEW s \in SaveThread, EndPass(s) \/ AcquireSave(s) \/ SaveRaises(s) \/ SaveReturns(s)
      PROVE  UNCHANGED <<registry, orphaned>>
  BY <1>8 DEF EndPass, AcquireSave, SaveRaises, SaveReturns, Saved, history
<1>9. CASE UNCHANGED vars \/ PeriodicSave \/ Stop \/ Drain
  <2>1. UNCHANGED <<registry, orphaned>>
    BY <1>9 DEF vars, registry, PeriodicSave, Stop, Drain, history
  <2> QED BY <2>1 DEF registry
<1> QED BY <1>3, <1>4, <1>5, <1>6, <1>7, <1>8, <1>9 DEF Next, registry

(* A name that is in use and not orphaned keeps its object and its lock.          *)
LEMMA InUseKept ==
  ASSUME IInv, [Next]_vars, NEW n \in Name, InFlight(n), n \notin orphaned'
  PROVE  /\ n \notin orphaned
         /\ cols[n] # Absent => cols'[n] = cols[n]
         /\ locks[n] # Absent => locks'[n] = locks[n]
<1>1. \A c \in Conn : DropCollection(c) /\ conn[c].name = n => n \in orphaned'
  BY DEF DropCollection
<1> QED BY <1>1, RegistryStep

-----------------------------------------------------------------------------
(* The save threads.  A name that nobody dropped under its users keeps its object   *)
(* and its lock for them, so a save and a request on one object meet at one lock.   *)

HeldRight ==
  \A c \in Conn : Resolved(c) /\ conn[c].name \notin orphaned =>
    cols[conn[c].name] = conn[c].obj

PassRight ==
  \A s \in SaveThread : pass[s].pc \in {"wait", "run"} /\ pass[s].name \notin orphaned =>
    /\ locks[pass[s].name] # Absent /\ pass[s].lock = locks[pass[s].name]
    /\ pass[s].pc = "run" => cols[pass[s].name] = pass[s].obj

PassNamed ==
  \A s \in SaveThread : pass[s].pc = "run" =>
    /\ pass[s].obj \in Objects
    /\ objs[pass[s].obj].name = pass[s].name

SaveAlone ==
  \A s \in SaveThread : pass[s].pc = "run" =>
    /\ \A c \in Conn : conn[c].pc = "run" => conn[c].lock # pass[s].lock
    /\ \A t \in SaveThread \ {s} : pass[t].pc = "run" => pass[t].lock # pass[s].lock

SaveInv == HeldRight /\ PassRight /\ PassNamed /\ SaveAlone

LEMMA HeldRightKeeps ==
  ASSUME IInv, HeldRight, [Next]_vars
  PROVE  HeldRight'
<1> SUFFICES ASSUME NEW c \in Conn, Resolved(c)', conn'[c].name \notin orphaned'
             PROVE  cols'[conn'[c].name] = conn'[c].obj
  BY DEF HeldRight
<1>1. CASE conn'[c] = conn[c] \/ (Acquire(c) /\ conn'[c] = [conn[c] EXCEPT !.pc = "run"])
  <2>1. Resolved(c) /\ conn'[c].name = conn[c].name /\ conn'[c].obj = conn[c].obj
    BY <1>1 DEF Resolved, Acquire, IInv, ConnInv, ConnType, ConnRecord
  <2>2. conn[c].name \in Name /\ InFlight(conn[c].name) /\ conn[c].obj # Absent
    BY <2>1, LenProperties DEF Resolved, InFlight, IInv, ConnInv, RequestNamed, ResolvedRight,
         RegistryType, Objects, Absent
  <2> QED BY <2>1, <2>2, InUseKept DEF HeldRight
<1>2. CASE Resolve(c) /\ conn'[c].obj = cols'[conn'[c].name]
  BY <1>2
<1> QED BY <1>1, <1>2, ConnStep

LEMMA PassRightKeeps ==
  ASSUME IInv, PassType, PassRight, [Next]_vars
  PROVE  PassRight'
<1> SUFFICES ASSUME NEW s \in SaveThread, AtName(s)', pass'[s].name \notin orphaned'
             PROVE  /\ locks'[pass'[s].name] # Absent /\ pass'[s].lock = locks'[pass'[s].name]
                    /\ pass'[s].pc = "run" => cols'[pass'[s].name] = pass'[s].obj
  BY DEF PassRight, AtName
<1> DEFINE n == pass[s].name
<1>1. pass \in [SaveThread -> PassRecord]
  BY DEF PassType
<1>2. ASSUME AtName(s), n \notin orphaned'
      PROVE  /\ n \in Name /\ locks'[n] # Absent /\ pass[s].lock = locks'[n]
             /\ cols[n] # Absent => cols'[n] = cols[n]
             /\ pass[s].pc = "run" => cols[n] = pass[s].obj /\ cols[n] # Absent
  <2>1. n \in Name /\ InFlight(n)
    BY <1>2 DEF PassType, InFlight, AtName
  <2>2. n \notin orphaned /\ (cols[n] # Absent => cols'[n] = cols[n])
        /\ (locks[n] # Absent => locks'[n] = locks[n])
    BY <1>2, <2>1, InUseKept
  <2> QED BY <1>2, <2>1, <2>2 DEF PassRight, PassType, AtName
<1>3. CASE pass'[s] = pass[s]
  BY <1>2, <1>3 DEF AtName
<1>4. CASE \E m \in Name : TakesLock(s, m)
  BY <1>4 DEF TakesLock
<1>5. CASE TakesCollection(s)
  <2>1. /\ AtName(s) /\ cols[n] # Absent
        /\ pass'[s].name = n /\ pass'[s].lock = pass[s].lock /\ pass'[s].obj = cols[n]
    BY <1>1, <1>5 DEF PassRecord, TakesCollection, AtName
  <2> QED BY <1>2, <2>1
<1> QED BY <1>3, <1>4, <1>5, PassStep DEF Between

LEMMA PassNamedKeeps ==
  ASSUME IInv, PassType, PassNamed, [Next]_vars
  PROVE  PassNamed'
<1> SUFFICES ASSUME NEW s \in SaveThread, pass'[s].pc = "run"
             PROVE  pass'[s].obj \in Objects' /\ objs'[pass'[s].obj].name = pass'[s].name
  BY DEF PassNamed
<1> DEFINE n == pass[s].name
<1>1. pass \in [SaveThread -> PassRecord]
  BY DEF PassType
<1>2. ASSUME AtName(s), NEW o \in Objects, objs[o].name = n
      PROVE  o \in Objects' /\ objs'[o].name = n
  <2>1. n \in Name
    BY <1>2 DEF PassType, AtName
  <2> QED BY <1>2, <2>1, ObjectsGrow, RegistryStep
<1>3. CASE pass'[s] = pass[s]
  BY <1>2, <1>3 DEF PassNamed, AtName
<1>4. CASE TakesCollection(s)
  <2>1. AtName(s) /\ cols[n] # Absent /\ pass'[s].name = n /\ pass'[s].obj = cols[n]
    BY <1>1, <1>4 DEF PassRecord, TakesCollection, AtName
  <2>2. cols[n] \in Objects /\ objs[cols[n]].name = n
    BY <2>1 DEF AtName, PassType, IInv, RegistryType, NamedRight
  <2> QED BY <1>2, <2>1, <2>2
<1>5. AtName(s)' /\ ~ \E m \in Name : TakesLock(s, m)
  BY DEF AtName, TakesLock
<1> QED BY <1>3, <1>4, <1>5, PassStep DEF Between

(* Who takes a lock finds nobody inside it that must not be there.                *)
LEMMA SaveAloneKeeps ==
  ASSUME IInv, PassType, SaveAlone, [Next]_vars
  PROVE  SaveAlone'
<1>1. pass \in [SaveThread -> PassRecord] /\ conn \in [Conn -> ConnRecord]
  BY DEF PassType, IInv, ConnInv, ConnType
<1>2. \A s \in SaveThread : pass'[s].pc = "run" =>
        \/ pass'[s] = pass[s]
        \/ AcquireSave(s) /\ pass'[s].lock = pass[s].lock
  <2>1. SUFFICES ASSUME NEW s \in SaveThread, pass'[s].pc = "run"
                 PROVE  \/ pass'[s] = pass[s]
                        \/ AcquireSave(s) /\ pass'[s].lock = pass[s].lock
    OBVIOUS
  <2>2. TakesCollection(s) => AcquireSave(s) /\ pass'[s].lock = pass[s].lock
    BY <1>1 DEF TakesCollection, PassRecord
  <2>3. AtName(s)' /\ ~ \E m \in Name : TakesLock(s, m)
    BY <2>1 DEF AtName, TakesLock
  <2> QED BY <2>2, <2>3, PassStep DEF Between
<1>3. \A c \in Conn : conn'[c].pc = "run" =>
        \/ conn'[c] = conn[c]
        \/ Acquire(c) /\ conn'[c].lock = conn[c].lock
  <2>1. SUFFICES ASSUME NEW c \in Conn, conn'[c].pc = "run"
                 PROVE  conn'[c] = conn[c] \/ (Acquire(c) /\ conn'[c].lock = conn[c].lock)
    OBVIOUS
  <2>2. conn'[c] = [conn[c] EXCEPT !.pc = "run"] => conn'[c].lock = conn[c].lock
    BY <1>1 DEF ConnRecord
  <2> QED BY <2>1, <2>2, ConnStep DEF Resolved
<1>4. ASSUME NEW s \in SaveThread, AcquireSave(s)
      PROVE  /\ \A c \in Conn : conn[c].pc = "run" => conn[c].lock # pass[s].lock
             /\ \A t \in SaveThread : pass[t].pc = "run" => pass[t].lock # pass[s].lock
             /\ conn' = conn /\ \A t \in SaveThread \ {s} : pass'[t] = pass[t]
  <2>1. NoHolder(pass[s].lock)
    BY <1>4 DEF AcquireSave
  <2>2. \A c \in Conn : conn[c].pc = "run" => conn[c].op \in DataOps
    BY DEF IInv, ConnInv, ResolvedRight, Resolved
  <2>3. conn' = conn
    BY <1>4 DEF AcquireSave
  <2>4. \E x : pass' = [pass EXCEPT ![s] = x]
    <3>1. \/ pass' = [pass EXCEPT ![s] = [pass[s] EXCEPT !.pc = "run", !.obj = cols[pass[s].name]]]
          \/ pass' = [pass EXCEPT ![s] = [Resting EXCEPT !.pc = "next", !.todo = pass[s].todo]]
      BY <1>1, <1>4 DEF AcquireSave
    <3> QED BY <3>1
  <2> QED BY <1>1, <2>1, <2>2, <2>3, <2>4 DEF NoHolder, ConnInside, SaveInside
<1>5. ASSUME NEW c \in Conn, Acquire(c)
      PROVE  /\ \A s \in SaveThread : pass[s].pc = "run" => pass[s].lock # conn[c].lock
             /\ pass' = pass
  <2>1. NoHolder(conn[c].lock) \/ NoWriter(conn[c].lock)
    BY <1>5 DEF Acquire
  <2> QED BY <1>5, <2>1 DEF NoHolder, NoWriter, SaveInside, Acquire
<1>6. SUFFICES ASSUME NEW s \in SaveThread, pass'[s].pc = "run"
               PROVE  /\ \A c \in Conn : conn'[c].pc = "run" => conn'[c].lock # pass'[s].lock
                      /\ \A t \in SaveThread \ {s} : pass'[t].pc = "run" => pass'[t].lock # pass'[s].lock
  BY DEF SaveAlone
<1>7. CASE AcquireSave(s) /\ pass'[s].lock = pass[s].lock
  BY <1>4, <1>7
<1>8. CASE pass'[s] = pass[s]
  <2>1. ASSUME NEW c \in Conn, conn'[c].pc = "run"
        PROVE  conn'[c].lock # pass'[s].lock
    BY <1>3, <1>5, <1>6, <1>8, <2>1 DEF SaveAlone
  <2>2. ASSUME NEW t \in SaveThread \ {s}, pass'[t].pc = "run"
        PROVE  pass'[t].lock # pass'[s].lock
    BY <1>2, <1>4, <1>6, <1>8, <2>2 DEF SaveAlone
  <2> QED BY <2>1, <2>2
<1> QED BY <1>2, <1>6, <1>7, <1>8

-----------------------------------------------------------------------------
(* What is acknowledged is in memory, what was dropped is off the disk.           *)

Memory ==
  /\ acked \in [Name -> SUBSET Row] /\ due \in [Name -> SUBSET Row]
  /\ SharedMemory
  /\ \A n \in Name : cols[n] = Absent => acked[n] = {}
  /\ \A n \in Name : due[n] \subseteq acked[n]

Dropped ==
  /\ dropped \subseteq Name
  /\ \A n \in dropped : cols[n] = Absent
  /\ DropIsFinal

(* Every step is one of these.                                                 *)
LEMMA StepKinds ==
  ASSUME [Next]_vars
  PROVE  \/ \E c \in Conn : CreateCollection(c) \/ OpenCollection(c) \/ Resolve(c)
         \/ \E c \in Conn : DropCollection(c)
         \/ \E c \in Conn : RunAdd(c) \/ RunDelete(c)
         \/ Drain
         \/ UNCHANGED <<objs, cols, acked, due, dropped, orphaned>>
<1>1. ASSUME NEW c \in Conn,
             \/ Accept(c) \/ Authenticate(c) \/ Disconnect(c) \/ Acquire(c)
             \/ RunSave(c) \/ RunSearchOrRaise(c)
             \/ \E op \in Ops, m \in Name, r \in Row \cup {Absent} : Request(c, op, m, r)
      PROVE  UNCHANGED <<objs, cols, acked, due, dropped, orphaned>>
  <2>1. CASE \E op \in Ops, m \in Name, r \in Row \cup {Absent} : Request(c, op, m, r)
    BY <2>1 DEF Request, history, registry
  <2>2. CASE \/ Accept(c) \/ Authenticate(c) \/ Disconnect(c) \/ Acquire(c)
             \/ RunSave(c) \/ RunSearchOrRaise(c)
    BY <2>2 DEF Accept, Authenticate, Disconnect, Acquire, RunSave, RunSearchOrRaise,
         history, registry
  <2> QED BY <1>1, <2>1, <2>2
<1>2. ASSUME NEW s \in SaveThread, EndPass(s) \/ AcquireSave(s) \/ SaveRaises(s) \/ SaveReturns(s)
      PROVE  UNCHANGED <<objs, cols, acked, due, dropped, orphaned>>
  BY <1>2 DEF EndPass, AcquireSave, SaveRaises, SaveReturns, Saved, history, registry
<1>3. ASSUME NEW s \in SaveThread, NEW m \in Name, LockFor(s, m)
      PROVE  UNCHANGED <<objs, cols, acked, due, dropped, orphaned>>
  BY <1>3 DEF LockFor, history
<1>4. CASE UNCHANGED vars \/ PeriodicSave \/ Stop
  BY <1>4 DEF vars, PeriodicSave, Stop, history, registry
<1> QED BY <1>1, <1>2, <1>3, <1>4 DEF Next

LEMMA MemoryKeeps ==
  ASSUME IInv, Memory, [Next]_vars
  PROVE  Memory'
<1>1. RegistryType /\ NamedRight
  BY DEF IInv
<1>2. CASE \E c \in Conn : CreateCollection(c) \/ OpenCollection(c) \/ Resolve(c)
  <2>1. PICK n \in Name : (UNCHANGED <<objs, cols>> \/ Opens(n)) /\ UNCHANGED <<acked, due>>
    BY <1>2, ManageStep
  <2>2. /\ \A m \in Name : cols[m] # Absent => cols'[m] = cols[m]
        /\ \A o \in Objects : objs'[o] = objs[o]
    BY <1>1, <2>1, OpensKeeps
  <2>3. \A m \in Name : cols[m] # Absent => cols[m] \in Objects
    BY <1>1 DEF RegistryType
  <2> QED BY <2>1, <2>2, <2>3 DEF Memory, SharedMemory
<1>3. ASSUME NEW c \in Conn, DropCollection(c)
      PROVE  Memory'
  <2> DEFINE n == conn[c].name
  <2>1. /\ cols' = [cols EXCEPT ![n] = Absent] /\ objs' = objs
        /\ acked' = [acked EXCEPT ![n] = {}] /\ due' = [due EXCEPT ![n] = {}]
    BY <1>3 DEF DropCollection
  <2> HIDE DEF n
  <2> QED BY <1>1, <2>1 DEF Memory, SharedMemory, RegistryType
<1>4. ASSUME NEW c \in Conn, RunAdd(c) \/ RunDelete(c)
      PROVE  Memory'
  <2> DEFINE o == conn[c].obj
             n == conn[c].name
             r == conn[c].row
  <2>1. /\ o \in Objects /\ n \in Name /\ objs[o].name = n /\ cols' = cols
    BY <1>4 DEF RunAdd, RunDelete, Running, IInv, ConnInv, ResolvedRight, RequestNamed, Resolved
  <2>2. /\ \A m \in Name : cols[m] = o <=> (m = n /\ IsCurrent(o))
        /\ \A m \in Name : cols[m] # Absent => cols[m] \in Objects
    BY <1>1, <2>1, LenProperties DEF IsCurrent, NamedRight, RegistryType, Objects, Absent
  <2>3. \A i \in Objects : objs[i] \in [name : Name, rows : SUBSET Row]
    <3> DEFINE Obj == [name : Name, rows : SUBSET Row]
    <3> HIDE DEF Obj
    <3>1. objs \in Seq(Obj)
      BY <1>1 DEF RegistryType, Obj
    <3>2. \A i \in Objects : objs[i] \in Obj
      BY <3>1, LenProperties, ElementOfSeq DEF Objects
    <3> QED BY <3>2 DEF Obj
  <2>4. CASE RunAdd(c)
    <3>1. /\ objs' = [objs EXCEPT ![o].rows = objs[o].rows \cup {r}]
          /\ acked' = IF IsCurrent(o) THEN [acked EXCEPT ![n] = acked[n] \cup {r}] ELSE acked
          /\ due' = due /\ r \in Row
      BY <2>4 DEF RunAdd, Running, IInv, ConnInv, RequestNamed
    <3>2. /\ objs'[o].rows = objs[o].rows \cup {r}
          /\ \A i \in Objects : i # o => objs'[i] = objs[i]
      BY <2>1, <2>3, <3>1 DEF Objects
    <3>3. acked' \in [Name -> SUBSET Row] /\ \A m \in Name : acked[m] \subseteq acked'[m]
      BY <2>1, <3>1 DEF Memory
    <3>4. \A m \in Name : acked'[m] = IF m = n /\ IsCurrent(o) THEN acked[m] \cup {r} ELSE acked[m]
      BY <2>1, <3>1 DEF Memory
    <3>5. SharedMemory' /\ \A m \in Name : cols[m] = Absent => acked'[m] = {}
      <4> HIDE DEF o, n, r
      <4>1. Absent \notin Objects
        BY <1>1, LenProperties DEF RegistryType, Objects, Absent
      <4>2. ASSUME NEW m \in Name, cols[m] = o
            PROVE  acked'[m] \subseteq objs'[cols[m]].rows
        <5>1. acked[m] \subseteq objs[o].rows
          BY <2>1, <4>1, <4>2 DEF Memory, SharedMemory
        <5>2. acked'[m] = acked[m] \cup {r}
          BY <2>2, <3>4, <4>2
        <5> QED BY <3>2, <4>2, <5>1, <5>2
      <4>3. ASSUME NEW m \in Name, cols[m] # o
            PROVE  /\ acked'[m] = acked[m]
                   /\ cols[m] # Absent => objs'[cols[m]] = objs[cols[m]]
        BY <2>2, <3>2, <3>4, <4>3
      <4>4. SharedMemory'
        BY <2>1, <4>2, <4>3 DEF Memory, SharedMemory
      <4> QED BY <2>1, <4>1, <4>3, <4>4 DEF Memory
    <3> QED BY <2>1, <3>1, <3>3, <3>5 DEF Memory
  <2>5. CASE RunDelete(c)
    <3>1. /\ objs' = [objs EXCEPT ![o].rows = objs[o].rows \ {r}]
          /\ IF IsCurrent(o)
             THEN /\ acked' = [acked EXCEPT ![n] = acked[n] \ {r}]
                  /\ due' = [due EXCEPT ![n] = due[n] \ {r}]
             ELSE acked' = acked /\ due' = due
      BY <2>5 DEF RunDelete
    <3>2. /\ objs'[o].rows = objs[o].rows \ {r}
          /\ \A i \in Objects : i # o => objs'[i] = objs[i]
      BY <2>1, <2>3, <3>1 DEF Objects
    <3>3. /\ acked' \in [Name -> SUBSET Row] /\ due' \in [Name -> SUBSET Row]
          /\ \A m \in Name : due'[m] \subseteq acked'[m]
          /\ \A m \in Name : acked'[m] = IF m = n /\ IsCurrent(o) THEN acked[m] \ {r} ELSE acked[m]
      <4> HIDE DEF o, n, r
      <4>1. CASE IsCurrent(o)
        <5>1. acked' = [acked EXCEPT ![n] = acked[n] \ {r}] /\ due' = [due EXCEPT ![n] = due[n] \ {r}]
          BY <3>1, <4>1
        <5> QED BY <2>1, <4>1, <5>1 DEF Memory
      <4>2. CASE ~IsCurrent(o)
        BY <3>1, <4>2 DEF Memory
      <4> QED BY <4>1, <4>2
    <3>4. SharedMemory' /\ \A m \in Name : cols[m] = Absent => acked'[m] = {}
      <4> HIDE DEF o, n, r
      <4> QED BY <2>1, <2>2, <3>2, <3>3 DEF Memory, SharedMemory
    <3> QED BY <2>1, <3>3, <3>4 DEF Memory
  <2> QED BY <1>4, <2>4, <2>5
<1>5. CASE Drain
  BY <1>5 DEF Drain, Memory, SharedMemory, registry
<1>6. CASE UNCHANGED <<objs, cols, acked, due, dropped, orphaned>>
  BY <1>6 DEF Memory, SharedMemory
<1> QED BY <1>2, <1>3, <1>4, <1>5, <1>6, StepKinds

(* A save writes what the registry has, unless the name was dropped under it.      *)
LEMMA DiskStep ==
  ASSUME IInv, PassType, HeldRight, PassRight, [Next]_vars, NEW n \in Name
  PROVE  \/ disk'[n] = disk[n]
         \/ \E c \in Conn : DropCollection(c) /\ conn[c].name = n
         \/ /\ UNCHANGED <<cols, acked, due, dropped, orphaned>>
            /\ n \notin orphaned => /\ cols[n] # Absent
                                    /\ disk'[n].rows = objs[cols[n]].rows
<1>1. DiskType /\ Absent \notin Objects
  BY LenProperties DEF IInv, RegistryType, Objects, Absent
<1>2. ASSUME NEW c \in Conn, DropCollection(c)
      PROVE  disk'[n] = disk[n] \/ conn[c].name = n
  BY <1>1, <1>2 DEF DropCollection, DiskType
<1>3. ASSUME NEW c \in Conn, RunSave(c), disk'[n] # disk[n]
      PROVE  /\ UNCHANGED <<cols, acked, due, dropped, orphaned>>
             /\ n \notin orphaned => cols[n] # Absent /\ disk'[n].rows = objs[cols[n]].rows
  <2>1. /\ disk' = [disk EXCEPT ![conn[c].name] = [there |-> TRUE, rows |-> objs[conn[c].obj].rows]]
        /\ UNCHANGED <<cols, acked, due, dropped, orphaned>>
        /\ Resolved(c)
    BY <1>3 DEF RunSave, Running, Resolved, registry, history
  <2>2. conn[c].name = n /\ disk'[n].rows = objs[conn[c].obj].rows
    BY <1>1, <1>3, <2>1 DEF DiskType
  <2>3. conn[c].obj # Absent
    BY <1>1, <2>1 DEF IInv, ConnInv, ResolvedRight
  <2> QED BY <2>1, <2>2, <2>3 DEF HeldRight
<1>4. ASSUME NEW s \in SaveThread, SaveReturns(s), disk'[n] # disk[n]
      PROVE  /\ UNCHANGED <<cols, acked, due, dropped, orphaned>>
             /\ n \notin orphaned => cols[n] # Absent /\ disk'[n].rows = objs[cols[n]].rows
  <2>1. /\ disk' = [disk EXCEPT ![pass[s].name] = [there |-> TRUE, rows |-> objs[pass[s].obj].rows]]
        /\ UNCHANGED <<cols, acked, due, dropped, orphaned>>
        /\ pass[s].pc = "run" /\ pass[s].obj # Absent
    BY <1>4 DEF SaveReturns, Saved, registry, PassType
  <2>2. pass[s].name = n /\ disk'[n].rows = objs[pass[s].obj].rows
    BY <1>1, <1>4, <2>1 DEF DiskType
  <2> QED BY <2>1, <2>2 DEF PassRight
<1>5. ASSUME NEW c \in Conn,
             \/ Accept(c) \/ Authenticate(c) \/ Disconnect(c) \/ Acquire(c)
             \/ CreateCollection(c) \/ OpenCollection(c) \/ Resolve(c)
             \/ RunAdd(c) \/ RunDelete(c) \/ RunSearchOrRaise(c)
      PROVE  disk' = disk
  BY <1>5 DEF Accept, Authenticate, Disconnect, Acquire, CreateCollection, OpenCollection,
       Resolve, RunAdd, RunDelete, RunSearchOrRaise
<1>6. ASSUME NEW c \in Conn, NEW op \in Ops, NEW m \in Name, NEW r \in Row \cup {Absent},
             Request(c, op, m, r)
      PROVE  disk' = disk
  BY <1>6 DEF Request
<1>7. ASSUME NEW s \in SaveThread, EndPass(s) \/ AcquireSave(s) \/ SaveRaises(s)
      PROVE  disk' = disk
  BY <1>7 DEF EndPass, AcquireSave, SaveRaises
<1>8. ASSUME NEW s \in SaveThread, NEW m \in Name, LockFor(s, m)
      PROVE  disk' = disk
  BY <1>8 DEF LockFor
<1>9. CASE UNCHANGED vars \/ PeriodicSave \/ Stop \/ Drain
  BY <1>9 DEF vars, PeriodicSave, Stop, Drain
<1> QED BY <1>2, <1>3, <1>4, <1>5, <1>6, <1>7, <1>8, <1>9 DEF Next

LEMMA DroppedKeeps ==
  ASSUME IInv, PassType, HeldRight, PassRight, Dropped, [Next]_vars
  PROVE  Dropped'
<1>1. RegistryType
  BY DEF IInv
<1>2. dropped' \subseteq Name /\ \A n \in dropped' : cols'[n] = Absent
  <2>1. CASE \E c \in Conn : CreateCollection(c) \/ OpenCollection(c) \/ Resolve(c)
    <3>1. PICK n \in Name : /\ UNCHANGED <<objs, cols>> \/ Opens(n)
                            /\ dropped' = dropped \ {n} \/ UNCHANGED <<objs, cols, dropped>>
      BY <2>1, ManageStep
    <3>2. Opens(n) => \A m \in Name : m # n => cols'[m] = cols[m]
      BY <1>1 DEF Opens, NewObject, RegistryType
    <3> QED BY <3>1, <3>2 DEF Dropped
  <2>2. ASSUME NEW c \in Conn, DropCollection(c)
        PROVE  dropped' \subseteq Name /\ \A n \in dropped' : cols'[n] = Absent
    <3> DEFINE n == conn[c].name
    <3>1. n \in Name /\ cols' = [cols EXCEPT ![n] = Absent] /\ dropped' = dropped \cup {n}
      BY <2>2 DEF DropCollection, Dispatching, IInv, ConnInv, RequestNamed
    <3> HIDE DEF n
    <3> QED BY <1>1, <3>1 DEF Dropped, RegistryType
  <2>3. CASE (\E c \in Conn : RunAdd(c) \/ RunDelete(c)) \/ Drain
             \/ UNCHANGED <<objs, cols, acked, due, dropped, orphaned>>
    <3>1. UNCHANGED <<cols, dropped>>
      BY <2>3 DEF RunAdd, RunDelete, Drain, registry
    <3> QED BY <3>1 DEF Dropped
  <2> QED BY <2>1, <2>2, <2>3, StepKinds
<1>3. DropIsFinal'
  <2>1. SUFFICES ASSUME NEW n \in dropped', n \notin orphaned' PROVE ~disk'[n].there
    BY DEF DropIsFinal
  <2>2. n \in Name /\ cols'[n] = Absent /\ n \notin orphaned
    BY <1>2, <2>1, RegistryStep
  <2>3. CASE \E c \in Conn : DropCollection(c) /\ conn[c].name = n
    BY <2>2, <2>3 DEF DropCollection, IInv, DiskType
  <2>4. CASE ~ \E c \in Conn : DropCollection(c) /\ conn[c].name = n
    <3>1. n \in dropped
      <4>1. CASE \E c \in Conn : CreateCollection(c) \/ OpenCollection(c) \/ Resolve(c)
        BY <2>1, <4>1, ManageStep
      <4>2. CASE \E c \in Conn : DropCollection(c)
        BY <2>1, <2>4, <4>2 DEF DropCollection
      <4>3. CASE (\E c \in Conn : RunAdd(c) \/ RunDelete(c)) \/ Drain
                 \/ UNCHANGED <<objs, cols, acked, due, dropped, orphaned>>
        <5>1. dropped' = dropped
          BY <4>3 DEF RunAdd, RunDelete, Drain
        <5> QED BY <2>1, <5>1
      <4> QED BY <4>1, <4>2, <4>3, StepKinds
    <3>2. cols[n] = Absent /\ ~disk[n].there
      BY <2>2, <3>1 DEF Dropped, DropIsFinal
    <3> QED BY <2>2, <2>4, <3>2, DiskStep
  <2> QED BY <2>3, <2>4
<1> QED BY <1>2, <1>3 DEF Dropped

-----------------------------------------------------------------------------
(* The drain.  A name that is due is on disk, or Main still has it to save.        *)

ToSave(n) == n \in pass[Main].todo \/ (AtName(Main) /\ pass[Main].name = n)

Draining ==
  /\ \A n \in Name \ (failed \cup orphaned \cup dropped) :
       due[n] \subseteq disk[n].rows \/ ToSave(n)
  /\ pass[Main].pc = "exited" => pass[Main].todo = {}

LEMMA MainKinds ==
  ASSUME PassType, [Next]_vars
  PROVE  \/ pass'[Main] = pass[Main] \/ Drain \/ EndPass(Main) \/ AcquireSave(Main)
         \/ SaveRaises(Main) \/ SaveReturns(Main) \/ \E m \in Name : LockFor(Main, m)
<1>1. pass \in [SaveThread -> PassRecord] /\ Main \in SaveThread /\ Saver \in SaveThread
  BY DEF PassType, SaveThread
<1>2. Saver # Main
  BY ThreadAssumption
<1>3. ASSUME PeriodicSave \/ EndPass(Saver) \/ AcquireSave(Saver) \/ SaveRaises(Saver)
             \/ SaveReturns(Saver) \/ \E m \in Name : LockFor(Saver, m)
      PROVE  pass'[Main] = pass[Main]
  <2>1. ASSUME NEW m \in Name, LockFor(Saver, m)
        PROVE  pass'[Main] = pass[Main]
    BY <1>1, <1>2, <2>1 DEF LockFor
  <2>2. AcquireSave(Saver) => pass'[Main] = pass[Main]
    BY <1>1, <1>2 DEF AcquireSave
  <2>3. PeriodicSave \/ EndPass(Saver) \/ SaveRaises(Saver) \/ SaveReturns(Saver)
          => pass'[Main] = pass[Main]
    BY <1>1, <1>2, SMTT(30) DEF PeriodicSave, BeginPass, EndPass, SaveRaises, SaveReturns, Saved
  <2> QED BY <1>3, <2>1, <2>2, <2>3
<1>4. ASSUME NEW c \in Conn,
             \/ Accept(c) \/ Authenticate(c) \/ Disconnect(c)
             \/ CreateCollection(c) \/ OpenCollection(c) \/ DropCollection(c)
             \/ Resolve(c) \/ Acquire(c)
             \/ RunAdd(c) \/ RunDelete(c) \/ RunSave(c) \/ RunSearchOrRaise(c)
      PROVE  UNCHANGED pass
  BY <1>4 DEF Accept, Authenticate, Disconnect, CreateCollection, OpenCollection,
       DropCollection, Resolve, Acquire, RunAdd, RunDelete, RunSave, RunSearchOrRaise
<1>5. (\E c \in Conn, op \in Ops, m \in Name, r \in Row \cup {Absent} : Request(c, op, m, r))
        => UNCHANGED pass
  BY DEF Request
<1>6. CASE UNCHANGED vars \/ Stop
  BY <1>6 DEF vars, Stop
<1> QED BY <1>3, <1>4, <1>5, <1>6 DEF Next, SaveThread

LEMMA MainStep ==
  ASSUME IInv, PassType, [Next]_vars, ~Drain, NEW n \in Name, ToSave(n)
  PROVE  \/ ToSave(n)' \/ n \in failed' \/ cols[n] = Absent
         \/ SaveReturns(Main) /\ pass[Main].name = n
<1>1. pass \in [SaveThread -> PassRecord] /\ Main \in SaveThread /\ Saver \in SaveThread
  BY DEF PassType, SaveThread
<1>2. CASE pass'[Main] = pass[Main]
  BY <1>2 DEF ToSave, AtName
<1>3. CASE EndPass(Main)
  BY <1>3 DEF EndPass, ToSave, AtName
<1>4. ASSUME NEW m \in Name, LockFor(Main, m)
      PROVE  ToSave(n)'
  <2>1. pass[Main].pc = "next" /\ n \in pass[Main].todo
    BY <1>4 DEF LockFor, ToSave, AtName
  <2>2. /\ pass'[Main].pc = "wait" /\ pass'[Main].name = m
        /\ pass'[Main].todo = pass[Main].todo \ {m}
    BY <1>1, <1>4 DEF LockFor, PassRecord
  <2> QED BY <2>1, <2>2 DEF ToSave, AtName
<1>5. CASE AcquireSave(Main)
  <2>1. CASE pass' = [pass EXCEPT ![Main].pc = "run", ![Main].obj = cols[pass[Main].name]]
    <3>1. /\ pass'[Main].pc = "run" /\ pass'[Main].name = pass[Main].name
          /\ pass'[Main].todo = pass[Main].todo
      BY <1>1, <2>1 DEF PassRecord
    <3> QED BY <3>1 DEF ToSave, AtName
  <2>2. CASE /\ cols[pass[Main].name] = Absent
             /\ pass' = [pass EXCEPT ![Main] = [Resting EXCEPT !.pc = "next", !.todo = pass[Main].todo]]
    <3>1. pass'[Main].todo = pass[Main].todo
      BY <1>1, <2>2 DEF Resting
    <3> QED BY <2>2, <3>1 DEF ToSave
  <2> QED BY <1>5, <2>1, <2>2 DEF AcquireSave
<1>6. CASE SaveRaises(Main) \/ SaveReturns(Main)
  <2>1. pass'[Main].todo = pass[Main].todo
    BY <1>1, <1>6 DEF SaveRaises, SaveReturns, Saved, Resting
  <2>2. SaveRaises(Main) => failed' = failed \cup {pass[Main].name}
    BY DEF SaveRaises
  <2> QED BY <1>6, <2>1, <2>2 DEF ToSave
<1> QED BY <1>2, <1>3, <1>4, <1>5, <1>6, MainKinds

LEMMA FailedGrows ==
  ASSUME [Next]_vars
  PROVE  failed \subseteq failed'
<1>1. ASSUME NEW c \in Conn,
             \/ Accept(c) \/ Authenticate(c) \/ Disconnect(c)
             \/ CreateCollection(c) \/ OpenCollection(c) \/ DropCollection(c)
             \/ Resolve(c) \/ Acquire(c)
             \/ RunAdd(c) \/ RunDelete(c) \/ RunSave(c) \/ RunSearchOrRaise(c)
      PROVE  failed' = failed
  BY <1>1 DEF Accept, Authenticate, Disconnect, CreateCollection, OpenCollection,
       DropCollection, Resolve, Acquire, RunAdd, RunDelete, RunSave, RunSearchOrRaise, history
<1>2. ASSUME NEW c \in Conn, NEW op \in Ops, NEW m \in Name, NEW r \in Row \cup {Absent},
             Request(c, op, m, r)
      PROVE  failed' = failed
  BY <1>2 DEF Request, history
<1>3. ASSUME NEW s \in SaveThread, EndPass(s) \/ AcquireSave(s) \/ SaveRaises(s) \/ SaveReturns(s)
      PROVE  failed \subseteq failed'
  BY <1>3 DEF EndPass, AcquireSave, SaveRaises, SaveReturns, history
<1>4. ASSUME NEW s \in SaveThread, NEW m \in Name, LockFor(s, m)
      PROVE  failed' = failed
  BY <1>4 DEF LockFor, history
<1>5. CASE UNCHANGED vars \/ PeriodicSave \/ Stop \/ Drain
  BY <1>5 DEF vars, PeriodicSave, Stop, Drain, history
<1> QED BY <1>1, <1>2, <1>3, <1>4, <1>5 DEF Next

LEMMA DueShrinks ==
  ASSUME IInv, Memory, [Next]_vars, ~Drain, NEW n \in Name
  PROVE  due'[n] \subseteq due[n]
<1>1. ASSUME NEW c \in Conn, CreateCollection(c) \/ OpenCollection(c) \/ Resolve(c)
      PROVE  due' = due
  BY <1>1, ManageStep
<1>2. ASSUME NEW c \in Conn, DropCollection(c)
      PROVE  due'[n] \subseteq due[n]
  BY <1>2 DEF DropCollection, Memory
<1>3. ASSUME NEW c \in Conn, RunAdd(c) \/ RunDelete(c)
      PROVE  due'[n] \subseteq due[n]
  <2>1. due' = due \/ due' = [due EXCEPT ![conn[c].name] = due[conn[c].name] \ {conn[c].row}]
    BY <1>3 DEF RunAdd, RunDelete
  <2> QED BY <2>1 DEF Memory
<1> QED BY <1>1, <1>2, <1>3, StepKinds

LEMMA DrainingKeeps ==
  ASSUME IInv, PassType, HeldRight, PassRight, Memory, Dropped, Draining, [Next]_vars
  PROVE  Draining'
<1>1. pass \in [SaveThread -> PassRecord] /\ Main \in SaveThread
  BY DEF PassType, SaveThread
<1>2. ASSUME NEW n \in Name, cols[n] = Absent
      PROVE  due[n] = {}
  BY <1>2 DEF Memory
<1>3. ASSUME NEW n \in Name, n \notin failed', n \notin orphaned', n \notin dropped'
      PROVE  due'[n] \subseteq disk'[n].rows \/ ToSave(n)'
  <2>1. CASE Drain
    <3>1. due' = acked /\ pass' = [pass EXCEPT ![Main] = [Resting EXCEPT !.pc = "next", !.todo = OpenNames]]
      BY <2>1 DEF Drain, BeginPass
    <3>2. pass'[Main].todo = OpenNames
      BY <1>1, <3>1 DEF Resting
    <3>3. n \in OpenNames \/ acked[n] = {}
      BY DEF OpenNames, Memory
    <3> QED BY <3>1, <3>2, <3>3 DEF ToSave
  <2>2. CASE ~Drain
    <3>1. due'[n] \subseteq due[n]
      BY <2>2, DueShrinks
    <3>2. CASE cols[n] = Absent
      BY <1>2, <3>1, <3>2
    <3>3. CASE cols[n] # Absent
      <4>1. n \notin failed /\ n \notin orphaned /\ n \notin dropped
        BY <1>3, <3>3, FailedGrows, RegistryStep DEF Dropped
      <4>2. ~ \E c \in Conn : DropCollection(c) /\ conn[c].name = n
        BY <1>3 DEF DropCollection
      <4>3. due[n] \subseteq objs[cols[n]].rows
        BY <3>3 DEF Memory, SharedMemory
      <4>4. CASE due[n] \subseteq disk[n].rows
        BY <3>1, <4>1, <4>2, <4>3, <4>4, DiskStep
      <4>5. CASE ToSave(n)
        <5>1. CASE SaveReturns(Main) /\ pass[Main].name = n
          <6>1. pass[Main].pc = "run" /\ cols[n] = pass[Main].obj
            BY <1>1, <4>1, <5>1 DEF SaveReturns, PassRight
          <6>2. disk'[n].rows = objs[pass[Main].obj].rows
            BY <5>1 DEF SaveReturns, IInv, DiskType
          <6> QED BY <3>1, <4>3, <6>1, <6>2
        <5> QED BY <1>3, <2>2, <3>3, <4>5, <5>1, MainStep
      <4> QED BY <4>1, <4>4, <4>5 DEF Draining
    <3> QED BY <3>2, <3>3
  <2> QED BY <2>1, <2>2
<1>4. pass'[Main].pc = "exited" => pass'[Main].todo = {}
  <2>1. CASE pass'[Main] = pass[Main]
    BY <2>1 DEF Draining
  <2>2. CASE EndPass(Main)
    <3>1. pass'[Main] = [Resting EXCEPT !.pc = "exited"]
      BY <1>1, <2>2 DEF EndPass
    <3> QED BY <3>1 DEF Resting
  <2>3. CASE Drain \/ SaveRaises(Main) \/ SaveReturns(Main)
    <3>1. pass'[Main].pc = "next"
      BY <1>1, <2>3 DEF Drain, BeginPass, SaveRaises, SaveReturns, Saved, Resting
    <3> QED BY <3>1
  <2>4. CASE AcquireSave(Main)
    <3>1. \/ pass' = [pass EXCEPT ![Main].pc = "run", ![Main].obj = cols[pass[Main].name]]
          \/ pass' = [pass EXCEPT ![Main] = [Resting EXCEPT !.pc = "next", !.todo = pass[Main].todo]]
      BY <2>4 DEF AcquireSave
    <3>2. pass'[Main].pc \in {"run", "next"}
      BY <1>1, <3>1 DEF PassRecord, Resting
    <3> QED BY <3>2
  <2>5. ASSUME NEW m \in Name, LockFor(Main, m)
        PROVE  pass'[Main].pc # "exited"
    <3>1. pass'[Main].pc = "wait"
      BY <1>1, <2>5 DEF LockFor, PassRecord
    <3> QED BY <3>1
  <2> QED BY <2>1, <2>2, <2>3, <2>4, <2>5, MainKinds
<1> QED BY <1>3, <1>4 DEF Draining

-----------------------------------------------------------------------------
(* The second invariant and its theorems.                                       *)

LEMMA LocksGrow ==
  ASSUME IInv, [Next]_vars
  PROVE  nlocks \in 0..nlocks'
<1>1. nlocks \in Nat
  BY DEF IInv, RegistryType
<1>2. \A m \in Name : SetDefaultLock(m) => nlocks \in 0..nlocks'
  BY <1>1 DEF SetDefaultLock
<1>3. ASSUME NEW c \in Conn, CreateCollection(c) \/ OpenCollection(c) \/ Resolve(c)
      PROVE  nlocks \in 0..nlocks'
  BY <1>1, <1>2, <1>3, ManageStep
<1>4. ASSUME NEW c \in Conn,
             \/ Accept(c) \/ Authenticate(c) \/ Disconnect(c) \/ Acquire(c) \/ DropCollection(c)
             \/ RunAdd(c) \/ RunDelete(c) \/ RunSave(c) \/ RunSearchOrRaise(c)
      PROVE  nlocks' = nlocks
  BY <1>4 DEF Accept, Authenticate, Disconnect, Acquire, DropCollection, RunAdd, RunDelete,
       RunSave, RunSearchOrRaise, registry
<1>5. ASSUME NEW c \in Conn, NEW op \in Ops, NEW m \in Name, NEW r \in Row \cup {Absent},
             Request(c, op, m, r)
      PROVE  nlocks' = nlocks
  BY <1>5 DEF Request, registry
<1>6. ASSUME NEW s \in SaveThread, EndPass(s) \/ AcquireSave(s) \/ SaveRaises(s) \/ SaveReturns(s)
      PROVE  nlocks' = nlocks
  BY <1>6 DEF EndPass, AcquireSave, SaveRaises, SaveReturns, Saved, registry
<1>7. ASSUME NEW s \in SaveThread, NEW m \in Name, LockFor(s, m)
      PROVE  nlocks \in 0..nlocks'
  BY <1>2, <1>7 DEF LockFor
<1>8. CASE UNCHANGED vars \/ PeriodicSave \/ Stop \/ Drain
  BY <1>1, <1>8 DEF vars, PeriodicSave, Stop, Drain, registry
<1> QED BY <1>1, <1>3, <1>4, <1>5, <1>6, <1>7, <1>8 DEF Next

(* The part of the type invariant that no other lemma needs.                       *)
RestTyped ==
  /\ \A s \in SaveThread : pass[s].lock \in 0..nlocks
  /\ stop \in BOOLEAN /\ drops \in 0..MaxDrops
  /\ failed \subseteq Name /\ orphaned \subseteq Name

LEMMA RestTypedKeeps ==
  ASSUME IInv, PassType, RestTyped, [Next]_vars
  PROVE  RestTyped'
<1>1. pass \in [SaveThread -> PassRecord] /\ RegistryType /\ RegistryType' /\ nlocks \in 0..nlocks'
  BY Inductive, LocksGrow DEF PassType, IInv
<1>2. \A s \in SaveThread : pass'[s].lock \in 0..nlocks'
  <2>1. SUFFICES ASSUME NEW s \in SaveThread PROVE pass'[s].lock \in 0..nlocks'
    OBVIOUS
  <2>2. CASE pass'[s] = pass[s]
    BY <1>1, <2>2 DEF RestTyped, RegistryType
  <2>3. CASE Between(s)'
    BY <1>1, <2>3 DEF Between, RegistryType, Absent
  <2>4. CASE \E n \in Name : TakesLock(s, n)
    BY <1>1, <2>4 DEF TakesLock, RegistryType
  <2>5. CASE TakesCollection(s)
    <3>1. pass'[s].lock = pass[s].lock
      BY <1>1, <2>5 DEF TakesCollection, PassRecord
    <3> QED BY <1>1, <3>1 DEF RestTyped, RegistryType
  <2> QED BY <2>2, <2>3, <2>4, <2>5, PassStep
<1> DEFINE Typed == /\ stop \in BOOLEAN /\ drops \in 0..MaxDrops
                    /\ failed \subseteq Name /\ orphaned \subseteq Name
<1>3. Typed'
  <2>1. ASSUME NEW c \in Conn, NEW op \in Ops, NEW m \in Name, NEW r \in Row \cup {Absent},
               Request(c, op, m, r)
        PROVE  Typed'
    BY <2>1, MaxDropsAssumption, SMTT(30) DEF Request, history, RestTyped
  <2>2. ASSUME NEW c \in Conn,
               \/ Accept(c) \/ Authenticate(c) \/ Disconnect(c)
               \/ CreateCollection(c) \/ OpenCollection(c) \/ Resolve(c) \/ Acquire(c)
               \/ RunAdd(c) \/ RunDelete(c) \/ RunSave(c) \/ RunSearchOrRaise(c)
        PROVE  Typed'
    BY <2>2 DEF Accept, Authenticate, Disconnect, CreateCollection, OpenCollection, Resolve,
         Acquire, RunAdd, RunDelete, RunSave, RunSearchOrRaise, history, RestTyped
  <2>3. ASSUME NEW c \in Conn, DropCollection(c)
        PROVE  Typed'
    BY <2>3 DEF DropCollection, Dispatching, IInv, ConnInv, RequestNamed, RestTyped
  <2>4. ASSUME NEW s \in SaveThread, SaveRaises(s) \/ SaveReturns(s)
        PROVE  Typed'
    BY <2>4 DEF SaveRaises, SaveReturns, Saved, PassType, RestTyped
  <2>5. ASSUME NEW s \in SaveThread, EndPass(s) \/ AcquireSave(s)
        PROVE  Typed'
    BY <2>5 DEF EndPass, AcquireSave, history, RestTyped
  <2>6. ASSUME NEW s \in SaveThread, NEW m \in Name, LockFor(s, m)
        PROVE  Typed'
    BY <2>6 DEF LockFor, history, RestTyped
  <2>7. CASE UNCHANGED vars \/ PeriodicSave \/ Stop \/ Drain
    BY <2>7 DEF vars, PeriodicSave, Stop, Drain, history, RestTyped
  <2> HIDE DEF Typed
  <2> QED BY <2>1, <2>2, <2>3, <2>4, <2>5, <2>6, <2>7 DEF Next
<1> QED BY <1>2, <1>3 DEF RestTyped

Kept == SaveInv /\ Memory /\ Dropped /\ Draining /\ RestTyped

LEMMA KeptInitially == Init => Kept
<1> SUFFICES ASSUME Init PROVE Kept
  OBVIOUS
<1>1. \A s \in SaveThread : pass[s] = Resting
  BY DEF Init
<1>2. \A s \in SaveThread : pass[s].pc = "rest"
  BY <1>1 DEF Resting
<1>3. \A c \in Conn : conn[c].pc = "closed"
  BY DEF Init, Closed
<1>4. SaveInv
  BY <1>2, <1>3 DEF SaveInv, HeldRight, PassRight, PassNamed, SaveAlone, Resolved
<1>5. Memory /\ Dropped
  BY DEF Init, Memory, SharedMemory, Dropped, DropIsFinal
<1>6. Draining
  <2>1. pass[Main].pc = "rest"
    BY <1>2 DEF SaveThread
  <2>2. \A n \in Name : due[n] = {}
    BY DEF Init
  <2> QED BY <2>1, <2>2 DEF Draining
<1>7. RestTyped
  <2>1. \A s \in SaveThread : pass[s].lock = 0
    BY <1>1 DEF Resting, Absent
  <2>2. nlocks = 0 /\ stop = FALSE /\ drops = 0 /\ failed = {} /\ orphaned = {}
    BY DEF Init
  <2>3. drops \in 0..MaxDrops
    BY <2>2, MaxDropsAssumption
  <2>4. \A s \in SaveThread : pass[s].lock \in 0..nlocks
    BY <2>1, <2>2
  <2> QED BY <2>2, <2>3, <2>4 DEF RestTyped
<1> QED BY <1>4, <1>5, <1>6, <1>7 DEF Kept

(* Of a collection that is not dropped under its users, memory and lock stay those  *)
(* the registry names, and a drain that began has saved it or still will           *)
(* (_save_all_open, drop_collection).                                          *)
THEOREM KeptInvariance == Spec => [](IInv /\ PassType /\ Kept)
<1>1. IInv /\ PassType /\ Kept /\ [Next]_vars => Kept'
  BY HeldRightKeeps, PassRightKeeps, PassNamedKeeps, SaveAloneKeeps, MemoryKeeps,
     DroppedKeeps, DrainingKeeps, RestTypedKeeps DEF Kept, SaveInv
<1> QED BY <1>1, Initially, Inductive, KeptInitially, PTL DEF Spec

(* The registry points at objects and locks that exist, and every position of a     *)
(* handler or a save thread names what it has resolved (_dispatch, _save_all_open). *)
THEOREM TypeCorrect == Spec => []TypeOK
<1>1. IInv /\ PassType /\ Kept => TypeOK
  <2>1. SUFFICES ASSUME IInv, PassType, Kept PROVE TypeOK
    OBVIOUS
  <2> DEFINE Rec == [pc : {"rest", "next", "wait", "run", "exited"}, todo : SUBSET Name,
                     name : MaybeName, obj : Objects \cup {Absent}, lock : 0..nlocks]
  <2>2. pass \in [SaveThread -> Rec]
    <3>1. \A s \in SaveThread : pass[s] \in Rec
      BY <2>1 DEF PassType, PassRecord, Kept, RestTyped
    <3> QED BY <2>1, <3>1 DEF PassType
  <2>3. conn \in [Conn -> ConnRecord]
    BY <2>1 DEF IInv, ConnInv, ConnType
  <2> QED BY <2>1, <2>2, <2>3 DEF TypeOK, IInv, RegistryType, DiskType, ConnRecord, Kept, Memory,
             Dropped, RestTyped
<1> QED BY <1>1, KeptInvariance, PTL

(* A save thread and a request, or two save threads, are never inside one object,  *)
(* but for a collection dropped under one of them: they would hold the same lock   *)
(* (_save_all_open, "under its write lock", server.py:104).                      *)
THEOREM SavesAreExclusive == Spec => []SaveIsExclusive
<1>1. IInv /\ PassType /\ Kept => SaveIsExclusive
  <2>1. SUFFICES ASSUME IInv, PassType, Kept, NEW s \in SaveThread, pass[s].pc = "run",
                        pass[s].name \notin orphaned
                 PROVE  /\ \A c \in Conn : conn[c].pc = "run" => conn[c].obj # pass[s].obj
                        /\ \A t \in SaveThread \ {s} : pass[t].pc = "run" => pass[t].obj # pass[s].obj
    BY DEF SaveIsExclusive
  <2>2. /\ cols[pass[s].name] = pass[s].obj /\ pass[s].lock = locks[pass[s].name]
        /\ objs[pass[s].obj].name = pass[s].name
    BY <2>1 DEF Kept, SaveInv, PassRight, PassNamed
  <2>3. ASSUME NEW c \in Conn, conn[c].pc = "run", conn[c].obj = pass[s].obj
        PROVE  FALSE
    <3>1. Resolved(c)
      BY <2>3 DEF Resolved
    <3>2. conn[c].name = pass[s].name /\ IsCurrent(conn[c].obj)
      BY <2>1, <2>2, <2>3, <3>1 DEF IInv, ConnInv, ResolvedRight, IsCurrent
    <3>3. conn[c].lock = pass[s].lock
      BY <2>1, <2>2, <3>1, <3>2 DEF IInv, ConnInv, OneLockPerObject
    <3> QED BY <2>1, <2>3, <3>3 DEF Kept, SaveInv, SaveAlone
  <2>4. ASSUME NEW t \in SaveThread \ {s}, pass[t].pc = "run", pass[t].obj = pass[s].obj
        PROVE  FALSE
    <3>1. pass[t].name = pass[s].name
      BY <2>1, <2>2, <2>4 DEF Kept, SaveInv, PassNamed
    <3>2. pass[t].lock = pass[s].lock
      BY <2>1, <2>2, <2>4, <3>1 DEF Kept, SaveInv, PassRight
    <3> QED BY <2>1, <2>4, <3>2 DEF Kept, SaveInv, SaveAlone
  <2> QED BY <2>3, <2>4
<1> QED BY <1>1, KeptInvariance, PTL

(* Every acknowledged row is in the object the next request finds under the name,  *)
(* however often it is dropped, created and opened again (_get_col).              *)
THEOREM MemoryIsShared == Spec => []SharedMemory
<1>1. IInv /\ PassType /\ Kept => SharedMemory
  BY DEF Kept, Memory
<1> QED BY <1>1, KeptInvariance, PTL

(* A dropped collection stays off the disk until it is created again, unless        *)
(* something was in flight on it: no save holds an object of it (drop_collection).  *)
THEOREM DropsAreFinal == Spec => []DropIsFinal
<1>1. IInv /\ PassType /\ Kept => DropIsFinal
  BY DEF Kept, Dropped
<1> QED BY <1>1, KeptInvariance, PTL

(* What was acknowledged when the drain began is on disk when the process exits, if  *)
(* its save succeeded and nobody dropped it (serve_forever, _save_all_open).       *)
THEOREM DrainSavesDue == Spec => []DrainKeepsDue
<1>1. IInv /\ PassType /\ Kept => DrainKeepsDue
  <2>1. SUFFICES ASSUME IInv, PassType, Kept, ~Serving,
                        NEW n \in Name \ (failed \cup orphaned \cup dropped)
                 PROVE  due[n] \subseteq disk[n].rows
    BY DEF DrainKeepsDue
  <2>2. ~ToSave(n)
    BY <2>1 DEF Serving, ToSave, AtName, Kept, Draining
  <2> QED BY <2>1, <2>2 DEF Kept, Draining
<1> QED BY <1>1, KeptInvariance, PTL
=============================================================================
