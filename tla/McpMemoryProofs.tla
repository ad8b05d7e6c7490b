-------------------------- MODULE McpMemoryProofs --------------------------
(***************************************************************************)
(* A save of the MCP memory is undisturbed, and a call that opened the            *)
(* collection after a row was acknowledged does not lose it, for any set of       *)
(* processes and ids, any number of writes and kills.                            *)
(*                                                                         *)
(* The argument: a version is written once, so a row that two copies have in one   *)
(* version has one integer in both, and the map of one names it in the slab of     *)
(* the other.  A row is firm when no call under way is about to overwrite or        *)
(* excuse it; every copy opened since has each firm row in its last version        *)
(* (CopyFound), and so has the disk, in the middle of a save too (DiskFound).       *)
(***************************************************************************)
EXTENDS McpMemory, SequenceTheorems, TLAPS

Row == [int : Nat, of : Id, ver : Nat]

OneInt(m) == \A i, j \in DOMAIN m : m[i] = m[j] => i = j

Copy ==
  [pc : {"idle", "slab", "read", "wait", "save", "save_map", "save_json"},
   op : Mutating \cup Reading \cup {"none"}, id : Id \cup {None},
   slab : SUBSET Row, map : Seq(Id)]

TypeInv ==
  /\ slab \in SUBSET Row /\ map \in Seq(Id) /\ json \in BOOLEAN
  /\ mem \in [Proc -> Copy]
  /\ \A p \in Proc : mem[p].pc # "idle" => mem[p].id \in Id
  /\ writes \in Nat
  /\ acked \in [Id -> Nat] /\ stale \in [Proc -> SUBSET Id]

Known(r) == r \in slab \/ \E p \in Proc : r \in mem[p].slab

(* A version is that of one row.                                                *)
RowsRight ==
  \A r, x \in Row : Known(r) /\ Known(x) =>
    /\ r.ver \in 1..writes
    /\ r.ver = x.ver => r = x

MapsRight == OneInt(map) /\ \A p \in Proc : OneInt(mem[p].map)

Saving(p) == mem[p].pc \in {"save", "save_map", "save_json"}
Copied(p) == mem[p].pc \in {"save_map", "save_json"}   \* its slab is on disk

LockRight == \A p \in Proc : Saving(p) => flock = p

SlabSaved ==
  \A p \in Proc :
    /\ Copied(p) => slab = mem[p].slab
    /\ mem[p].pc = "save_json" => map = mem[p].map

(* The row of e in a slab s, by a map m, has version v.                            *)
Found(s, m, e, v) ==
  \E r \in s : /\ r.int \in DOMAIN m /\ m[r.int] = e /\ r.ver = v
               /\ \A x \in s : x.int = r.int => x.ver <= v

Pending == {e \in Id : \E p \in Proc : Copied(p) /\ e \in stale[p] \cup Own(p)}

Firm == {e \in Id : acked[e] # 0 /\ e \notin excused /\ e \notin Pending}

DiskFound == \A e \in Firm : Found(slab, map, e, acked[e])

CopyFound ==
  \A p \in Proc : \A e \in Firm \ stale[p] :
    /\ mem[p].pc = "slab" => Found(slab, mem[p].map, e, acked[e])
    /\ mem[p].pc = "wait" \/ (Saving(p) /\ e \notin Own(p))
         => Found(mem[p].slab, mem[p].map, e, acked[e])

OwnDone ==
  \A p \in Proc : Saving(p) /\ mem[p].op \notin Maintenance =>
    \/ ~Live(mem[p].slab, mem[p].map, mem[p].id)
    \/ \E v \in 1..writes : Found(mem[p].slab, mem[p].map, mem[p].id, v)

JsonFirst == ~json => \A e \in Id : acked[e] = 0

IInv ==
  /\ TypeInv /\ RowsRight /\ MapsRight /\ LockRight /\ SlabSaved
  /\ DiskFound /\ CopyFound /\ OwnDone /\ JsonFirst

-----------------------------------------------------------------------------
(* Rows and versions.                                                          *)

(* A map that names a row in one slab names it in every slab that has the row.     *)
LEMMA SameRow ==
  ASSUME RowsRight, NEW s \in SUBSET Row, NEW t \in SUBSET Row,
         \A r \in s : Known(r), \A r \in t : Known(r),
         NEW m, NEW n, NEW e, NEW v, Found(s, m, e, v), Found(t, n, e, v)
  PROVE  Found(t, m, e, v)
<1>1. PICK r \in s : r.int \in DOMAIN m /\ m[r.int] = e /\ r.ver = v
  BY DEF Found
<1>2. PICK x \in t : x.ver = v /\ \A y \in t : y.int = x.int => y.ver <= v
  BY DEF Found
<1>3. r = x
  BY <1>1, <1>2 DEF RowsRight
<1> QED BY <1>1, <1>2, <1>3 DEF Found

LEMMA FoundVersion ==
  ASSUME NEW s \in SUBSET Row, NEW m, OneInt(m), NEW e, NEW v, Found(s, m, e, v)
  PROVE  VersionOf(s, m, e) = v
<1> DEFINE P(r) == /\ r.int \in DOMAIN m /\ m[r.int] = e
                   /\ \A x \in s : x.int = r.int => x.ver <= r.ver
<1>1. PICK r \in s : P(r) /\ r.ver = v
  BY DEF Found
<1>2. \A c \in s : P(c) => c.ver = v
  <2>1. SUFFICES ASSUME NEW c \in s, P(c) PROVE c.ver = v
    OBVIOUS
  <2>2. c.int = r.int
    BY <1>1, <2>1 DEF OneInt
  <2>3. c.ver <= r.ver /\ r.ver <= c.ver /\ c.ver \in Nat /\ r.ver \in Nat
    BY <1>1, <2>1, <2>2 DEF Row
  <2> QED BY <1>1, <2>3
<1>3. Live(s, m, e)
  BY <1>1 DEF Live
<1>4. VersionOf(s, m, e) = (CHOOSE c \in s : P(c)).ver
  BY <1>3 DEF VersionOf
<1>5. (CHOOSE c \in s : P(c)) \in s /\ P(CHOOSE c \in s : P(c))
  BY <1>1
<1> HIDE DEF P
<1> QED BY <1>2, <1>4, <1>5

(* What Write leaves behind: e in the new version, every other id as it was.       *)
WithId(m, e)     == IF e \in SeqSet(m) THEN m ELSE Append(m, e)
NewRow(m, e, v)  == [int |-> IntOf(WithId(m, e), e), of |-> e, ver |-> v]
Others(s, m, e)  == IF e \in SeqSet(m) THEN {r \in s : r.int # IntOf(WithId(m, e), e)} ELSE s
Written(s, m, e, v) == Others(s, m, e) \cup {NewRow(m, e, v)}

LEMMA WriteFinds ==
  ASSUME NEW s \in SUBSET Row, NEW m \in Seq(Id), OneInt(m), NEW e \in Id, NEW w \in Nat,
         \A r \in s : r.ver <= w
  PROVE  /\ WithId(m, e) \in Seq(Id) /\ OneInt(WithId(m, e))
         /\ NewRow(m, e, w + 1) \in Row /\ Others(s, m, e) \in SUBSET s
         /\ Found(Written(s, m, e, w + 1), WithId(m, e), e, w + 1)
         /\ \A f \in Id, v \in Nat :
              f # e /\ Found(s, m, f, v) => Found(Written(s, m, e, w + 1), WithId(m, e), f, v)
<1> DEFINE m2   == WithId(m, e)
           i    == IntOf(m2, e)
           kept == Others(s, m, e)
           new  == NewRow(m, e, w + 1)
<1>1. Len(m) \in Nat /\ DOMAIN m = 1..Len(m)
  BY LenProperties
<1>2. /\ m2 \in Seq(Id) /\ OneInt(m2) /\ i \in DOMAIN m2 /\ m2[i] = e /\ i \in Nat
      /\ \A j \in DOMAIN m : j \in DOMAIN m2 /\ m2[j] = m[j]
      /\ e \notin SeqSet(m) => i = Len(m) + 1
  <2>1. CASE e \in SeqSet(m)
    <3>1. \E j \in DOMAIN m : m[j] = e
      BY <2>1 DEF SeqSet
    <3>2. m2 = m /\ i \in DOMAIN m /\ m[i] = e
      BY <2>1, <3>1 DEF IntOf, WithId
    <3> QED BY <1>1, <2>1, <3>2
  <2>2. CASE e \notin SeqSet(m)
    <3>1. m2 = Append(m, e) /\ \A j \in DOMAIN m : m[j] # e
      BY <2>2 DEF SeqSet, WithId
    <3>2. /\ m2 \in Seq(Id) /\ Len(m2) = Len(m) + 1 /\ DOMAIN m2 = 1..(Len(m) + 1)
          /\ m2[Len(m) + 1] = e /\ \A j \in 1..Len(m) : m2[j] = m[j]
      BY <1>1, <3>1
    <3>3. \A j \in DOMAIN m2 : m2[j] = e <=> j = Len(m) + 1
      BY <1>1, <3>1, <3>2
    <3>4. i = Len(m) + 1
      BY <1>1, <3>2, <3>3 DEF IntOf
    <3>5. OneInt(m2)
      <4>1. SUFFICES ASSUME NEW j \in DOMAIN m2, NEW k \in DOMAIN m2, m2[j] = m2[k] PROVE j = k
        BY DEF OneInt
      <4>2. CASE m2[j] = e
        BY <3>3, <4>1, <4>2
      <4>3. CASE m2[j] # e
        BY <1>1, <3>2, <3>3, <4>1, <4>3 DEF OneInt
      <4> QED BY <4>2, <4>3
    <3> QED BY <1>1, <3>2, <3>4, <3>5
  <2> QED BY <2>1, <2>2
<1>3. new \in Row /\ new.int = i /\ new.of = e /\ new.ver = w + 1 /\ kept \in SUBSET s
  BY <1>2 DEF Row, NewRow, Others
<1>4. Found(kept \cup {new}, m2, e, w + 1)
  <2>1. \A x \in kept : x.ver <= w /\ x.ver \in Nat
    BY <1>3 DEF Row
  <2>2. \A x \in kept \cup {new} : x.ver <= w + 1
    BY <1>3, <2>1
  <2> QED BY <1>2, <1>3, <2>2 DEF Found
<1>5. ASSUME NEW f \in Id, NEW v \in Nat, f # e, Found(s, m, f, v)
      PROVE  Found(kept \cup {new}, m2, f, v)
  <2>1. PICK r \in s : /\ r.int \in DOMAIN m /\ m[r.int] = f /\ r.ver = v
                       /\ \A x \in s : x.int = r.int => x.ver <= v
    BY <1>5 DEF Found
  <2>2. r.int # i
    BY <1>1, <1>2, <1>5, <2>1
  <2>3. r \in kept /\ r.int \in DOMAIN m2 /\ m2[r.int] = f
    BY <1>2, <2>1, <2>2 DEF Others
  <2> QED BY <1>3, <2>1, <2>2, <2>3 DEF Found
<1> QED BY <1>2, <1>3, <1>4, <1>5 DEF Written

LEMMA RemoveFinds ==
  ASSUME NEW s \in SUBSET Row, NEW m \in Seq(Id), OneInt(m), NEW e \in Id,
         NEW left, left = {r \in s : e \in SeqSet(m) => r.int # IntOf(m, e)}
  PROVE  /\ left \in SUBSET s /\ ~Live(left, m, e)
         /\ \A f \in Id, v \in Nat : f # e /\ Found(s, m, f, v) => Found(left, m, f, v)
<1>1. e \in SeqSet(m) => IntOf(m, e) \in DOMAIN m /\ m[IntOf(m, e)] = e
  BY DEF SeqSet, IntOf
<1>2. ~Live(left, m, e)
  BY <1>1 DEF Live, SeqSet, OneInt
<1>3. ASSUME NEW f \in Id, NEW v \in Nat, f # e, Found(s, m, f, v)
      PROVE  Found(left, m, f, v)
  <2>1. PICK r \in s : /\ r.int \in DOMAIN m /\ m[r.int] = f /\ r.ver = v
                       /\ \A x \in s : x.int = r.int => x.ver <= v
    BY <1>3 DEF Found
  <2>2. r \in left
    BY <1>1, <1>3, <2>1
  <2> QED BY <2>1, <2>2 DEF Found
<1> QED BY <1>2, <1>3

-----------------------------------------------------------------------------
(* A step of p in its own memory: the files and what is acknowledged stay.        *)

LocalStep(p, x) ==
  /\ x \in Copy /\ mem' = [mem EXCEPT ![p] = x]
  /\ slab' = slab /\ map' = map /\ json' = json /\ acked' = acked /\ excused' = excused
  /\ ~Copied(p) /\ x.pc \notin {"save_map", "save_json"}
  /\ x.pc # "idle" => x.id \in Id
  /\ OneInt(x.map)
  /\ writes' \in Nat /\ writes <= writes'
  /\ \A r \in x.slab : Known(r) \/ r.ver = writes + 1
  /\ \A r, y \in x.slab : r.ver = y.ver /\ r.ver = writes + 1 => r = y
  /\ (\E r \in x.slab : r.ver = writes + 1) => writes' = writes + 1
  /\ stale' \in [Proc -> SUBSET Id]
  /\ \A q \in Proc : q # p => stale'[q] = stale[q]
  /\ x.pc = "save" => flock' = p
  /\ \A q \in Proc : q # p /\ Saving(q) => flock' = flock

LocalFound(p, x) ==
  \A e \in Firm : e \notin stale'[p] =>
    /\ x.pc = "slab" => Found(slab, x.map, e, acked[e])
    /\ x.pc = "wait" \/ (x.pc = "save" /\ (x.op \in Maintenance \/ e # x.id))
         => Found(x.slab, x.map, e, acked[e])

LocalDone(x) ==
  x.pc = "save" /\ x.op \notin Maintenance =>
    \/ ~Live(x.slab, x.map, x.id)
    \/ \E v \in 1..writes' : Found(x.slab, x.map, x.id, v)

LEMMA Local ==
  ASSUME IInv, NEW p \in Proc, NEW x, LocalStep(p, x), LocalFound(p, x), LocalDone(x)
  PROVE  IInv'
<1> USE DEF LocalStep
<1>1. mem \in [Proc -> Copy] /\ writes \in Nat
  BY DEF IInv, TypeInv
<1>2. mem'[p] = x /\ \A q \in Proc : q # p => mem'[q] = mem[q]
  BY <1>1
<1>3. slab' = slab /\ map' = map /\ json' = json /\ acked' = acked /\ excused' = excused
  OBVIOUS
<1>4. TypeInv'
  <2>1. mem' \in [Proc -> Copy']
    BY <1>1 DEF Copy
  <2> QED BY <1>2, <1>3, <2>1 DEF IInv, TypeInv, Row
<1>5. RowsRight'
  <2>1. \A r : Known(r)' => Known(r) \/ (r \in x.slab /\ r.ver = writes + 1)
    BY <1>2, <1>3 DEF Known
  <2>2. \A r \in Row : Known(r) => r.ver \in 1..writes
    BY DEF IInv, RowsRight
  <2>3. SUFFICES ASSUME NEW r \in Row, NEW y \in Row, Known(r)', Known(y)'
                 PROVE  r.ver \in 1..writes' /\ (r.ver = y.ver => r = y)
    BY DEF RowsRight, Row, Known
  <2>4. r.ver \in 1..writes'
    BY <1>1, <2>1, <2>2, <2>3
  <2>5. ASSUME r.ver = y.ver PROVE r = y
    <3>1. CASE Known(r) /\ Known(y)
      BY <2>3, <2>5, <3>1 DEF IInv, RowsRight
    <3>2. CASE r \in x.slab /\ r.ver = writes + 1
      <4>1. y.ver = writes + 1 /\ y.ver \notin 1..writes
        BY <1>1, <2>5, <3>2
      <4>2. ~Known(y)
        BY <2>2, <4>1
      <4> QED BY <2>1, <2>3, <2>5, <3>2, <4>2
    <3>3. CASE y \in x.slab /\ y.ver = writes + 1
      <4>1. r.ver = writes + 1 /\ r.ver \notin 1..writes
        BY <1>1, <2>5, <3>3
      <4>2. ~Known(r)
        BY <2>2, <4>1
      <4> QED BY <2>1, <2>3, <2>5, <3>3, <4>2
    <3> QED BY <2>1, <2>3, <3>1, <3>2, <3>3
  <2> QED BY <2>4, <2>5
<1>6. MapsRight'
  BY <1>2, <1>3 DEF IInv, MapsRight
<1>7. LockRight' /\ SlabSaved'
  BY <1>2, <1>3 DEF IInv, LockRight, SlabSaved, Saving, Copied
<1>8. Firm' = Firm
  <2>1. \A q \in Proc : Copied(q)' <=> Copied(q)
    BY <1>2 DEF Copied
  <2>2. \A q \in Proc : Copied(q) => stale'[q] = stale[q] /\ Own(q)' = Own(q)
    BY <1>2 DEF Copied, Own
  <2>3. Pending' = Pending
    BY <2>1, <2>2 DEF Pending
  <2> QED BY <1>3, <2>3 DEF Firm
<1>9. DiskFound'
  BY <1>3, <1>8 DEF IInv, DiskFound, Found
<1>10. CopyFound'
  <2>1. SUFFICES ASSUME NEW q \in Proc, NEW e \in Firm, e \notin stale'[q]
                 PROVE  /\ mem'[q].pc = "slab" => Found(slab, mem'[q].map, e, acked[e])
                        /\ mem'[q].pc = "wait" \/ (Saving(q)' /\ e \notin Own(q)')
                             => Found(mem'[q].slab, mem'[q].map, e, acked[e])
    BY <1>3, <1>8 DEF CopyFound, Found
  <2>2. CASE q = p
    BY <1>2, <2>1, <2>2 DEF Saving, Own, LocalFound
  <2>3. CASE q # p
    BY <1>2, <2>1, <2>3 DEF IInv, CopyFound, Saving, Own
  <2> QED BY <2>2, <2>3
<1>11. OwnDone'
  <2>1. SUFFICES ASSUME NEW q \in Proc, Saving(q)', mem'[q].op \notin Maintenance
                 PROVE  \/ ~Live(mem'[q].slab, mem'[q].map, mem'[q].id)
                        \/ \E v \in 1..writes' : Found(mem'[q].slab, mem'[q].map, mem'[q].id, v)
    BY DEF OwnDone, Live, Found, Maintenance
  <2>2. CASE q = p
    BY <1>2, <2>1, <2>2 DEF Saving, LocalDone
  <2>3. CASE q # p
    <3>1. 1..writes \subseteq 1..writes'
      BY <1>1
    <3> QED BY <1>2, <2>1, <2>3, <3>1 DEF IInv, OwnDone, Saving
  <2> QED BY <2>2, <2>3
<1>12. JsonFirst'
  BY <1>3 DEF IInv, JsonFirst
<1> QED BY <1>4, <1>5, <1>6, <1>7, <1>9, <1>10, <1>11, <1>12 DEF IInv

LEMMA CallKeeps ==
  ASSUME IInv, NEW p \in Proc, NEW op \in Mutating \cup Reading, NEW e \in Id, Call(p, op, e)
  PROVE  IInv'
<1> DEFINE x == [Resting EXCEPT !.pc = IF json THEN "slab" ELSE "wait", !.op = op,
                                !.id = e, !.map = IF json THEN map ELSE <<>>]
<1>1. /\ mem[p].pc = "idle" /\ mem' = [mem EXCEPT ![p] = x]
      /\ stale' = [stale EXCEPT ![p] = {}]
      /\ slab' = slab /\ map' = map /\ json' = json /\ acked' = acked /\ excused' = excused
      /\ writes' = writes /\ flock' = flock
  BY DEF Call, disk
<1>2. map \in Seq(Id) /\ OneInt(map) /\ <<>> \in Seq(Id) /\ OneInt(<<>>)
  BY DEF IInv, TypeInv, MapsRight, OneInt
<1>3. /\ x.pc \in {"slab", "wait"} /\ (x.pc = "slab" <=> json) /\ x.slab = {} /\ x.id = e
      /\ x.map \in Seq(Id) /\ OneInt(x.map) /\ (json => x.map = map) /\ x \in Copy
  BY <1>2 DEF Resting, Copy
<1>4. ~Copied(p) /\ ~Saving(p)
  BY <1>1 DEF Copied, Saving
<1>5. stale' \in [Proc -> SUBSET Id] /\ \A q \in Proc : q # p => stale'[q] = stale[q]
  BY <1>1 DEF IInv, TypeInv
<1>6. \A f \in Firm : json /\ Found(slab, map, f, acked[f])
  <2>1. ~json => Firm = {}
    BY DEF Firm, IInv, JsonFirst
  <2> QED BY <2>1 DEF IInv, DiskFound
<1>7. writes \in Nat
  BY DEF IInv, TypeInv
<1> HIDE DEF x
<1>8. LocalStep(p, x)
  BY <1>1, <1>3, <1>4, <1>5, <1>7 DEF LocalStep
<1>9. LocalFound(p, x) /\ LocalDone(x)
  BY <1>3, <1>6 DEF LocalFound, LocalDone
<1> QED BY <1>8, <1>9, Local

LEMMA OpenKeeps ==
  ASSUME IInv, NEW p \in Proc, OpenSlab(p)
  PROVE  IInv'
<1> DEFINE x == [mem[p] EXCEPT !.slab = slab,
                               !.pc = IF mem[p].op \in Reading THEN "read" ELSE "wait"]
<1>1. /\ mem[p].pc = "slab" /\ mem' = [mem EXCEPT ![p] = x] /\ stale' = stale
      /\ slab' = slab /\ map' = map /\ json' = json /\ acked' = acked /\ excused' = excused
      /\ writes' = writes /\ flock' = flock
  BY DEF OpenSlab, history, disk
<1>2. /\ mem[p] \in Copy /\ slab \in SUBSET Row
      /\ mem[p].id \in Id /\ OneInt(mem[p].map)
  BY <1>1 DEF IInv, TypeInv, MapsRight
<1>3. /\ x \in Copy /\ x.pc \in {"read", "wait"} /\ x.slab = slab
      /\ x.map = mem[p].map /\ x.id = mem[p].id
  BY <1>2 DEF Copy
<1>4. ~Copied(p)
  BY <1>1 DEF Copied
<1>5. \A e \in Firm : e \notin stale[p] => Found(slab, mem[p].map, e, acked[e])
  BY <1>1 DEF IInv, CopyFound
<1>6. writes \in Nat /\ stale' \in [Proc -> SUBSET Id]
  BY <1>1 DEF IInv, TypeInv
<1>7. \A r \in x.slab : Known(r) /\ r.ver # writes + 1
  <2>1. \A r \in slab : r \in Row /\ Known(r)
    BY <1>2 DEF Known
  <2> QED BY <1>3, <1>6, <2>1 DEF IInv, RowsRight
<1> HIDE DEF x
<1>8. LocalStep(p, x)
  BY <1>1, <1>2, <1>3, <1>4, <1>6, <1>7 DEF LocalStep
<1>9. LocalFound(p, x) /\ LocalDone(x)
  BY <1>1, <1>3, <1>5 DEF LocalFound, LocalDone
<1> QED BY <1>8, <1>9, Local

(* A call ends or is killed before it has copied anything.                        *)
LEMMA RestKeeps ==
  ASSUME IInv, NEW p \in Proc, ~Copied(p), mem' = [mem EXCEPT ![p] = Resting],
         slab' = slab, map' = map, json' = json, writes' = writes,
         acked' = acked, excused' = excused, stale' = stale,
         \A q \in Proc : q # p /\ Saving(q) => flock' = flock
  PROVE  IInv'
<1>1. Resting \in Copy /\ Resting.pc = "idle" /\ Resting.slab = {} /\ OneInt(Resting.map)
  BY DEF Resting, Copy, OneInt
<1>2. writes \in Nat /\ stale' \in [Proc -> SUBSET Id]
  BY DEF IInv, TypeInv
<1>3. LocalStep(p, Resting)
  BY <1>1, <1>2 DEF LocalStep
<1>4. LocalFound(p, Resting) /\ LocalDone(Resting)
  BY <1>1 DEF LocalFound, LocalDone
<1> QED BY <1>3, <1>4, Local

(* Under the lock p changes its copy: what it had found of the other rows stays.    *)
LEMMA ApplyKeeps ==
  ASSUME IInv, NEW p \in Proc, Apply(p)
  PROVE  IInv'
<1> DEFINE s == mem[p].slab
           m == mem[p].map
           e == mem[p].id
<1>1. /\ mem[p].pc = "wait" /\ flock = None /\ flock' = p /\ Applied(p)
      /\ slab' = slab /\ map' = map /\ json' = json
      /\ acked' = acked /\ excused' = excused /\ stale' = stale
  BY DEF Apply, disk, history
<1>2. /\ mem \in [Proc -> Copy] /\ mem[p] \in Copy /\ writes \in Nat /\ stale \in [Proc -> SUBSET Id]
      /\ s \in SUBSET Row /\ m \in Seq(Id) /\ OneInt(m) /\ e \in Id
  <2>1. mem[p] \in Copy
    BY DEF IInv, TypeInv
  <2> QED BY <1>1, <2>1 DEF IInv, TypeInv, MapsRight, Copy
<1>3. ~Copied(p) /\ \A q \in Proc : ~Saving(q)
  BY <1>1, NoneAssumption DEF IInv, LockRight, Saving, Copied
<1>4. \A r \in s : Known(r) /\ r.ver \in 1..writes
  <2>1. \A r \in s : r \in Row /\ Known(r)
    BY <1>2 DEF Known
  <2> QED BY <2>1 DEF IInv, RowsRight
<1>5. /\ \A f \in Firm : f \in Id /\ acked[f] \in Nat
      /\ \A f \in Firm : f \notin stale[p] => Found(s, m, f, acked[f])
  BY <1>1 DEF IInv, TypeInv, CopyFound, Firm
<1>6. CASE mem[p].op \in Maintenance /\ mem' = [mem EXCEPT ![p].pc = "save"] /\ UNCHANGED writes
  <2> DEFINE x == [mem[p] EXCEPT !.pc = "save"]
  <2>1. mem' = [mem EXCEPT ![p] = x] /\ writes' = writes
    BY <1>2, <1>6
  <2>2. /\ x \in Copy /\ x.pc = "save" /\ x.slab = s /\ x.map = m /\ x.id = e
        /\ x.op \in Maintenance
    BY <1>2, <1>6 DEF Copy
  <2> HIDE DEF x
  <2>3. \A r \in s : Known(r) /\ r.ver # writes + 1
    BY <1>2, <1>4
  <2>4. LocalStep(p, x)
    BY <1>1, <1>2, <1>3, <2>1, <2>2, <2>3 DEF LocalStep
  <2>5. LocalFound(p, x) /\ LocalDone(x)
    <3> HIDE DEF s, m, e
    <3>1. LocalFound(p, x)
      BY <1>1, <1>5, <2>2 DEF LocalFound
    <3>2. LocalDone(x)
      BY <2>2 DEF LocalDone
    <3> QED BY <3>1, <3>2
  <2> QED BY <2>4, <2>5, Local
<1>7. CASE mem[p].op = "delete" /\ Remove(p)
  <2> DEFINE left == {r \in s : e \in SeqSet(m) => r.int # IntOf(m, e)}
             x == [mem[p] EXCEPT !.pc = "save", !.slab = left]
  <2>1. mem' = [mem EXCEPT ![p] = x] /\ writes' = writes
    BY <1>2, <1>7 DEF Remove
  <2>2. /\ left \in SUBSET s /\ ~Live(left, m, e)
        /\ \A f \in Id, v \in Nat : f # e /\ Found(s, m, f, v) => Found(left, m, f, v)
    <3> HIDE DEF s, m, e
    <3> QED BY <1>2, RemoveFinds
  <2> HIDE DEF left
  <2>3. /\ x \in Copy /\ x.pc = "save" /\ x.slab = left /\ x.map = m /\ x.id = e
        /\ x.op \notin Maintenance
    BY <1>2, <1>7, <2>2 DEF Copy, Maintenance
  <2> HIDE DEF x
  <2>4. \A r \in left : Known(r) /\ r.ver # writes + 1
    BY <1>2, <1>4, <2>2
  <2>5. LocalStep(p, x)
    BY <1>1, <1>2, <1>3, <2>1, <2>3, <2>4 DEF LocalStep
  <2>6. LocalFound(p, x) /\ LocalDone(x)
    <3> HIDE DEF s, m, e
    <3> QED BY <1>1, <1>5, <2>2, <2>3 DEF LocalFound, LocalDone
  <2> QED BY <2>5, <2>6, Local
<1>8. CASE mem[p].op \notin Maintenance /\ Write(p)
  <2> DEFINE m2   == WithId(m, e)
             kept == Others(s, m, e)
             new  == NewRow(m, e, writes + 1)
             x    == [mem[p] EXCEPT !.pc = "save", !.map = m2, !.slab = kept \cup {new}]
  <2>1. /\ mem' = [mem EXCEPT ![p].pc = "save", ![p].map = m2, ![p].slab = kept \cup {new}]
        /\ writes' = writes + 1
    BY <1>8 DEF Write, WithId, Others, NewRow
  <2>2. /\ m2 \in Seq(Id) /\ OneInt(m2) /\ new \in Row /\ kept \in SUBSET s
        /\ Found(kept \cup {new}, m2, e, writes + 1)
        /\ \A f \in Id, v \in Nat :
             f # e /\ Found(s, m, f, v) => Found(kept \cup {new}, m2, f, v)
    <3>1. \A r \in s : r.ver <= writes
      BY <1>2, <1>4
    <3>2. kept \cup {new} = Written(s, m, e, writes + 1)
      BY DEF Written
    <3> HIDE DEF s, m, e
    <3>3. /\ m2 \in Seq(Id) /\ OneInt(m2) /\ new \in Row /\ kept \in SUBSET s
          /\ Found(Written(s, m, e, writes + 1), m2, e, writes + 1)
          /\ \A f \in Id, v \in Nat :
               f # e /\ Found(s, m, f, v) => Found(Written(s, m, e, writes + 1), m2, f, v)
      BY <1>2, <3>1, WriteFinds
    <3> HIDE DEF m2, kept, new
    <3> QED BY <3>2, <3>3
  <2>3. new.ver = writes + 1
    BY DEF NewRow
  <2> HIDE DEF m2, kept, new
  <2>4. mem' = [mem EXCEPT ![p] = x]
    BY <1>2, <2>1
  <2>5. /\ x \in Copy /\ x.pc = "save" /\ x.slab = kept \cup {new} /\ x.map = m2 /\ x.id = e
        /\ x.op \notin Maintenance
    BY <1>2, <1>8, <2>2 DEF Copy
  <2> HIDE DEF x
  <2>6. \A r \in kept : Known(r) /\ r.ver # writes + 1
    BY <1>2, <1>4, <2>2
  <2>7. LocalStep(p, x)
    <3> HIDE DEF s, m, e
    <3>1. \A r \in x.slab : Known(r) \/ r = new
      BY <2>5, <2>6
    <3>2. \A r \in x.slab : r.ver = writes + 1 => r = new
      BY <2>5, <2>6
    <3>3. writes' \in Nat /\ writes <= writes' /\ writes' = writes + 1
      BY <1>2, <2>1
    <3> QED BY <1>1, <1>2, <1>3, <2>2, <2>3, <2>4, <2>5, <3>1, <3>2, <3>3 DEF LocalStep
  <2>8. LocalFound(p, x) /\ LocalDone(x)
    <3> HIDE DEF s, m, e
    <3>1. writes + 1 \in 1..writes'
      BY <1>2, <2>1
    <3> QED BY <1>1, <1>5, <2>2, <2>5, <3>1 DEF LocalFound, LocalDone
  <2> QED BY <2>7, <2>8, Local
<1> QED BY <1>1, <1>6, <1>7, <1>8 DEF Applied, Maintenance

-----------------------------------------------------------------------------
(* A save: nobody else is saving, and p's copy goes to disk file by file.          *)

LEMMA Alone ==
  ASSUME IInv, NEW p \in Proc, Saving(p)
  PROVE  \A q \in Proc : Saving(q) \/ Copied(q) => q = p
BY DEF IInv, LockRight, Saving, Copied

LEMMA SaveSlabKeeps ==
  ASSUME IInv, NEW p \in Proc, SaveSlab(p)
  PROVE  IInv'
<1>1. /\ mem[p].pc = "save" /\ slab' = mem[p].slab
      /\ mem' = [mem EXCEPT ![p].pc = "save_map"]
      /\ json' = json /\ map' = map /\ flock' = flock /\ writes' = writes
      /\ acked' = acked /\ stale' = stale /\ excused' = excused
  BY DEF SaveSlab, history
<1>2. /\ mem \in [Proc -> Copy] /\ mem[p] \in Copy /\ mem[p].id \in Id
      /\ mem[p].slab \in SUBSET Row /\ slab \in SUBSET Row
  BY <1>1 DEF IInv, TypeInv, Copy
<1>3. /\ mem'[p] = [mem[p] EXCEPT !.pc = "save_map"]
      /\ \A q \in Proc : q # p => mem'[q] = mem[q]
  BY <1>1, <1>2
<1>4. /\ mem'[p] \in Copy /\ mem'[p].pc = "save_map" /\ mem'[p].op = mem[p].op
      /\ \A q \in Proc : /\ mem'[q].slab = mem[q].slab /\ mem'[q].map = mem[q].map
                         /\ mem'[q].id = mem[q].id /\ Own(q)' = Own(q)
  BY <1>2, <1>3 DEF Copy, Own
<1>5. Saving(p) /\ \A q \in Proc : Saving(q) \/ Copied(q) => q = p
  BY <1>1, Alone DEF Saving
<1>6. \A q \in Proc : (Saving(q)' <=> q = p) /\ (Copied(q)' <=> q = p)
  BY <1>3, <1>4, <1>5 DEF Saving, Copied
<1>7. Pending' = stale[p] \cup Own(p)
  <2>1. Own(p) \subseteq Id /\ stale[p] \subseteq Id
    BY <1>2 DEF Own, IInv, TypeInv
  <2> QED BY <1>1, <1>4, <1>6, <2>1 DEF Pending
<1>8. \A e \in Firm' : e \in Firm /\ e \notin stale[p] /\ e \notin Own(p)
  <2>1. Pending = {}
    BY <1>1, <1>5 DEF Pending, Copied
  <2> QED BY <1>1, <1>7, <2>1 DEF Firm
<1>9. \A e \in Firm' : Found(mem[p].slab, mem[p].map, e, acked[e])
  BY <1>5, <1>8 DEF IInv, CopyFound
<1>10. \A r \in mem[p].slab : Known(r)
  BY DEF Known
<1>11. \A m : \A e \in Firm' : Found(slab, m, e, acked[e]) => Found(mem[p].slab, m, e, acked[e])
  <2>1. \A r \in slab : Known(r)
    BY DEF Known
  <2>2. RowsRight
    BY DEF IInv
  <2> QED BY <1>2, <1>9, <1>10, <2>1, <2>2, SameRow
<1>12. TypeInv'
  <2>1. mem' \in [Proc -> Copy']
    BY <1>1, <1>2, <1>3, <1>4 DEF Copy
  <2> QED BY <1>1, <1>2, <1>3, <1>4, <2>1 DEF IInv, TypeInv, Row
<1>13. RowsRight'
  <2>1. \A r : Known(r)' => Known(r)
    BY <1>1, <1>4 DEF Known
  <2> QED BY <1>1, <2>1 DEF IInv, RowsRight, Row
<1>14. MapsRight' /\ LockRight' /\ SlabSaved'
  BY <1>1, <1>4, <1>5, <1>6 DEF IInv, MapsRight, LockRight, SlabSaved
<1>15. DiskFound'
  BY <1>1, <1>8, <1>11 DEF IInv, DiskFound, Found
<1>16. CopyFound'
  <2>1. SUFFICES ASSUME NEW q \in Proc, NEW e \in Firm', e \notin stale[q]
                 PROVE  /\ mem'[q].pc = "slab" => Found(mem[p].slab, mem[q].map, e, acked[e])
                        /\ mem'[q].pc = "wait" \/ (Saving(q)' /\ e \notin Own(q))
                             => Found(mem[q].slab, mem[q].map, e, acked[e])
    BY <1>1, <1>4 DEF CopyFound, Found
  <2>2. CASE q = p
    BY <1>4, <1>9, <2>2
  <2>3. CASE q # p
    BY <1>3, <1>6, <1>8, <1>11, <2>1, <2>3 DEF IInv, CopyFound
  <2> QED BY <2>2, <2>3
<1>17. OwnDone'
  <2>1. mem[p].op \notin Maintenance =>
          \/ ~Live(mem[p].slab, mem[p].map, mem[p].id)
          \/ \E v \in 1..writes : Found(mem[p].slab, mem[p].map, mem[p].id, v)
    BY <1>5 DEF IInv, OwnDone
  <2> QED BY <1>1, <1>4, <1>6, <2>1 DEF OwnDone, Live, Found, Maintenance
<1>18. JsonFirst'
  BY <1>1 DEF IInv, JsonFirst
<1> QED BY <1>12, <1>13, <1>14, <1>15, <1>16, <1>17, <1>18 DEF IInv

LEMMA SaveMapKeeps ==
  ASSUME IInv, NEW p \in Proc, SaveMap(p)
  PROVE  IInv'
<1>1. /\ mem[p].pc = "save_map" /\ map' = mem[p].map
      /\ mem' = [mem EXCEPT ![p].pc = "save_json"]
      /\ json' = json /\ slab' = slab /\ flock' = flock /\ writes' = writes
      /\ acked' = acked /\ stale' = stale /\ excused' = excused
  BY DEF SaveMap, history
<1>2. /\ mem \in [Proc -> Copy] /\ mem[p] \in Copy /\ mem[p].id \in Id
      /\ mem[p].map \in Seq(Id) /\ OneInt(mem[p].map)
  BY <1>1 DEF IInv, TypeInv, Copy, MapsRight
<1>3. /\ mem'[p] = [mem[p] EXCEPT !.pc = "save_json"]
      /\ \A q \in Proc : q # p => mem'[q] = mem[q]
  BY <1>1, <1>2
<1>4. /\ mem'[p] \in Copy /\ mem'[p].pc = "save_json" /\ mem'[p].op = mem[p].op
      /\ \A q \in Proc : /\ mem'[q].slab = mem[q].slab /\ mem'[q].map = mem[q].map
                         /\ mem'[q].id = mem[q].id /\ Own(q)' = Own(q)
  BY <1>2, <1>3 DEF Copy, Own
<1>5. Saving(p) /\ Copied(p) /\ \A q \in Proc : Saving(q) \/ Copied(q) => q = p
  BY <1>1, Alone DEF Saving, Copied
<1>6. \A q \in Proc : (Saving(q)' <=> q = p) /\ (Copied(q)' <=> q = p)
  BY <1>3, <1>4, <1>5 DEF Saving, Copied
<1>7. Firm' = Firm
  <2>1. \A q \in Proc : Copied(q)' <=> Copied(q)
    BY <1>5, <1>6
  <2>2. Pending' = Pending
    BY <1>1, <1>4, <2>1 DEF Pending
  <2> QED BY <1>1, <2>2 DEF Firm
<1>8. slab = mem[p].slab
  BY <1>5 DEF IInv, SlabSaved
<1>9. \A e \in Firm : Found(mem[p].slab, mem[p].map, e, acked[e])
  <2>1. \A e \in Firm : e \notin stale[p] /\ e \notin Own(p)
    BY <1>5 DEF Firm, Pending
  <2> QED BY <1>5, <2>1 DEF IInv, CopyFound
<1>10. TypeInv'
  <2>1. mem' \in [Proc -> Copy']
    BY <1>1, <1>2, <1>3, <1>4 DEF Copy
  <2> QED BY <1>1, <1>2, <1>3, <1>4, <2>1 DEF IInv, TypeInv, Row
<1>11. RowsRight'
  <2>1. \A r : Known(r)' => Known(r)
    BY <1>1, <1>4 DEF Known
  <2> QED BY <1>1, <2>1 DEF IInv, RowsRight, Row
<1>12. MapsRight' /\ LockRight' /\ SlabSaved'
  <2>1. MapsRight'
    BY <1>1, <1>2, <1>4 DEF IInv, MapsRight
  <2>2. LockRight'
    BY <1>1, <1>5, <1>6 DEF IInv, LockRight
  <2>3. SlabSaved'
    <3>1. \A q \in Proc : mem'[q].pc = "save_json" => q = p
      BY <1>6 DEF Copied
    <3> QED BY <1>1, <1>4, <1>6, <1>8, <3>1 DEF SlabSaved
  <2> QED BY <2>1, <2>2, <2>3
<1>13. DiskFound'
  BY <1>1, <1>7, <1>8, <1>9 DEF DiskFound, Found
<1>14. CopyFound'
  <2>1. SUFFICES ASSUME NEW q \in Proc, NEW e \in Firm, e \notin stale[q]
                 PROVE  /\ mem'[q].pc = "slab" => Found(slab, mem[q].map, e, acked[e])
                        /\ mem'[q].pc = "wait" \/ (Saving(q)' /\ e \notin Own(q))
                             => Found(mem[q].slab, mem[q].map, e, acked[e])
    BY <1>1, <1>4, <1>7 DEF CopyFound, Found
  <2>2. CASE q = p
    BY <1>4, <1>9, <2>2
  <2>3. CASE q # p
    BY <1>3, <1>6, <2>1, <2>3 DEF IInv, CopyFound
  <2> QED BY <2>2, <2>3
<1>15. OwnDone'
  <2>1. mem[p].op \notin Maintenance =>
          \/ ~Live(mem[p].slab, mem[p].map, mem[p].id)
          \/ \E v \in 1..writes : Found(mem[p].slab, mem[p].map, mem[p].id, v)
    BY <1>5 DEF IInv, OwnDone
  <2> QED BY <1>1, <1>4, <1>6, <2>1 DEF OwnDone, Live, Found, Maintenance
<1>16. JsonFirst'
  BY <1>1 DEF IInv, JsonFirst
<1> QED BY <1>10, <1>11, <1>12, <1>13, <1>14, <1>15, <1>16 DEF IInv

(* The call returns: its own row is on disk as it left it, so the acknowledged       *)
(* version is that of the disk.                                              *)
LEMMA SaveJsonKeeps ==
  ASSUME IInv, NEW p \in Proc, SaveJson(p)
  PROVE  IInv'
<1>1. /\ mem[p].pc = "save_json" /\ json' = TRUE /\ flock' = None
      /\ mem' = [mem EXCEPT ![p] = Resting]
      /\ slab' = slab /\ map' = map /\ writes' = writes
  BY DEF SaveJson
<1>2. /\ acked' = [e \in Id |-> IF e \in Own(p) THEN VersionOf(mem[p].slab, mem[p].map, e)
                                 ELSE acked[e]]
      /\ excused' = (excused \cup stale[p]) \ Own(p)
      /\ stale' = [q \in Proc |-> IF q = p \/ mem[q].pc = "idle" THEN {} ELSE stale[q] \cup Own(p)]
  BY DEF SaveJson, Committed, Own
<1>3. /\ mem \in [Proc -> Copy] /\ mem[p].id \in Id /\ slab \in SUBSET Row
      /\ OneInt(map) /\ acked \in [Id -> Nat] /\ stale \in [Proc -> SUBSET Id]
      /\ writes \in Nat
  BY <1>1 DEF IInv, TypeInv, MapsRight
<1>4. mem'[p] = Resting /\ \A q \in Proc : q # p => mem'[q] = mem[q]
  BY <1>1, <1>3
<1>5. /\ Resting \in Copy /\ Resting.pc = "idle" /\ Resting.slab = {} /\ OneInt(Resting.map)
  BY DEF Resting, Copy, OneInt
<1>6. Saving(p) /\ Copied(p) /\ \A q \in Proc : Saving(q) \/ Copied(q) => q = p
  BY <1>1, Alone DEF Saving, Copied
<1>7. \A q \in Proc : ~Saving(q)' /\ ~Copied(q)'
  BY <1>4, <1>5, <1>6 DEF Saving, Copied
<1>8. slab = mem[p].slab /\ map = mem[p].map
  BY <1>1, <1>6 DEF IInv, SlabSaved
<1>9. Own(p) \subseteq Id /\ \A e \in Own(p) : e = mem[p].id /\ mem[p].op \notin Maintenance
  BY <1>3 DEF Own
<1>10. \A e \in Own(p) : /\ acked'[e] \in Nat
                         /\ acked'[e] # 0 => Found(slab, map, e, acked'[e])
  <2>1. SUFFICES ASSUME NEW e \in Own(p)
                 PROVE  /\ acked'[e] \in Nat
                        /\ acked'[e] # 0 => Found(slab, map, e, acked'[e])
    OBVIOUS
  <2>2. acked'[e] = VersionOf(slab, map, e)
    BY <1>2, <1>8, <1>9
  <2>3. ~Live(slab, map, e) \/ \E v \in 1..writes : Found(slab, map, e, v)
    BY <1>6, <1>8, <1>9 DEF IInv, OwnDone
  <2>4. CASE ~Live(slab, map, e)
    BY <2>2, <2>4 DEF VersionOf
  <2>5. ASSUME NEW v \in 1..writes, Found(slab, map, e, v)
        PROVE  acked'[e] = v /\ v \in Nat
    BY <1>3, <2>2, <2>5, FoundVersion
  <2> QED BY <2>3, <2>4, <2>5
<1>11. \A e \in Id \ Own(p) : acked'[e] = acked[e]
  BY <1>2
<1>12. \A e \in Firm' \ Own(p) : e \in Firm /\ acked'[e] = acked[e]
  <2>1. \A e \in Pending : e \in stale[p] \/ e \in Own(p)
    BY <1>6 DEF Pending
  <2> QED BY <1>2, <1>11, <2>1 DEF Firm
<1>13. TypeInv'
  <2>1. mem' \in [Proc -> Copy']
    BY <1>1, <1>3, <1>5 DEF Copy
  <2>2. acked' \in [Id -> Nat]
    BY <1>2, <1>3, <1>10, <1>11
  <2>3. stale' \in [Proc -> SUBSET Id]
    BY <1>2, <1>3, <1>9
  <2> QED BY <1>1, <1>4, <1>5, <2>1, <2>2, <2>3 DEF IInv, TypeInv, Row
<1>14. RowsRight'
  <2>1. \A r : Known(r)' => Known(r)
    BY <1>1, <1>4, <1>5 DEF Known
  <2> QED BY <1>1, <2>1 DEF IInv, RowsRight, Row
<1>15. MapsRight'
  BY <1>1, <1>4, <1>5 DEF IInv, MapsRight
<1>16. LockRight' /\ SlabSaved' /\ OwnDone'
  <2>1. \A q \in Proc : mem'[q].pc # "save_json"
    BY <1>7 DEF Copied
  <2> QED BY <1>7, <2>1 DEF LockRight, SlabSaved, OwnDone
<1>17. DiskFound'
  <2>1. \A e \in Firm' : Found(slab, map, e, acked'[e])
    <3>1. \A e \in Firm' : acked'[e] # 0
      BY DEF Firm
    <3> QED BY <1>10, <1>12, <3>1 DEF IInv, DiskFound
  <2> QED BY <1>1, <2>1 DEF DiskFound, Found
<1>18. CopyFound'
  <2>1. SUFFICES ASSUME NEW q \in Proc, NEW e \in Firm', e \notin stale'[q]
                 PROVE  /\ mem'[q].pc = "slab" => Found(slab, mem'[q].map, e, acked'[e])
                        /\ mem'[q].pc = "wait" => Found(mem'[q].slab, mem'[q].map, e, acked'[e])
    BY <1>1, <1>7 DEF CopyFound, Found
  <2>2. CASE mem'[q].pc \in {"slab", "wait"}
    <3>1. q # p /\ mem'[q] = mem[q]
      BY <1>4, <1>5, <2>2
    <3>2. e \notin stale[q] /\ e \notin Own(p)
      BY <1>2, <2>1, <2>2, <3>1
    <3> QED BY <1>12, <3>1, <3>2 DEF IInv, CopyFound
  <2> QED BY <2>2
<1>19. JsonFirst'
  BY <1>1 DEF JsonFirst
<1> QED BY <1>13, <1>14, <1>15, <1>16, <1>17, <1>18, <1>19 DEF IInv

(* A process killed in the middle of a save excuses what was pending; nobody else saves.  *)
LEMMA KillKeeps ==
  ASSUME IInv, NEW p \in Proc, Kill(p)
  PROVE  IInv'
<1>1. /\ flock' = (IF flock = p THEN None ELSE flock)
      /\ mem' = [mem EXCEPT ![p] = Resting]
      /\ excused' = (IF Copied(p) THEN excused \cup stale[p] \cup Own(p) ELSE excused)
      /\ slab' = slab /\ map' = map /\ json' = json /\ writes' = writes
      /\ acked' = acked /\ stale' = stale
  BY DEF Kill, disk, Copied
<1>2. CASE ~Copied(p)
  <2>1. \A q \in Proc : q # p /\ Saving(q) => flock' = flock
    BY <1>1 DEF IInv, LockRight
  <2> QED BY <1>1, <1>2, <2>1, RestKeeps
<1>3. CASE Copied(p)
  <2>1. mem \in [Proc -> Copy]
    BY DEF IInv, TypeInv
  <2>2. mem'[p] = Resting /\ \A q \in Proc : q # p => mem'[q] = mem[q]
    BY <1>1, <2>1
  <2>3. Resting \in Copy /\ Resting.pc = "idle" /\ Resting.slab = {} /\ OneInt(Resting.map)
    BY DEF Resting, Copy, OneInt
  <2>4. \A q \in Proc : ~Saving(q)' /\ ~Copied(q)'
    <3>1. Saving(p)
      BY <1>3 DEF Saving, Copied
    <3> QED BY <2>2, <2>3, <3>1, Alone DEF Saving, Copied
  <2>5. Firm' \subseteq Firm
    <3>1. \A q \in Proc : Copied(q) => q = p
      BY <1>3, Alone DEF Saving, Copied
    <3> QED BY <1>1, <1>3, <3>1 DEF Firm, Pending
  <2>6. TypeInv'
    <3>1. mem' \in [Proc -> Copy']
      BY <1>1, <2>1, <2>3 DEF Copy
    <3> QED BY <1>1, <2>2, <2>3, <3>1 DEF IInv, TypeInv, Row
  <2>7. RowsRight'
    <3>1. \A r : Known(r)' => Known(r)
      BY <1>1, <2>2, <2>3 DEF Known
    <3> QED BY <1>1, <3>1 DEF IInv, RowsRight, Row
  <2>8. MapsRight' /\ JsonFirst'
    BY <1>1, <2>2, <2>3 DEF IInv, MapsRight, JsonFirst
  <2>9. LockRight' /\ SlabSaved' /\ OwnDone'
    <3>1. \A q \in Proc : mem'[q].pc # "save_json"
      BY <2>4 DEF Copied
    <3> QED BY <2>4, <3>1 DEF LockRight, SlabSaved, OwnDone
  <2>10. DiskFound'
    BY <1>1, <2>5 DEF IInv, DiskFound, Found
  <2>11. CopyFound'
    <3>1. SUFFICES ASSUME NEW q \in Proc, NEW e \in Firm' \ stale[q]
                   PROVE  /\ mem'[q].pc = "slab" => Found(slab, mem'[q].map, e, acked[e])
                          /\ mem'[q].pc = "wait" => Found(mem'[q].slab, mem'[q].map, e, acked[e])
      BY <1>1, <2>4 DEF CopyFound, Found
    <3>2. CASE q = p
      BY <2>2, <2>3, <3>2
    <3>3. CASE q # p
      BY <2>2, <2>5, <3>1, <3>3 DEF IInv, CopyFound
    <3> QED BY <3>2, <3>3
  <2> QED BY <2>6, <2>7, <2>8, <2>9, <2>10, <2>11 DEF IInv
<1> QED BY <1>2, <1>3

-----------------------------------------------------------------------------
(* The specification.                                                        *)

LEMMA Initially == Init => IInv
<1> SUFFICES ASSUME Init PROVE IInv
  OBVIOUS
<1> USE DEF Init
<1>1. Resting \in Copy /\ Resting.pc = "idle" /\ Resting.slab = {} /\ OneInt(Resting.map)
  BY DEF Resting, Copy, OneInt
<1>2. \A p \in Proc : mem[p] = Resting
  OBVIOUS
<1>3. TypeInv
  <2>1. mem \in [Proc -> Copy] /\ map \in Seq(Id)
    BY <1>1
  <2> QED BY <1>1, <1>2, <2>1 DEF TypeInv
<1>4. RowsRight
  <2>1. \A r : ~Known(r)
    BY <1>1, <1>2 DEF Known
  <2> QED BY <2>1 DEF RowsRight
<1>5. MapsRight
  <2>1. OneInt(map)
    BY DEF OneInt
  <2> QED BY <1>1, <1>2, <2>1 DEF MapsRight
<1>6. LockRight /\ SlabSaved /\ OwnDone
  BY <1>1, <1>2 DEF LockRight, SlabSaved, OwnDone, Saving, Copied
<1>7. DiskFound /\ CopyFound /\ JsonFirst
  <2>1. Firm = {}
    BY DEF Firm
  <2> QED BY <2>1 DEF DiskFound, CopyFound, JsonFirst
<1> QED BY <1>3, <1>4, <1>5, <1>6, <1>7 DEF IInv

LEMMA Inductive == IInv /\ [Next]_vars => IInv'
<1> SUFFICES ASSUME IInv, [Next]_vars PROVE IInv'
  OBVIOUS
<1>1. ASSUME NEW p \in Proc, Answer(p) PROVE IInv'
  <2>1. /\ ~Copied(p) /\ mem' = [mem EXCEPT ![p] = Resting]
        /\ slab' = slab /\ map' = map /\ json' = json /\ writes' = writes /\ flock' = flock
        /\ acked' = acked /\ excused' = excused /\ stale' = stale
    BY <1>1 DEF Answer, Copied, disk, history
  <2> QED BY <2>1, RestKeeps
<1>2. CASE UNCHANGED vars
  <2>1. /\ json' = json /\ slab' = slab /\ map' = map /\ mem' = mem /\ flock' = flock
        /\ writes' = writes /\ acked' = acked /\ stale' = stale /\ excused' = excused
    BY <1>2 DEF vars
  <2>2. TypeInv' /\ RowsRight' /\ MapsRight' /\ LockRight' /\ SlabSaved' /\ JsonFirst'
    BY <2>1 DEF IInv, TypeInv, RowsRight, Known, MapsRight, LockRight, SlabSaved, JsonFirst,
                Saving, Copied, Row, Copy
  <2>3. Firm' = Firm
    BY <2>1 DEF Firm, Pending, Own, Copied
  <2>4. DiskFound' /\ CopyFound' /\ OwnDone'
    BY <2>1, <2>3 DEF IInv, DiskFound, CopyFound, OwnDone, Saving, Own, Found, Live
  <2> QED BY <2>2, <2>4 DEF IInv
<1> QED BY <1>1, <1>2, CallKeeps, OpenKeeps, ApplyKeeps, SaveSlabKeeps, SaveMapKeeps,
           SaveJsonKeeps, KillKeeps DEF Next

THEOREM Invariance == Spec => []IInv
BY Initially, Inductive, PTL DEF Spec

(* When a call returns, the three files are all the ones it saved (_mcp_lock around  *)
(* col.save(): the lock is held from the first file to the last).                 *)
THEOREM SavesUndisturbed == Spec => []SaveUndisturbed
<1>1. IInv => SaveUndisturbed
  BY DEF IInv, SlabSaved, Copied, SaveUndisturbed
<1> QED BY <1>1, Invariance, PTL

(* While nobody saves, an acknowledged row is on disk in its last version, unless a   *)
(* call that had opened the collection before that saved after it.                  *)
THEOREM AckedKept == Spec => []AckedUnlessOverlapped
<1>1. IInv => AckedUnlessOverlapped
  <2>1. SUFFICES ASSUME IInv, flock = None, NEW e \in Id \ excused, acked[e] # 0
                 PROVE  VersionOf(slab, map, e) = acked[e]
    BY DEF AckedUnlessOverlapped
  <2>2. \A p \in Proc : ~Copied(p)
    BY <2>1, NoneAssumption DEF IInv, LockRight, Saving, Copied
  <2>3. e \in Firm
    BY <2>1, <2>2 DEF Firm, Pending
  <2>4. Found(slab, map, e, acked[e]) /\ slab \in SUBSET Row /\ OneInt(map)
    BY <2>1, <2>3 DEF IInv, DiskFound, TypeInv, MapsRight
  <2> QED BY <2>4, FoundVersion
<1> QED BY <1>1, Invariance, PTL

-----------------------------------------------------------------------------
(* Types: an integer is made by the write of a new id, so neither integers nor the   *)
(* length of a map exceed the number of writes.                                  *)
Fits(s, m) == (\A r \in s : r.int \in 1..writes) /\ Len(m) <= writes

Bounded ==
  /\ Fits(slab, map) /\ \A p \in Proc : Fits(mem[p].slab, mem[p].map)
  /\ writes <= MaxWrites /\ crashes \in 0..MaxCrashes
  /\ flock \in Proc \cup {None} /\ excused \subseteq Id
  /\ \A e \in Id : acked[e] <= writes

LEMMA FitsResting == IInv => Fits(Resting.slab, Resting.map)
BY DEF Fits, Resting, IInv, TypeInv

(* One call moves on, and the disk stays or becomes its copy.                      *)
LEMMA CopyMoves ==
  ASSUME IInv, Bounded, NEW p \in Proc, NEW x, mem' = [mem EXCEPT ![p] = x],
         writes' = writes, Fits(x.slab, x.map),
         slab' \in {slab, mem[p].slab}, map' \in {map, mem[p].map},
         crashes' \in 0..MaxCrashes, flock' \in Proc \cup {None}, excused' \subseteq Id,
         \A e \in Id : acked'[e] <= writes
  PROVE  Bounded'
<1>1. \A q \in Proc : mem'[q] = x \/ mem'[q] = mem[q]
  BY DEF IInv, TypeInv
<1>2. \A q \in Proc : Fits(mem[q].slab, mem[q].map)'
  BY <1>1 DEF Bounded, Fits
<1>3. Fits(slab, map)'
  BY DEF Bounded, Fits
<1> QED BY <1>2, <1>3 DEF Bounded

LEMMA WriteBounded ==
  ASSUME IInv, Bounded, NEW p \in Proc, Write(p), mem[p].id \in Id,
         UNCHANGED <<disk, crashes, acked, excused>>, flock' \in Proc \cup {None}
  PROVE  Bounded'
<1> DEFINE m == mem[p].map
           e == mem[p].id
           m2 == WithId(m, e)
           new == NewRow(m, e, writes + 1)
<1>1. m \in Seq(Id) /\ e \in Id /\ Len(m) <= writes /\ Len(m) \in Nat /\ writes \in Nat
  <2>1. mem[p] \in Copy /\ writes \in Nat
    BY DEF IInv, TypeInv
  <2> QED BY <2>1 DEF Copy, Bounded, Fits
<1>2. m2 \in Seq(Id) /\ Len(m2) \in Nat /\ Len(m2) <= writes + 1 /\ \E i \in DOMAIN m2 : m2[i] = e
  <2> HIDE DEF m, e
  <2>1. CASE e \in SeqSet(m)
    <3>1. m2 = m
      BY <2>1 DEF WithId
    <3> QED BY <1>1, <2>1, <3>1 DEF SeqSet
  <2>2. CASE e \notin SeqSet(m)
    <3>1. m2 = Append(m, e)
      BY <2>2 DEF WithId
    <3>2. /\ Append(m, e) \in Seq(Id) /\ Len(Append(m, e)) = Len(m) + 1
          /\ Append(m, e)[Len(m) + 1] = e /\ DOMAIN Append(m, e) = 1..(Len(m) + 1)
      BY <1>1
    <3> QED BY <1>1, <3>1, <3>2
  <2> QED BY <2>1, <2>2
<1>3. new.int \in 1..(writes + 1)
  <2> HIDE DEF m, e
  <2>1. new.int = IntOf(m2, e)
    BY DEF NewRow
  <2> HIDE DEF m2
  <2>2. IntOf(m2, e) \in DOMAIN m2
    BY <1>2 DEF IntOf
  <2> QED BY <1>1, <1>2, <2>1, <2>2
<1>4. PICK s2 : /\ mem' = [mem EXCEPT ![p].pc = "save", ![p].map = m2, ![p].slab = s2]
                /\ writes < MaxWrites /\ writes' = writes + 1
                /\ s2 \subseteq mem[p].slab \cup {new}
  BY DEF Write, WithId, NewRow
<1> HIDE DEF m2, new
<1>5. \A q \in Proc : \/ mem'[q] = mem[q]
                      \/ mem'[q].map = m2 /\ mem'[q].slab = s2
  BY <1>4 DEF IInv, TypeInv, Copy
<1>6. \A r \in slab : r.int \in 1..(writes + 1)
  BY <1>1 DEF Bounded, Fits
<1>7. \A q \in Proc : \A r \in mem[q].slab : r.int \in 1..(writes + 1)
  BY <1>1 DEF Bounded, Fits
<1>8. \A q \in Proc : \A r \in mem'[q].slab : r.int \in 1..(writes + 1)
  BY <1>3, <1>4, <1>5, <1>7
<1>9. \A q \in Proc : Len(mem'[q].map) <= writes + 1
  <2>1. \A q \in Proc : Len(mem[q].map) \in Nat /\ Len(mem[q].map) <= writes
    BY DEF Bounded, Fits, IInv, TypeInv, Copy
  <2> QED BY <1>1, <1>2, <1>5, <2>1
<1>10. Len(map) <= writes + 1
  BY <1>1 DEF Bounded, Fits, IInv, TypeInv
<1>11. Fits(slab, map)' /\ \A q \in Proc : Fits(mem[q].slab, mem[q].map)'
  BY <1>4, <1>6, <1>8, <1>9, <1>10 DEF Fits, disk
<1>12. writes + 1 <= MaxWrites /\ \A f \in Id : acked[f] <= writes + 1
  BY <1>1, <1>4, BoundsAssumption DEF Bounded, IInv, TypeInv
<1> QED BY <1>4, <1>11, <1>12 DEF Bounded

LEMMA SaveJsonBounded ==
  ASSUME IInv, Bounded, NEW p \in Proc, SaveJson(p)
  PROVE  Bounded'
<1>1. /\ mem' = [mem EXCEPT ![p] = Resting] /\ mem[p].pc = "save_json" /\ flock' = None
      /\ UNCHANGED <<slab, map, writes, crashes>>
  BY DEF SaveJson
<1>2. mem[p] \in Copy /\ OneInt(mem[p].map) /\ mem[p].id \in Id /\ writes \in Nat
  BY <1>1 DEF IInv, TypeInv, MapsRight
<1>3. ASSUME mem[p].op \notin Maintenance PROVE VersionOf(mem[p].slab, mem[p].map, mem[p].id) <= writes
  <2>1. CASE ~Live(mem[p].slab, mem[p].map, mem[p].id)
    BY <1>2, <2>1 DEF VersionOf
  <2>2. CASE \E v \in 1..writes : Found(mem[p].slab, mem[p].map, mem[p].id, v)
    <3>1. PICK v \in 1..writes : Found(mem[p].slab, mem[p].map, mem[p].id, v)
      BY <2>2
    <3>2. mem[p].slab \in SUBSET Row
      BY <1>2 DEF Copy
    <3>3. VersionOf(mem[p].slab, mem[p].map, mem[p].id) = v
      BY <1>2, <3>1, <3>2, FoundVersion
    <3> QED BY <3>3
  <2> QED BY <1>1, <1>3, <2>1, <2>2 DEF IInv, OwnDone, Saving
<1>4. \A e \in Id : acked'[e] <= writes
  <2>1. acked' = [e \in Id |-> IF e \in Own(p) THEN VersionOf(mem[p].slab, mem[p].map, e) ELSE acked[e]]
    BY DEF SaveJson, Committed, Own
  <2>2. \A e \in Own(p) : mem[p].op \notin Maintenance /\ e = mem[p].id
    BY DEF Own
  <2> QED BY <1>3, <2>1, <2>2 DEF Bounded
<1>5. excused' \subseteq Id
  BY DEF SaveJson, Committed, Bounded, IInv, TypeInv
<1> QED BY <1>1, <1>4, <1>5, FitsResting, CopyMoves DEF Bounded

LEMMA ApplyBounded ==
  ASSUME IInv, Bounded, NEW p \in Proc, Apply(p)
  PROVE  Bounded'
<1>1. /\ flock' = p /\ mem[p].pc = "wait" /\ Applied(p)
      /\ slab' = slab /\ map' = map /\ crashes' = crashes /\ acked' = acked /\ excused' = excused
  BY DEF Apply, disk, history
<1>2. mem[p] \in Copy /\ mem[p].id \in Id
  BY <1>1 DEF IInv, TypeInv
<1>3. CASE Write(p)
  BY <1>1, <1>2, <1>3, WriteBounded DEF Apply
<1>4. ASSUME NEW s, s \subseteq mem[p].slab, writes' = writes,
             mem' = [mem EXCEPT ![p] = [mem[p] EXCEPT !.pc = "save", !.slab = s]]
      PROVE  Bounded'
  <2> DEFINE x == [mem[p] EXCEPT !.pc = "save", !.slab = s]
  <2>1. x.slab = s /\ x.map = mem[p].map
    BY <1>2 DEF Copy
  <2>2. Fits(x.slab, x.map)
    BY <1>4, <2>1 DEF Bounded, Fits
  <2> HIDE DEF x
  <2>3. mem' = [mem EXCEPT ![p] = x]
    BY <1>4 DEF x
  <2> QED BY <1>1, <1>4, <2>2, <2>3, CopyMoves DEF Bounded
<1>5. CASE Remove(p)
  <2> DEFINE s == {r \in mem[p].slab : mem[p].id \in SeqSet(mem[p].map)
                                         => r.int # IntOf(mem[p].map, mem[p].id)}
  <2>1. /\ mem' = [mem EXCEPT ![p] = [mem[p] EXCEPT !.pc = "save", !.slab = s]]
        /\ writes' = writes
    BY <1>2, <1>5 DEF Remove
  <2> QED BY <1>4, <2>1
<1>6. CASE mem' = [mem EXCEPT ![p].pc = "save"] /\ UNCHANGED writes
  <2>1. mem' = [mem EXCEPT ![p] = [mem[p] EXCEPT !.pc = "save", !.slab = mem[p].slab]]
    BY <1>2, <1>6 DEF Copy
  <2> QED BY <1>4, <1>6, <2>1
<1> QED BY <1>1, <1>3, <1>5, <1>6 DEF Applied

LEMMA StepBounded == IInv /\ Bounded /\ [Next]_vars => Bounded'
<1> SUFFICES ASSUME IInv, Bounded, [Next]_vars PROVE Bounded'
  OBVIOUS
<1>1. /\ \A p \in Proc : mem[p] \in Copy
      /\ crashes \in 0..MaxCrashes /\ flock \in Proc \cup {None} /\ excused \subseteq Id
      /\ \A e \in Id : acked[e] <= writes
      /\ \A p \in Proc : Fits(mem[p].slab, mem[p].map)
      /\ Fits(slab, map) /\ Fits({}, <<>>)
  BY FitsResting DEF IInv, TypeInv, Bounded, Resting
<1>2. ASSUME NEW p \in Proc, NEW op, NEW e \in Id, Call(p, op, e) PROVE Bounded'
  <2> DEFINE x == [Resting EXCEPT !.pc = IF json THEN "slab" ELSE "wait", !.op = op,
                                  !.id = e, !.map = IF json THEN map ELSE <<>>]
  <2>1. /\ mem' = [mem EXCEPT ![p] = x] /\ writes' = writes
        /\ slab' = slab /\ map' = map /\ crashes' = crashes /\ flock' = flock
        /\ acked' = acked /\ excused' = excused
    BY <1>2 DEF Call, disk
  <2>2. x.slab = {} /\ x.map \in {map, <<>>}
    BY DEF Resting
  <2>3. Fits(x.slab, x.map)
    BY <1>1, <2>2 DEF Fits
  <2> HIDE DEF x
  <2> QED BY <1>1, <2>1, <2>3, CopyMoves
<1>3. ASSUME NEW p \in Proc, OpenSlab(p) PROVE Bounded'
  <2> DEFINE x == [mem[p] EXCEPT !.slab = slab, !.pc = IF mem[p].op \in Reading THEN "read" ELSE "wait"]
  <2>1. /\ mem' = [mem EXCEPT ![p] = x] /\ writes' = writes
        /\ slab' = slab /\ map' = map /\ crashes' = crashes /\ flock' = flock
        /\ acked' = acked /\ excused' = excused
    BY <1>1, <1>3 DEF OpenSlab, disk, history
  <2>2. x.slab = slab /\ x.map = mem[p].map
    BY <1>1 DEF Copy
  <2>3. Fits(x.slab, x.map)
    BY <1>1, <2>2 DEF Fits
  <2> HIDE DEF x
  <2> QED BY <1>1, <2>1, <2>3, CopyMoves
<1>4. ASSUME NEW p \in Proc, Answer(p) \/ Kill(p) PROVE Bounded'
  <2>1. /\ mem' = [mem EXCEPT ![p] = Resting] /\ writes' = writes
        /\ slab' = slab /\ map' = map /\ acked' = acked
    BY <1>4 DEF Answer, Kill, disk, history
  <2>2. flock' \in Proc \cup {None} /\ excused' \subseteq Id
    <3>1. stale[p] \subseteq Id /\ (mem[p].pc # "idle" => Own(p) \subseteq Id)
      BY DEF IInv, TypeInv, Own
    <3> QED BY <1>1, <1>4, <3>1 DEF Answer, Kill, history
  <2>3. crashes' \in 0..MaxCrashes
    BY <1>1, <1>4, BoundsAssumption DEF Answer, Kill
  <2> QED BY <1>1, <2>1, <2>2, <2>3, FitsResting, CopyMoves
<1>5. ASSUME NEW p \in Proc, NEW pc, mem' = [mem EXCEPT ![p].pc = pc],
             slab' \in {slab, mem[p].slab}, map' \in {map, mem[p].map},
             UNCHANGED <<flock, writes, crashes, history>>
      PROVE  Bounded'
  <2> DEFINE x == [mem[p] EXCEPT !.pc = pc]
  <2>1. mem' = [mem EXCEPT ![p] = x]
    BY <1>1, <1>5
  <2>2. x.slab = mem[p].slab /\ x.map = mem[p].map
    BY <1>1 DEF Copy
  <2>3. Fits(x.slab, x.map)
    BY <1>1, <2>2
  <2> HIDE DEF x
  <2> QED BY <1>1, <1>5, <2>1, <2>3, CopyMoves DEF history
<1>6. ASSUME NEW p \in Proc, SaveSlab(p) \/ SaveMap(p) PROVE Bounded'
  BY <1>5, <1>6 DEF SaveSlab, SaveMap
<1>7. CASE UNCHANGED vars
  BY <1>1, <1>7 DEF vars, Bounded, Fits
<1> QED BY <1>2, <1>3, <1>4, <1>6, <1>7, ApplyBounded, SaveJsonBounded DEF Next

(* The files and copies have their types; a map never names an id twice, and its      *)
(* integers, like the versions, are bounded by the writes (_to_int).                *)
THEOREM TypeCorrect == Spec => []TypeOK
<1>1. Init => Bounded
  <2> SUFFICES ASSUME Init PROVE Bounded
    OBVIOUS
  <2>1. Fits({}, <<>>) /\ \A p \in Proc : mem[p].slab = {} /\ mem[p].map = <<>>
    BY DEF Init, Fits, Resting
  <2>2. slab = {} /\ map = <<>> /\ flock = None /\ excused = {} /\ \A e \in Id : acked[e] <= writes
    BY DEF Init
  <2>3. writes <= MaxWrites /\ crashes \in 0..MaxCrashes
    BY BoundsAssumption DEF Init
  <2> QED BY <2>1, <2>2, <2>3 DEF Bounded
<1>2. IInv /\ Bounded => TypeOK
  <2> SUFFICES ASSUME IInv, Bounded PROVE TypeOK
    OBVIOUS
  <2>1. \A r : Known(r) => r \in Row /\ r.ver \in 1..writes
    <3>1. \A r : Known(r) => r \in Row
      BY DEF Known, IInv, TypeInv, Copy
    <3> QED BY <3>1 DEF IInv, RowsRight
  <2>2. \A r : Known(r) => r.int \in 1..writes
    BY DEF Known, Bounded, Fits
  <2>3. \A r : Known(r) => r \in [int : 1..writes, of : Id, ver : 1..writes]
    BY <2>1, <2>2 DEF Row
  <2>4. IsRows(slab) /\ \A p \in Proc : IsRows(mem[p].slab)
    BY <2>3 DEF IsRows, Known
  <2>5. \A m \in {map} \cup {mem[p].map : p \in Proc} :
          /\ m \in Seq(Id) /\ Len(m) <= writes
          /\ \A i, j \in DOMAIN m : m[i] = m[j] => i = j
    <3>1. map \in Seq(Id) /\ Len(map) <= writes /\ OneInt(map)
      BY DEF IInv, TypeInv, MapsRight, Bounded, Fits
    <3>2. \A p \in Proc : mem[p].map \in Seq(Id) /\ Len(mem[p].map) <= writes /\ OneInt(mem[p].map)
      BY DEF IInv, TypeInv, MapsRight, Bounded, Fits, Copy
    <3> QED BY <3>1, <3>2 DEF OneInt
  <2>6. \A p \in Proc : /\ mem[p].pc \in {"idle", "slab", "read", "wait", "save", "save_map", "save_json"}
                        /\ mem[p].op \in Mutating \cup Reading \cup {"none"}
                        /\ mem[p].id \in Id \cup {None}
    BY DEF IInv, TypeInv, Copy
  <2>7. acked \in [Id -> 0..MaxWrites] /\ writes \in 0..MaxWrites
    <3>1. acked \in [Id -> Nat] /\ writes \in Nat /\ writes <= MaxWrites
          /\ \A e \in Id : acked[e] <= writes
      BY DEF IInv, TypeInv, Bounded
    <3>2. \A e \in Id : acked[e] \in 0..MaxWrites
      BY <3>1, BoundsAssumption
    <3> QED BY <3>1, <3>2, BoundsAssumption
  <2> QED BY <2>4, <2>5, <2>6, <2>7 DEF TypeOK, IInv, TypeInv, Bounded
<1> QED BY <1>1, <1>2, StepBounded, Initially, Inductive, PTL DEF Spec
=============================================================================
