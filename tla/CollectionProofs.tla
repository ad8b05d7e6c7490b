-------------------------- MODULE CollectionProofs --------------------------
(***************************************************************************)
(* The id map of a collection is a bijection, and the map on disk is a prefix *)
(* of the one in memory, for every set of ids, every batch and every crash.    *)
(*                                                                         *)
(* Until a crash tears a save a live row has a name, update_texts inserts no    *)
(* row, and every step of the collection is a step of the abstract VectorStore;  *)
(* when no call repeats an id within its batch an id never has two live rows.    *)
(***************************************************************************)
EXTENDS Collection, SequenceTheorems, FiniteSetTheorems, WellFoundedInduction, TLAPS

(* The shape of the variables the id map depends on.                          *)
MapTypes ==
  /\ int2id \in Seq(Ids)
  /\ disk = [rows |-> disk.rows, sealed |-> disk.sealed,
             map |-> disk.map, meta |-> disk.meta]
  /\ disk.map \in Seq(Ids)

Injective(s) == \A i, j \in DOMAIN s : s[i] = s[j] => i = j

InverseOf(m, f) ==
  /\ DOMAIN f = Range(m)
  /\ \A i \in DOMAIN m : f[m[i]] = i - 1

InverseMaps == InverseOf(int2id, id2int)

(* m2 and f2 are list and dictionary after _to_int gave the unknown id e a number. *)
Extended(m, f, e, m2, f2) ==
  /\ m2 = Append(m, e)
  /\ DOMAIN f2 = DOMAIN f \cup {e} /\ f2[e] = Len(m)
  /\ \A x \in DOMAIN f : f2[x] = f[x]

Prefix(s, t) == Len(s) <= Len(t) /\ \A i \in DOMAIN s : s[i] = t[i]

(* Ids are mapped only by a call, a save excludes calls, and the sidecar is     *)
(* behind the map in memory until the second step of a save.                    *)
CallIds ==
  call.step = "map" => call.ids \in Seq(Ids) /\ call.mapped \in Nat /\ up /\ saving = "no"

CallShape ==
  call = [step |-> call.step, ids |-> call.ids, mapped |-> call.mapped,
          fresh |-> call.fresh, vec |-> call.vec, texts |-> call.texts,
          strict |-> call.strict]

SavedMap ==
  /\ up /\ disk.meta => Prefix(disk.map, int2id)
  /\ saving # "no" => up
  /\ saving = "map" => disk.map = int2id

MapInv == MapTypes /\ CallIds /\ CallShape /\ Injective(disk.map) /\ InverseMaps /\ SavedMap

-----------------------------------------------------------------------------
(* Appending an unknown id keeps the two halves inverse.                        *)
LEMMA AppendInverse ==
  ASSUME NEW m \in Seq(Ids), NEW f, InverseOf(m, f),
         NEW e \in Ids, e \notin DOMAIN f,
         NEW m2, NEW f2, Extended(m, f, e, m2, f2)
  PROVE  m2 \in Seq(Ids) /\ InverseOf(m2, f2) /\ Prefix(m, m2)
<1> USE DEF InverseOf, Extended
<1>1. /\ m2 \in Seq(Ids) /\ Len(m2) = Len(m) + 1 /\ Len(m) \in Nat
      /\ DOMAIN m = 1..Len(m) /\ DOMAIN m2 = 1..(Len(m) + 1)
      /\ \A i \in 1..Len(m) : m2[i] = m[i]
      /\ m2[Len(m) + 1] = e
  OBVIOUS
<1>2. Range(m2) = Range(m) \cup {e}
  <2>1. \A x \in Range(m2) : x \in Range(m) \cup {e}
    BY <1>1 DEF Range
  <2>2. \A x \in Range(m) \cup {e} : x \in Range(m2)
    <3>1. e \in Range(m2)
      BY <1>1 DEF Range
    <3>2. ASSUME NEW i \in DOMAIN m PROVE m[i] \in Range(m2)
      <4>1. i \in DOMAIN m2 /\ m2[i] = m[i]
        BY <1>1
      <4>2. QED
        BY <4>1 DEF Range
    <3>3. QED
      BY <3>1, <3>2 DEF Range
  <2>3. QED
    BY <2>1, <2>2
<1>3. \A i \in DOMAIN m2 : f2[m2[i]] = i - 1
  <2> SUFFICES ASSUME NEW i \in 1..(Len(m) + 1) PROVE f2[m2[i]] = i - 1
    BY <1>1
  <2>1. CASE i = Len(m) + 1
    BY <2>1, <1>1
  <2>2. CASE i \in 1..Len(m)
    <3>1. m2[i] = m[i] /\ m[i] \in Range(m)
      BY <2>2, <1>1 DEF Range
    <3>2. f2[m[i]] = f[m[i]]
      BY <3>1
    <3>3. QED
      BY <2>2, <3>1, <3>2, <1>1
  <2>3. QED
    BY <2>1, <2>2
<1>4. Prefix(m, m2)
  BY <1>1 DEF Prefix
<1>5. QED
  BY <1>1, <1>2, <1>3, <1>4

(* An id map that is inverse to a dictionary names no id twice.                  *)
LEMMA InverseInjective ==
  ASSUME NEW m, NEW f, \A i \in DOMAIN m : f[m[i]] = i - 1, DOMAIN m \subseteq Int
  PROVE  Injective(m)
<1> SUFFICES ASSUME NEW i \in DOMAIN m, NEW j \in DOMAIN m, m[i] = m[j] PROVE i = j
  BY DEF Injective
<1>1. i \in Int /\ j \in Int /\ i - 1 = j - 1
  OBVIOUS
<1>2. QED
  BY <1>1

(* Rebuilding the dictionary from the sidecar yields the inverse of the list.     *)
LEMMA RebuiltInverse ==
  ASSUME NEW m \in Seq(Ids), Injective(m),
         NEW f, f = [e \in Range(m) |-> (CHOOSE i \in DOMAIN m : m[i] = e) - 1]
  PROVE  InverseOf(m, f)
<1>1. DOMAIN f = Range(m)
  OBVIOUS
<1>2. ASSUME NEW i \in DOMAIN m PROVE f[m[i]] = i - 1
  <2>1. m[i] \in Range(m)
    BY DEF Range
  <2>2. (CHOOSE j \in DOMAIN m : m[j] = m[i]) = i
    BY DEF Injective
  <2>3. QED
    BY <2>1, <2>2
<1>3. QED
  BY <1>1, <1>2 DEF InverseOf

LEMMA EmptyInverse == InverseOf(<<>>, <<>>)
BY DEF InverseOf, Range

LEMMA InitMapInv == Init => MapInv
<1> SUFFICES ASSUME Init PROVE MapInv
  OBVIOUS
<1>1. QED
  BY EmptyInverse DEF Init, MapInv, MapTypes, CallIds, CallShape, Injective, InverseMaps, SavedMap,
              NoCall, EmptyDisk

-----------------------------------------------------------------------------
(* Steps that leave the id map, the sidecar and the save alone.                  *)
LEMMA MapUntouched ==
  ASSUME MapInv, UNCHANGED <<up, int2id, id2int, saving, disk>>,
         CallIds', CallShape'
  PROVE  MapInv'
BY DEF MapInv, MapTypes, Injective, InverseMaps, SavedMap, Prefix, CallIds, CallShape

LEMMA CallStepsKeepMapInv ==
  ASSUME MapInv,
         \/ Mapped \/ Build \/ Insert \/ Update \/ RuntimeRaises
         \/ \E b \in Batches : Delete(b)
  PROVE  MapInv'
<1>1. UNCHANGED <<up, int2id, id2int, saving, disk>>
  BY DEF Mapped, Build, Insert, Update, RuntimeRaises, Delete, memory
<1>2. CallIds' /\ CallShape'
  <2>1. CASE Mapped
    <3>1. call' = [call EXCEPT !.step = call'.step] /\ call'.step # "map"
      BY <2>1 DEF Mapped, MapInv, CallShape
    <3>2. QED
      BY <3>1 DEF MapInv, CallIds, CallShape
  <2>2. CASE Build \/ Update \/ RuntimeRaises
    BY <2>2 DEF Build, Update, RuntimeRaises, NoCall, CallIds, CallShape
  <2>3. CASE Insert
    <3>1. call' = NoCall \/ call' = [call EXCEPT !.step = "update"]
      BY <2>3 DEF Insert
    <3>2. CASE call' = NoCall
      BY <3>2 DEF NoCall, CallIds, CallShape
    <3>3. CASE call' = [call EXCEPT !.step = "update"]
      BY <3>3 DEF MapInv, CallIds, CallShape
    <3>4. QED
      BY <3>1, <3>2, <3>3
  <2>4. CASE \E b \in Batches : Delete(b)
    BY <2>4 DEF Delete, MapInv, CallIds, CallShape
  <2>5. QED
    BY <2>1, <2>2, <2>3, <2>4
<1>3. QED
  BY <1>1, <1>2, MapUntouched

LEMMA BeginIngestKeepsMapInv ==
  ASSUME MapInv, NEW b \in Batches, NEW v, NEW upsert, NEW texts, NEW strict,
         BeginIngest(b, v, upsert, texts, strict)
  PROVE  MapInv'
<1>1. UNCHANGED <<up, int2id, id2int, saving, disk>>
  BY DEF BeginIngest, memory
<1>2. CallIds' /\ CallShape'
  BY BatchesAssumption DEF BeginIngest, Idle, CallIds, CallShape
<1>3. QED
  BY <1>1, <1>2, MapUntouched

LEMMA MapNextKeepsMapInv ==
  ASSUME MapInv, MapNext
  PROVE  MapInv'
<1> DEFINE e == call.ids[call.mapped + 1]
<1>1. /\ call.ids \in Seq(Ids) /\ call.mapped \in Nat /\ up /\ saving = "no"
      /\ e \in Ids
  BY DEF MapInv, CallIds, MapNext
<1>2. UNCHANGED <<up, saving, disk>> /\ call' = [call EXCEPT !.mapped = @ + 1]
  BY DEF MapNext
<1>3. CallIds' /\ CallShape'
  BY <1>1, <1>2 DEF MapInv, CallIds, CallShape
<1>4. CASE UNCHANGED <<int2id, id2int>>
  BY <1>2, <1>3, <1>4, MapUntouched
<1>5. CASE /\ ~Known(e)
           /\ id2int' = [x \in DOMAIN id2int \cup {e} |->
                            IF x = e THEN Len(int2id) ELSE id2int[x]]
           /\ int2id' = Append(int2id, e)
  <2>0. int2id \in Seq(Ids) /\ InverseOf(int2id, id2int) /\ e \notin DOMAIN id2int
    BY <1>5 DEF MapInv, MapTypes, InverseMaps, Known
  <2>1. /\ int2id' \in Seq(Ids) /\ InverseMaps' /\ Prefix(int2id, int2id')
    <3>1. e \in Ids /\ Extended(int2id, id2int, e, int2id', id2int')
      BY <1>1, <1>5, <2>0 DEF Extended
    <3> HIDE DEF e
    <3>2. QED
      BY <2>0, <3>1, AppendInverse DEF InverseMaps
  <2>2. MapTypes'
    BY <2>1, <1>2 DEF MapInv, MapTypes
  <2>3. SavedMap'
    <3>1. ASSUME Prefix(disk.map, int2id) PROVE Prefix(disk.map, int2id')
      <4>1. DOMAIN disk.map = 1..Len(disk.map) /\ DOMAIN int2id = 1..Len(int2id)
        BY DEF MapInv, MapTypes
      <4>2. Len(disk.map) \in Nat /\ Len(int2id) \in Nat /\ Len(int2id') \in Nat
        BY <2>1 DEF MapInv, MapTypes
      <4>3. QED
        BY <2>1, <3>1, <4>1, <4>2 DEF Prefix
    <3>2. disk' = disk /\ up' = up /\ saving' = "no"
      BY <1>1, <1>2
    <3>3. disk.meta => Prefix(disk.map, int2id')
      BY <1>1, <3>1 DEF MapInv, SavedMap
    <3>4. QED
      BY <3>2, <3>3 DEF SavedMap
  <2>4. QED
    BY <1>2, <1>3, <2>1, <2>2, <2>3 DEF MapInv, Injective
<1>6. QED
  BY <1>4, <1>5 DEF MapNext

LEMMA LifecycleKeepsMapInv ==
  ASSUME MapInv, Create \/ Open \/ Crash
  PROVE  MapInv'
<1>2. CASE Create
  BY EmptyInverse, <1>2 DEF Create, MapInv, MapTypes, CallIds, CallShape, Injective, InverseMaps,
                    SavedMap
<1>3. CASE Open
  <2>1. int2id' = disk.map /\ InverseMaps'
    <3>1. /\ int2id' = disk.map
          /\ id2int' = [e \in Range(disk.map) |->
                           (CHOOSE i \in DOMAIN disk.map : disk.map[i] = e) - 1]
      BY <1>3 DEF Open
    <3>2. disk.map \in Seq(Ids) /\ Injective(disk.map)
      BY DEF MapInv, MapTypes
    <3>3. QED
      BY <3>1, <3>2, RebuiltInverse DEF InverseMaps
  <2>2. Prefix(disk.map, int2id)'
    BY <2>1, <1>3 DEF Open, Prefix, MapInv, MapTypes
  <2>3. QED
    BY <1>3, <2>1, <2>2 DEF Open, MapInv, MapTypes, CallIds, CallShape, Injective, SavedMap
<1>4. CASE Crash
  BY EmptyInverse, <1>4 DEF Crash, MapInv, MapTypes, CallIds, CallShape, Injective, InverseMaps,
                    SavedMap, NoCall
<1>5. QED
  BY <1>2, <1>3, <1>4

LEMMA SaveKeepsMapInv ==
  ASSUME MapInv, SaveIndex \/ SaveMap \/ SaveMeta
  PROVE  MapInv'
<1>1. UNCHANGED <<up, int2id, id2int, call>>
  BY DEF SaveIndex, SaveMap, SaveMeta, memory
<1>2. InverseMaps' /\ CallShape'
  BY <1>1 DEF MapInv, InverseMaps, CallShape
<1>3. CASE SaveIndex
  <2>1. disk' = [disk EXCEPT !.rows = rows, !.sealed = sealed]
    BY <1>3 DEF SaveIndex
  <2>2. MapTypes' /\ disk'.map = disk.map /\ disk'.meta = disk.meta
    BY <2>1, <1>1 DEF MapInv, MapTypes
  <2>3. SavedMap' /\ CallIds'
    BY <1>3, <1>1, <2>2 DEF SaveIndex, Idle, MapInv, SavedMap, CallIds
  <2>4. QED
    BY <1>2, <2>2, <2>3 DEF MapInv, Injective
<1>4. CASE SaveMap
  <2>1. disk' = [disk EXCEPT !.map = int2id]
    BY <1>4 DEF SaveMap
  <2>2. MapTypes' /\ disk'.map = int2id /\ disk'.meta = disk.meta
    BY <2>1, <1>1 DEF MapInv, MapTypes
  <2>3. Injective(int2id)
    BY InverseInjective DEF MapInv, MapTypes, InverseMaps, InverseOf
  <2>4. SavedMap' /\ CallIds'
    BY <1>4, <1>1, <2>2 DEF SaveMap, MapInv, MapTypes, SavedMap, CallIds, Prefix
  <2>5. QED
    BY <1>1, <1>2, <2>2, <2>3, <2>4 DEF MapInv, Injective
<1>5. CASE SaveMeta
  <2>1. disk' = [disk EXCEPT !.meta = TRUE]
    BY <1>5 DEF SaveMeta
  <2>2. MapTypes' /\ disk'.map = disk.map
    BY <2>1, <1>1 DEF MapInv, MapTypes
  <2>3. SavedMap' /\ CallIds'
    BY <1>5, <1>1, <2>2 DEF SaveMeta, MapInv, MapTypes, SavedMap, CallIds, Prefix
  <2>4. QED
    BY <1>2, <2>2, <2>3 DEF MapInv, Injective
<1>6. QED
  BY <1>3, <1>4, <1>5

LEMMA NextMapInv == MapInv /\ [Next]_vars => MapInv'
<1> SUFFICES ASSUME MapInv, [Next]_vars PROVE MapInv'
  OBVIOUS
<1>1. CASE UNCHANGED vars
  BY <1>1, MapUntouched DEF vars, MapInv, CallIds, CallShape
<1>2. CASE Create \/ Open \/ Crash
  BY <1>2, LifecycleKeepsMapInv
<1>3. CASE \E b \in Batches, v \in Versions, texts \in BOOLEAN :
             Add(b, v, texts) \/ Upsert(b, v, texts) \/ UpdateTexts(b, v)
  BY <1>3, BeginIngestKeepsMapInv DEF Add, Upsert, UpdateTexts
<1>4. CASE MapNext
  BY <1>4, MapNextKeepsMapInv
<1>5. CASE \/ Mapped \/ Build \/ Insert \/ Update \/ RuntimeRaises
           \/ \E b \in Batches : Delete(b)
  BY <1>5, CallStepsKeepMapInv
<1>6. CASE SaveIndex \/ SaveMap \/ SaveMeta
  BY <1>6, SaveKeepsMapInv
<1>7. QED
  BY <1>1, <1>2, <1>3, <1>4, <1>5, <1>6 DEF Next

THEOREM MapInvariance == Spec => []MapInv
BY InitMapInv, NextMapInv, PTL DEF Spec

(* An internal integer names one external id and back, in memory and on disk.     *)
THEOREM IdMapIsInverse == Spec => []IdMapInverse
<1>1. MapInv => IdMapInverse
  BY DEF MapInv, InverseMaps, InverseOf, Injective, IdMapInverse
<1>2. QED
  BY <1>1, MapInvariance, PTL

(* Whatever crashes hit, the saved id map is a prefix of the map in memory.       *)
THEOREM SavedMapStaysPrefix == Spec => []SavedMapIsPrefix
<1>1. MapInv => SavedMapIsPrefix
  BY DEF MapInv, SavedMap, Prefix, SavedMapIsPrefix
<1>2. QED
  BY <1>1, MapInvariance, PTL

-----------------------------------------------------------------------------
(* Rows.                                                                      *)

NoRepeats == \A b \in Batches : Injective(b)

(* Callers that repeat an id within a batch may get two rows for it.              *)
Unique(rs) == NoRepeats => \A r, s \in rs : r.iid = s.iid => r = s

NamedBy(rs, map) == \A r \in rs : r.iid \in 0..(Len(map) - 1)

Rowless(e) == \A r \in rows : r.iid # id2int[e]

(* The old ids of a call are known, its new ones become known one after the other  *)
(* and have no row until the index gets the batch.                              *)
FreshIds ==
  /\ call.fresh \subseteq DOMAIN call.ids
  /\ \A j, k \in DOMAIN call.ids :
       call.ids[j] = call.ids[k] /\ j \in call.fresh => k \in call.fresh
  /\ \A k \in DOMAIN call.ids : k <= call.mapped \/ k \notin call.fresh => Known(call.ids[k])
  /\ \A k \in call.fresh : k > call.mapped /\ Known(call.ids[k]) =>
       \E j \in call.fresh : j <= call.mapped /\ call.ids[j] = call.ids[k]
  /\ ~torn /\ call.step \in {"map", "insert"} =>
       \A k \in call.fresh : k <= call.mapped => Rowless(call.ids[k])

CallInv ==
  call.step # "idle" =>
    /\ up /\ saving = "no"
    /\ call.ids \in Batches /\ call.mapped \in 0..Len(call.ids)
    /\ call.step \in {"map", "build", "insert", "update"}
    /\ call.step # "map" => call.mapped = Len(call.ids)
    /\ call.step = "build" => ~sealed
    /\ call.step \in {"insert", "update"} => sealed
    /\ FreshIds

MemoryRows ==
  /\ ~sealed => rows = {}
  /\ ~torn => Unique(rows)
  /\ ~torn /\ up => NamedBy(rows, int2id)

DiskRows ==
  /\ ~disk.sealed => disk.rows = {}
  /\ ~torn => Unique(disk.rows)
  /\ saving # "no" => disk.rows = rows
  /\ ~torn /\ disk.meta /\ saving # "index" => NamedBy(disk.rows, disk.map)

RowInv == MapInv /\ CallInv /\ MemoryRows /\ DiskRows

-----------------------------------------------------------------------------
(* The integer of a known id is in range and leads back to the id.              *)
LEMMA KnownIds ==
  ASSUME MapInv, NEW e \in DOMAIN id2int
  PROVE  id2int[e] \in 0..(Len(int2id) - 1) /\ int2id[id2int[e] + 1] = e
<1>1. int2id \in Seq(Ids) /\ InverseOf(int2id, id2int)
  BY DEF MapInv, MapTypes, InverseMaps
<1>2. PICK i \in DOMAIN int2id : int2id[i] = e
  BY <1>1 DEF InverseOf, Range
<1>3. id2int[e] = i - 1 /\ i \in 1..Len(int2id) /\ Len(int2id) \in Nat
  BY <1>1, <1>2 DEF InverseOf
<1>4. QED
  BY <1>2, <1>3

LEMMA SameIntSameId ==
  ASSUME MapInv, NEW e \in DOMAIN id2int, NEW f \in DOMAIN id2int, id2int[e] = id2int[f]
  PROVE  e = f
BY KnownIds

(* Rows written for known, distinct ids of a batch that had no rows before keep   *)
(* one row per id, all of them named.                                          *)
Writes(row, P) == \A k \in P : row[k].iid = id2int[call.ids[k]]

LEMMA WrittenRows ==
  ASSUME MapInv, call.ids \in Batches,
         NEW P \in SUBSET DOMAIN call.ids, NEW old,
         Unique(old), NamedBy(old, int2id),
         \A k \in P : Known(call.ids[k]) /\ \A r \in old : r.iid # id2int[call.ids[k]],
         NEW row, Writes(row, P)
  PROVE  /\ Unique(old \cup {row[k] : k \in P})
         /\ NamedBy(old \cup {row[k] : k \in P}, int2id)
<1>1. \A k \in P : row[k].iid = id2int[call.ids[k]] /\ call.ids[k] \in DOMAIN id2int
  BY DEF Known, Writes
<1>2. ASSUME NoRepeats, NEW k \in P, NEW j \in P, row[k].iid = row[j].iid PROVE k = j
  <2>1. call.ids[k] = call.ids[j]
    BY <1>1, <1>2, SameIntSameId
  <2>2. QED
    BY <1>2, <2>1 DEF NoRepeats, Injective
<1>3. Unique(old \cup {row[k] : k \in P})
  BY <1>1, <1>2 DEF Unique
<1>4. NamedBy(old \cup {row[k] : k \in P}, int2id)
  BY <1>1, KnownIds DEF NamedBy
<1>5. QED
  BY <1>3, <1>4

LEMMA InitRowInv == Init => RowInv
BY InitMapInv DEF Init, RowInv, CallInv, MemoryRows, DiskRows, Unique, NamedBy,
                  NoCall, EmptyDisk

-----------------------------------------------------------------------------
(* A call that ends leaves no obligation about its batch.                       *)
LEMMA IdleCallInv == call.step = "idle" => CallInv
BY DEF CallInv

LEMMA BeginIngestKeepsRowInv ==
  ASSUME RowInv, NEW b \in Batches, NEW v, NEW upsert, NEW texts, NEW strict,
         BeginIngest(b, v, upsert, texts, strict)
  PROVE  RowInv'
<1>1. MapInv'
  BY BeginIngestKeepsMapInv DEF RowInv
<1>2. UNCHANGED <<up, int2id, id2int, sealed, rows, saving, disk, torn>>
  BY DEF BeginIngest, memory, history
<1>3. CallInv'
  <2>1. b \in Seq(Ids)
    BY BatchesAssumption
  <2>2. /\ call'.ids = b /\ call'.mapped = 0 /\ call'.step = "map"
        /\ call'.fresh = {k \in DOMAIN b : ~Known(b[k])}
        /\ up /\ saving = "no"
    BY DEF BeginIngest, Idle
  <2>3. \A k \in DOMAIN b : ~(k <= 0)
    BY <2>1
  <2>4. \A e : Known(e)' <=> Known(e)
    BY <1>2 DEF Known
  <2>5. FreshIds'
    BY <2>2, <2>3, <2>4 DEF FreshIds
  <2>6. QED
    BY <1>2, <2>1, <2>2, <2>5 DEF CallInv
<1>4. MemoryRows' /\ DiskRows'
  BY <1>2 DEF RowInv, MemoryRows, DiskRows
<1>5. QED
  BY <1>1, <1>3, <1>4 DEF RowInv

LEMMA MapNextKeepsRowInv ==
  ASSUME RowInv, MapNext
  PROVE  RowInv'
<1> DEFINE n == call.mapped + 1
           e == call.ids[n]
<1>1. /\ UNCHANGED <<up, sealed, rows, saving, disk, torn>>
      /\ call' = [call EXCEPT !.mapped = n]
      /\ call.step = "map" /\ call.mapped < Len(call.ids)
  BY DEF MapNext, history
<1>2. /\ call'.step = "map" /\ call'.ids = call.ids /\ call'.fresh = call.fresh
      /\ call'.mapped = n
  BY <1>1 DEF RowInv, MapInv, CallShape
<1>3. MapInv'
  BY MapNextKeepsMapInv DEF RowInv
<1>4. /\ up /\ saving = "no" /\ call.ids \in Batches /\ call.ids \in Seq(Ids)
      /\ call.mapped \in 0..Len(call.ids)
      /\ n \in 1..Len(call.ids) /\ n \in DOMAIN call.ids /\ Len(call.ids) \in Nat
  BY <1>1, BatchesAssumption DEF RowInv, CallInv
<1>5. /\ DOMAIN id2int' = DOMAIN id2int \cup {e}
      /\ \A f \in DOMAIN id2int : id2int'[f] = id2int[f]
      /\ e \notin DOMAIN id2int => id2int'[e] = Len(int2id)
      /\ int2id' = int2id \/ int2id' = Append(int2id, e)
  <2>1. CASE Known(e) /\ UNCHANGED <<int2id, id2int>>
    BY <2>1 DEF Known
  <2>2. CASE /\ ~Known(e)
             /\ id2int' = [x \in DOMAIN id2int \cup {e} |->
                              IF x = e THEN Len(int2id) ELSE id2int[x]]
             /\ int2id' = Append(int2id, e)
    BY <2>2 DEF Known
  <2>3. QED
    BY <2>1, <2>2 DEF MapNext
<1>6. FreshIds /\ e = call.ids[n]
  BY <1>1 DEF RowInv, CallInv
<1> HIDE DEF e
<1>7. /\ \A k \in DOMAIN call.ids : k <= n => k <= call.mapped \/ k = n
      /\ \A k \in DOMAIN call.ids : k <= call.mapped => k <= n
      /\ \A k \in DOMAIN call.ids : k > n => k > call.mapped
      /\ n <= n
  BY <1>4
<1>8. ASSUME NEW k \in DOMAIN call.ids, k <= n \/ k \notin call.fresh
      PROVE call.ids[k] \in DOMAIN id2int'
  BY <1>5, <1>6, <1>7, <1>8 DEF FreshIds, Known
<1>9. ASSUME NEW k \in call.fresh, k > n, call.ids[k] \in DOMAIN id2int'
      PROVE \E j \in call.fresh : j <= n /\ call.ids[j] = call.ids[k]
  <2>1. k \in DOMAIN call.ids /\ call.fresh \subseteq DOMAIN call.ids
    BY <1>6 DEF FreshIds
  <2>2. CASE call.ids[k] = e
    <3>1. n \in call.fresh
      BY <1>4, <1>6, <2>1, <2>2 DEF FreshIds
    <3>2. QED
      BY <1>6, <1>7, <2>2, <3>1
  <2>3. CASE call.ids[k] \in DOMAIN id2int
    <3>1. PICK j \in call.fresh : j <= call.mapped /\ call.ids[j] = call.ids[k]
      BY <1>6, <1>7, <1>9, <2>1, <2>3 DEF FreshIds, Known
    <3>2. QED
      BY <1>7, <2>1, <3>1
  <2>4. QED
    BY <1>5, <1>9, <2>2, <2>3
<1>10. ASSUME ~torn, NEW k \in call.fresh, k <= n
       PROVE \A r \in rows : r.iid # id2int'[call.ids[k]]
  <2>1. k \in DOMAIN call.ids
    BY <1>6 DEF FreshIds
  <2>2. ASSUME NEW j \in call.fresh, j <= call.mapped
        PROVE call.ids[j] \in DOMAIN id2int /\ \A r \in rows : r.iid # id2int'[call.ids[j]]
    <3>1. call.ids[j] \in DOMAIN id2int /\ \A r \in rows : r.iid # id2int[call.ids[j]]
      BY <1>1, <1>6, <1>10, <2>2 DEF FreshIds, Known, Rowless
    <3>2. QED
      BY <1>5, <3>1
  <2>3. CASE k = n
    <3>1. CASE e \in DOMAIN id2int
      <4>1. n > call.mapped
        BY <1>4
      <4>2. PICK j \in call.fresh : j <= call.mapped /\ call.ids[j] = call.ids[n]
        BY <1>6, <2>3, <3>1, <4>1 DEF FreshIds, Known
      <4>3. QED
        BY <2>2, <2>3, <4>2
    <3>2. CASE e \notin DOMAIN id2int
      <4>1. \A r \in rows : r.iid \in 0..(Len(int2id) - 1)
        BY <1>4, <1>10 DEF RowInv, MemoryRows, NamedBy
      <4>2. Len(int2id) \in Nat
        BY DEF RowInv, MapInv, MapTypes
      <4>3. \A r \in rows : r.iid # Len(int2id)
        BY <4>1, <4>2
      <4>4. QED
        BY <1>5, <1>6, <2>3, <3>2, <4>3
    <3>3. QED
      BY <3>1, <3>2
  <2>4. QED
    BY <1>7, <1>10, <2>1, <2>2, <2>3
<1>11. FreshIds'
  <2>1. \A k \in call'.fresh : k > call'.mapped /\ call'.ids[k] \in DOMAIN id2int' =>
           \E j \in call'.fresh : j <= call'.mapped /\ call'.ids[j] = call'.ids[k]
    BY <1>2, <1>9
  <2>2. ~torn' => \A k \in call'.fresh : k <= call'.mapped =>
                    \A r \in rows' : r.iid # id2int'[call'.ids[k]]
    BY <1>1, <1>2, <1>10
  <2>3. /\ call'.fresh \subseteq DOMAIN call'.ids
        /\ \A j, k \in DOMAIN call'.ids :
             call'.ids[j] = call'.ids[k] /\ j \in call'.fresh => k \in call'.fresh
    BY <1>2, <1>6 DEF FreshIds
  <2>4. \A k \in DOMAIN call'.ids :
          k <= call'.mapped \/ k \notin call'.fresh => call'.ids[k] \in DOMAIN id2int'
    BY <1>2, <1>8
  <2>5. QED
    BY <2>1, <2>2, <2>3, <2>4 DEF FreshIds, Known, Rowless
<1>12. CallInv'
  <2>1. call'.mapped \in 0..Len(call'.ids)
    BY <1>2, <1>4
  <2>2. up' /\ saving' = "no" /\ call'.ids \in Batches
    BY <1>1, <1>2, <1>4
  <2>3. QED
    BY <1>2, <1>11, <2>1, <2>2 DEF CallInv
<1>13. MemoryRows'
  <2>1. ASSUME NamedBy(rows, int2id) PROVE NamedBy(rows, int2id')
    <3>1. Len(int2id') \in Nat /\ Len(int2id) \in Nat /\ Len(int2id) <= Len(int2id')
      <4>1. int2id \in Seq(Ids)
        BY DEF RowInv, MapInv, MapTypes
      <4>2. QED
        BY <1>5, <4>1
    <3>2. \A x \in 0..(Len(int2id) - 1) : x \in 0..(Len(int2id') - 1)
      BY <3>1
    <3>3. QED
      BY <2>1, <3>2 DEF NamedBy
  <2>2. QED
    BY <1>1, <2>1 DEF RowInv, MemoryRows
<1>14. DiskRows'
  BY <1>1 DEF RowInv, DiskRows
<1>15. QED
  BY <1>3, <1>12, <1>13, <1>14 DEF RowInv

LEMMA MappedKeepsRowInv ==
  ASSUME RowInv, Mapped
  PROVE  RowInv'
<1>1. MapInv'
  BY CallStepsKeepMapInv DEF RowInv
<1>2. /\ UNCHANGED <<up, int2id, id2int, sealed, rows, saving, disk, torn>>
      /\ call.step = "map" /\ call.mapped = Len(call.ids)
      /\ call' = [call EXCEPT !.step = call'.step]
      /\ call'.step \in {"build", "insert", "update"}
      /\ call'.step = "build" => ~sealed
      /\ call'.step \in {"insert", "update"} => sealed
  BY DEF Mapped, memory, history, RowInv, MapInv, CallShape
<1>3. /\ call'.ids = call.ids /\ call'.fresh = call.fresh /\ call'.mapped = call.mapped
  BY <1>2 DEF RowInv, MapInv, CallShape
<1>4. \A f : (Known(f)' <=> Known(f)) /\ (Rowless(f)' <=> Rowless(f))
  BY <1>2 DEF Known, Rowless
<1>5. CallInv'
  <2>1. FreshIds'
    BY <1>2, <1>3, <1>4 DEF RowInv, CallInv, FreshIds
  <2>2. QED
    BY <1>2, <1>3, <2>1 DEF RowInv, CallInv
<1>6. MemoryRows' /\ DiskRows'
  BY <1>2 DEF RowInv, MemoryRows, DiskRows
<1>7. QED
  BY <1>1, <1>5, <1>6 DEF RowInv

(* What is known of the ids of a batch once they are all mapped.                 *)
LEMMA AllKnown ==
  ASSUME RowInv, call.step \in {"build", "insert", "update"}
  PROVE  /\ up /\ saving = "no" /\ call.ids \in Batches
         /\ call.fresh \subseteq DOMAIN call.ids
         /\ \A k \in DOMAIN call.ids : Known(call.ids[k])
         /\ ~torn /\ call.step = "insert" => \A k \in call.fresh : Rowless(call.ids[k])
<1>1. /\ up /\ saving = "no" /\ call.ids \in Batches
      /\ call.mapped = Len(call.ids) /\ FreshIds
  BY DEF RowInv, CallInv
<1>2. call.ids \in Seq(Ids)
  BY <1>1, BatchesAssumption
<1>3. \A k \in DOMAIN call.ids : k <= call.mapped /\ ~(k > call.mapped)
  BY <1>1, <1>2
<1>4. QED
  BY <1>1, <1>3 DEF FreshIds

(* Steps that write rows and leave the id map, the save and the disk alone.       *)
LEMMA RowsWritten ==
  ASSUME RowInv, MapInv', CallInv', up, saving = "no",
         UNCHANGED <<up, int2id, id2int, saving, disk, torn>>,
         sealed' \/ rows' = {},
         ~torn => Unique(rows') /\ NamedBy(rows', int2id)
  PROVE  RowInv'
BY DEF RowInv, MemoryRows, DiskRows

LEMMA BuildKeepsRowInv ==
  ASSUME RowInv, Build
  PROVE  RowInv'
<1> DEFINE P == DOMAIN call.ids
           row == [k \in P |-> [iid |-> id2int[call.ids[k]],
                    vec |-> call.vec,
                    tok |-> IF Lexical /\ call.texts THEN TextAt(P, k) ELSE None,
                    nth |-> Cardinality(Earlier(P, k))]]
<1>1. MapInv' /\ CallInv'
  BY CallStepsKeepMapInv, IdleCallInv DEF RowInv, Build, CallInv, NoCall
<1>2. rows = {}
  BY DEF Build, RowInv, CallInv, MemoryRows
<1>3. Appended(P) = {row[k] : k \in P}
  BY DEF Appended
<1>4. Writes(row, P)
  BY DEF Writes
<1> HIDE DEF row
<1>5. Unique(Appended(P)) /\ NamedBy(Appended(P), int2id)
  <2>1. Unique({}) /\ NamedBy({}, int2id) /\ {} \cup {row[k] : k \in P} = {row[k] : k \in P}
    BY DEF Unique, NamedBy
  <2>2. \A k \in P : Known(call.ids[k]) /\ \A r \in {} : r.iid # id2int[call.ids[k]]
    BY AllKnown DEF Build
  <2>3. call.ids \in Batches
    BY AllKnown DEF Build
  <2>4. /\ Unique({} \cup {row[k] : k \in P})
        /\ NamedBy({} \cup {row[k] : k \in P}, int2id)
    BY <1>4, <2>1, <2>2, <2>3, WrittenRows DEF RowInv
  <2>5. QED
    BY <1>3, <2>1, <2>4
<1>6. rows' = Appended(P)
  BY <1>2 DEF Build
<1>7. up /\ saving = "no" /\ sealed' /\ UNCHANGED <<up, int2id, id2int, saving, disk, torn>>
  BY AllKnown DEF Build, history
<1>8. QED
  BY <1>1, <1>5, <1>6, <1>7, RowsWritten

LEMMA InsertKeepsRowInv ==
  ASSUME RowInv, Insert
  PROVE  RowInv'
<1> DEFINE P == call.fresh
           row == [k \in P |-> [iid |-> id2int[call.ids[k]],
                    vec |-> call.vec,
                    tok |-> IF Lexical /\ call.texts THEN TextAt(P, k) ELSE None,
                    nth |-> Cardinality(Earlier(P, k))]]
<1>0. MapInv
  BY DEF RowInv
<1>1. MapInv'
  BY CallStepsKeepMapInv DEF RowInv
<1>2. /\ UNCHANGED <<up, int2id, id2int, sealed, saving, disk, torn>>
      /\ call' = NoCall \/ call' = [call EXCEPT !.step = "update"]
      /\ rows' = rows \cup Appended(P) /\ call.step = "insert"
  BY DEF Insert, history
<1>3. CallInv'
  <2>1. CASE call' = NoCall
    BY <2>1 DEF NoCall, CallInv
  <2>2. CASE call' = [call EXCEPT !.step = "update"]
    <3>1. /\ call'.ids = call.ids /\ call'.fresh = call.fresh
          /\ call'.mapped = call.mapped /\ call'.step = "update"
      BY <2>2 DEF RowInv, MapInv, CallShape
    <3>2. \A f : Known(f)' <=> Known(f)
      BY <1>2 DEF Known
    <3>3. FreshIds'
      BY <1>2, <3>1, <3>2 DEF RowInv, CallInv, FreshIds
    <3>4. QED
      BY <1>2, <3>1, <3>3 DEF RowInv, CallInv
  <2>3. QED
    BY <1>2, <2>1, <2>2
<1>4. Appended(P) = {row[k] : k \in P}
  BY DEF Appended
<1>5. Writes(row, P)
  BY DEF Writes
<1> HIDE DEF row
<1>6. ASSUME ~torn PROVE Unique(rows') /\ NamedBy(rows', int2id)
  <2>1. up /\ call.ids \in Batches /\ P \in SUBSET DOMAIN call.ids
    BY <1>2, AllKnown
  <2>2. \A k \in P : Known(call.ids[k]) /\ \A r \in rows : r.iid # id2int[call.ids[k]]
    BY <1>2, <1>6, AllKnown DEF Rowless
  <2>3. Unique(rows) /\ NamedBy(rows, int2id)
    BY <1>6, <2>1 DEF RowInv, MemoryRows
  <2> HIDE DEF P
  <2>4. /\ Unique(rows \cup {row[k] : k \in P})
        /\ NamedBy(rows \cup {row[k] : k \in P}, int2id)
    BY ONLY <1>0, <1>5, <2>1, <2>2, <2>3, WrittenRows
  <2>5. QED
    BY <1>2, <1>4, <2>4 DEF P
<1>7. up /\ saving = "no" /\ sealed'
  BY <1>2, AllKnown DEF RowInv, CallInv
<1>8. QED
  BY <1>1, <1>2, <1>3, <1>6, <1>7, RowsWritten

LEMMA UpdateKeepsRowInv ==
  ASSUME RowInv, Update
  PROVE  RowInv'
<1> DEFINE P    == DOMAIN call.ids \ call.fresh
           last == {k \in P : \A j \in P : call.ids[j] = call.ids[k] => j <= k}
           iids == {id2int[call.ids[k]] : k \in P}
           old  == {r \in rows : r.iid \notin iids}
           row  == [k \in last |-> [iid |-> id2int[call.ids[k]], vec |-> call.vec,
                                    tok |-> UpdatedTok(P, k), nth |-> 0]]
<1>0. MapInv
  BY DEF RowInv
<1>1. MapInv' /\ CallInv'
  BY CallStepsKeepMapInv, IdleCallInv DEF RowInv, Update, CallInv, NoCall
<1>2. /\ UNCHANGED <<up, int2id, id2int, sealed, saving, disk, torn>>
      /\ rows' = old \cup {row[k] : k \in last} /\ call.step = "update"
  BY DEF Update, history
<1>3. Writes(row, last)
  BY DEF Writes
<1> HIDE DEF row
<1>4. ASSUME ~torn PROVE Unique(rows') /\ NamedBy(rows', int2id)
  <2>1. up /\ call.ids \in Batches /\ last \in SUBSET DOMAIN call.ids
    BY <1>2, AllKnown
  <2>2. \A k \in last : Known(call.ids[k]) /\ \A r \in old : r.iid # id2int[call.ids[k]]
    BY <1>2, AllKnown
  <2>3. Unique(old) /\ NamedBy(old, int2id)
    BY <1>4, <2>1 DEF RowInv, MemoryRows, Unique, NamedBy
  <2> HIDE DEF old, last, P, iids
  <2>4. /\ Unique(old \cup {row[k] : k \in last})
        /\ NamedBy(old \cup {row[k] : k \in last}, int2id)
    BY ONLY <1>0, <1>3, <2>1, <2>2, <2>3, WrittenRows, ZenonT(40)
  <2>5. QED
    BY <1>2, <2>4
<1>5. up /\ saving = "no" /\ sealed'
  BY <1>2, AllKnown DEF RowInv, CallInv
<1>6. QED
  BY <1>1, <1>2, <1>4, <1>5, RowsWritten

LEMMA RaiseKeepsRowInv ==
  ASSUME RowInv, RuntimeRaises
  PROVE  RowInv'
<1>1. MapInv' /\ CallInv'
  BY CallStepsKeepMapInv, IdleCallInv DEF RowInv, RuntimeRaises, CallInv, NoCall
<1>2. UNCHANGED <<up, int2id, id2int, sealed, rows, saving, disk, torn>>
  BY DEF RuntimeRaises, memory, history
<1>3. QED
  BY <1>1, <1>2 DEF RowInv, MemoryRows, DiskRows

LEMMA DeleteKeepsRowInv ==
  ASSUME RowInv, NEW b \in Batches, Delete(b)
  PROVE  RowInv'
<1>1. MapInv'
  BY CallStepsKeepMapInv DEF RowInv
<1>2. /\ UNCHANGED <<up, int2id, id2int, sealed, call, saving, disk, torn>>
      /\ up /\ saving = "no" /\ call.step = "idle" /\ rows' \subseteq rows
  BY DEF Delete, Idle, history
<1>3. CallInv'
  BY <1>2 DEF CallInv
<1>4. sealed' \/ rows' = {}
  BY <1>2 DEF RowInv, MemoryRows
<1>5. ~torn => Unique(rows') /\ NamedBy(rows', int2id)
  BY <1>2 DEF RowInv, MemoryRows, Unique, NamedBy
<1>6. QED
  BY <1>1, <1>2, <1>3, <1>4, <1>5, RowsWritten

-----------------------------------------------------------------------------
(* Between the steps of a save the memory does not change, so each step copies     *)
(* what the next relies on.                                                     *)
LEMMA SaveKeepsRowInv ==
  ASSUME RowInv, SaveIndex \/ SaveMap \/ SaveMeta
  PROVE  RowInv'
<1>1. MapInv'
  BY SaveKeepsMapInv DEF RowInv
<1>2. UNCHANGED <<up, int2id, id2int, sealed, rows, call, torn>>
  BY DEF SaveIndex, SaveMap, SaveMeta, memory, history
<1>3. MemoryRows'
  BY <1>2 DEF RowInv, MemoryRows
<1>4. call.step = "idle"
  BY DEF SaveIndex, SaveMap, SaveMeta, Idle, RowInv, CallInv
<1>5. CallInv'
  BY <1>2, <1>4 DEF CallInv
<1>6. DiskRows'
  <2>1. CASE SaveIndex
    <3>1. /\ disk'.rows = rows /\ disk'.sealed = sealed /\ saving' = "index"
      BY <2>1 DEF SaveIndex, RowInv, MapInv, MapTypes
    <3>2. QED
      BY <1>2, <3>1 DEF RowInv, MemoryRows, DiskRows
  <2>2. CASE SaveMap
    <3>1. /\ disk'.rows = disk.rows /\ disk'.sealed = disk.sealed /\ disk'.map = int2id
          /\ saving = "index" /\ saving' = "map" /\ up
      BY <2>2 DEF SaveMap, RowInv, MapInv, MapTypes, SavedMap
    <3>2. QED
      BY <1>2, <3>1 DEF RowInv, MemoryRows, DiskRows
  <2>3. CASE SaveMeta
    <3>1. /\ disk'.rows = disk.rows /\ disk'.sealed = disk.sealed /\ disk'.map = disk.map
          /\ saving = "map" /\ saving' = "no" /\ up /\ disk.map = int2id
      BY <2>3 DEF SaveMeta, RowInv, MapInv, MapTypes, SavedMap
    <3>2. QED
      BY <1>2, <3>1 DEF RowInv, MemoryRows, DiskRows
  <2>4. QED
    BY <2>1, <2>2, <2>3
<1>7. QED
  BY <1>1, <1>3, <1>5, <1>6 DEF RowInv

(* A crash before the id map of a save is written is torn exactly when the old     *)
(* map differs from the one the saved rows were numbered with.                    *)
LEMMA LifecycleKeepsRowInv ==
  ASSUME RowInv, Create \/ Open \/ Crash
  PROVE  RowInv'
<1>1. MapInv'
  BY LifecycleKeepsMapInv DEF RowInv
<1>2. Unique({}) /\ \A m : NamedBy({}, m)
  BY DEF Unique, NamedBy
<1>3. CASE Create
  <2>1. call.step = "idle" /\ saving = "no"
    BY <1>3 DEF Create, RowInv, CallInv, MapInv, SavedMap
  <2>2. /\ UNCHANGED <<call, saving, disk, torn>> /\ rows' = {}
    BY <1>3 DEF Create
  <2>3. CallInv' /\ MemoryRows' /\ DiskRows'
    BY <1>2, <2>1, <2>2 DEF RowInv, CallInv, MemoryRows, DiskRows
  <2>4. QED
    BY <1>1, <2>3 DEF RowInv
<1>4. CASE Open
  <2>1. call.step = "idle" /\ saving = "no" /\ disk.meta
    BY <1>4 DEF Open, RowInv, CallInv, MapInv, SavedMap
  <2>2. /\ UNCHANGED <<call, saving, disk, torn>>
        /\ rows' = disk.rows /\ sealed' = disk.sealed /\ int2id' = disk.map
    BY <1>4 DEF Open
  <2>3. CallInv' /\ MemoryRows' /\ DiskRows'
    BY <2>1, <2>2 DEF RowInv, CallInv, MemoryRows, DiskRows
  <2>4. QED
    BY <1>1, <2>3 DEF RowInv
<1>5. CASE Crash
  <2>1. /\ UNCHANGED disk /\ rows' = {} /\ ~up' /\ saving' = "no" /\ call'.step = "idle"
        /\ torn' = (torn \/ (disk.meta /\ saving = "index" /\ disk.map # int2id)) /\ up
    BY <1>5 DEF Crash, NoCall
  <2>2. CallInv' /\ MemoryRows'
    BY <1>2, <2>1 DEF CallInv, MemoryRows
  <2>3. DiskRows'
    BY <2>1 DEF RowInv, MemoryRows, DiskRows
  <2>4. QED
    BY <1>1, <2>2, <2>3 DEF RowInv
<1>6. QED
  BY <1>3, <1>4, <1>5

LEMMA NextRowInv ==
  ASSUME RowInv, [Next]_vars
  PROVE  RowInv'
<1>1. CASE UNCHANGED vars
  <2>1. MapInv' /\ MemoryRows' /\ DiskRows'
    BY <1>1, NextMapInv DEF vars, RowInv, MemoryRows, DiskRows
  <2>2. FreshIds => FreshIds'
    BY <1>1 DEF vars, FreshIds, Known, Rowless
  <2>3. CallInv'
    BY <1>1, <2>2 DEF vars, RowInv, CallInv
  <2>4. QED
    BY <2>1, <2>3 DEF RowInv
<1>2. CASE Create \/ Open \/ Crash
  BY <1>2, LifecycleKeepsRowInv
<1>3. CASE \E b \in Batches, v \in Versions, texts \in BOOLEAN :
             Add(b, v, texts) \/ Upsert(b, v, texts) \/ UpdateTexts(b, v)
  BY <1>3, BeginIngestKeepsRowInv DEF Add, Upsert, UpdateTexts
<1>4. CASE MapNext
  BY <1>4, MapNextKeepsRowInv
<1>5. CASE Mapped
  BY <1>5, MappedKeepsRowInv
<1>6. CASE Build \/ Insert \/ Update \/ RuntimeRaises
  BY <1>6, BuildKeepsRowInv, InsertKeepsRowInv, UpdateKeepsRowInv, RaiseKeepsRowInv
<1>7. CASE \E b \in Batches : Delete(b)
  BY <1>7, DeleteKeepsRowInv
<1>8. CASE SaveIndex \/ SaveMap \/ SaveMeta
  BY <1>8, SaveKeepsRowInv
<1>9. QED
  BY <1>1, <1>2, <1>3, <1>4, <1>5, <1>6, <1>7, <1>8 DEF Next

(* Until a save is torn every live row has an external id, so that no search       *)
(* raises IndexError, whatever ids the batches repeat.                            *)
THEOREM RowsStayNamed == Spec => []RowsNamed
<1>1. RowInv => RowsNamed
  <2> SUFFICES ASSUME RowInv, up, ~torn, NEW r \in rows PROVE r.iid < Len(int2id)
    BY DEF RowsNamed, Named
  <2>1. r.iid \in 0..(Len(int2id) - 1) /\ Len(int2id) \in Nat
    BY DEF RowInv, MemoryRows, NamedBy, MapInv, MapTypes
  <2>2. QED
    BY <2>1
<1>2. RowInv /\ [Next]_vars => RowInv'
  BY NextRowInv
<1>3. QED
  BY <1>1, <1>2, InitRowInv, PTL DEF Spec

(* Until a save is torn no id has two live rows.                                  *)
THEOREM OneLiveRowPerId ==
  ASSUME NoRepeats
  PROVE  Spec => []OneRowPerId
<1>1. RowInv => OneRowPerId
  BY DEF RowInv, MemoryRows, Unique, OneRowPerId
<1>2. RowInv /\ [Next]_vars => RowInv'
  BY NextRowInv
<1>3. QED
  BY <1>1, <1>2, InitRowInv, PTL DEF Spec

-----------------------------------------------------------------------------
(* update_texts, after torn saves too: the ids it found live stay live until its batch is  *)
(* in the index, whatever the runtime refuses.                                     *)
StrictInv ==
  /\ call.step = "idle" => ~call.strict
  /\ \A r \in rows \cup disk.rows : r.iid \in Nat
  /\ UpdateInsertsNothing

LiveIn(rs, map, e) == \E r \in rs : r.iid < Len(map) /\ map[r.iid + 1] = e

LEMMA LiveIs ==
  ASSUME NEW rs, NEW map, NEW e \in Ids
  PROVE  ContentsOf(rs, map)[e] # {} <=> LiveIn(rs, map, e)
BY DEF ContentsOf, LiveIn, Named

LEMMA InitStrict == Init => StrictInv
BY DEF Init, StrictInv, NoCall, EmptyDisk, UpdateInsertsNothing

LEMMA EndedStrict ==
  ASSUME call' = NoCall, \A r \in rows' \cup disk'.rows : r.iid \in Nat
  PROVE  StrictInv'
BY DEF StrictInv, NoCall, UpdateInsertsNothing

LEMMA BeginStrict ==
  ASSUME StrictInv, NEW b \in Batches, NEW v, NEW upsert \in BOOLEAN, NEW texts,
         NEW strict \in BOOLEAN, BeginIngest(b, v, upsert, texts, strict),
         strict => \A k \in DOMAIN b : \E e \in Ids : Live(e) /\ StrOf[b[k]] = StrOf[e]
  PROVE  StrictInv'
<1>1. /\ UNCHANGED <<int2id, rows, disk>>
      /\ call'.step = "map" /\ call'.ids = b /\ call'.strict = strict
  BY DEF BeginIngest, memory
<1>2. ASSUME strict, NEW e \in Range(b) PROVE Live(e) \/ \E f \in Ids \ {e} : StrOf[f] = StrOf[e]
  <2>1. PICK k \in DOMAIN b : b[k] = e
    BY DEF Range
  <2>2. PICK f \in Ids : Live(f) /\ StrOf[b[k]] = StrOf[f]
    BY <1>2, <2>1
  <2> QED BY <2>1, <2>2
<1>3. \A e : Live(e)' <=> Live(e)
  BY <1>1 DEF Live, Contents
<1> QED BY <1>1, <1>2, <1>3 DEF StrictInv, UpdateInsertsNothing

(* A call goes on with the same ids over no fewer rows and names.                         *)
LEMMA GoesOnStrict ==
  ASSUME RowInv, StrictInv, call.step # "idle", call'.step # "idle",
         call'.ids = call.ids, call'.strict = call.strict, UNCHANGED disk, rows \subseteq rows',
         \A r \in rows' : r.iid \in Nat,
         int2id' = int2id \/ \E x \in Ids : int2id' = Append(int2id, x)
  PROVE  StrictInv'
<1>1. int2id \in Seq(Ids) /\ call.ids \in Seq(Ids)
  BY BatchesAssumption DEF RowInv, MapInv, MapTypes, CallInv
<1>2. ASSUME NEW e \in Ids, Live(e) PROVE Live(e)'
  <2>1. LiveIn(rows, int2id, e)
    BY <1>2, LiveIs DEF Live, Contents
  <2>2. PICK r \in rows : r.iid < Len(int2id) /\ int2id[r.iid + 1] = e
    BY <2>1 DEF LiveIn
  <2>3. r.iid \in Nat /\ r \in rows' /\ Len(int2id) \in Nat
    BY <1>1, <2>2
  <2>4. r.iid + 1 \in 1..Len(int2id)
    BY <2>2, <2>3
  <2>5. \A x \in Ids : /\ Len(Append(int2id, x)) = Len(int2id) + 1
                       /\ Append(int2id, x)[r.iid + 1] = int2id[r.iid + 1]
    BY <1>1, <2>4
  <2>6. r.iid < Len(int2id') /\ int2id'[r.iid + 1] = e
    BY <2>2, <2>3, <2>5
  <2>7. LiveIn(rows', int2id', e)
    BY <2>3, <2>6 DEF LiveIn
  <2> QED BY <2>7, LiveIs DEF Live, Contents
<1>3. Range(call.ids) \subseteq Ids
  BY <1>1 DEF Range
<1>4. UpdateInsertsNothing'
  BY <1>2, <1>3 DEF StrictInv, UpdateInsertsNothing
<1> QED BY <1>4 DEF StrictInv

LEMMA MapNextStrict == ASSUME RowInv, StrictInv, MapNext PROVE StrictInv'
<1> DEFINE e == call.ids[call.mapped + 1]
<1>1. /\ UNCHANGED <<rows, disk>> /\ call.step = "map" /\ call.mapped < Len(call.ids)
      /\ call' = [call EXCEPT !.mapped = @ + 1]
      /\ int2id' = int2id \/ int2id' = Append(int2id, e)
  BY DEF MapNext
<1>2. call'.step = "map" /\ call'.ids = call.ids /\ call'.strict = call.strict
  BY <1>1 DEF RowInv, MapInv, CallShape
<1>3. call.ids \in Seq(Ids) /\ call.mapped \in 0..Len(call.ids)
  BY <1>1, BatchesAssumption DEF RowInv, CallInv
<1>4. e \in Ids
  BY <1>1, <1>3
<1> HIDE DEF e
<1>5. rows \subseteq rows' /\ \A r \in rows' : r.iid \in Nat
  BY <1>1 DEF StrictInv
<1> QED BY <1>1, <1>2, <1>4, <1>5, GoesOnStrict

LEMMA MappedStrict == ASSUME RowInv, StrictInv, Mapped PROVE StrictInv'
<1>1. /\ UNCHANGED <<int2id, rows, disk>> /\ call.step = "map"
      /\ call' = [call EXCEPT !.step = call'.step] /\ call'.step \in {"build", "insert", "update"}
  BY DEF Mapped, memory, RowInv, MapInv, CallShape
<1>2. call'.ids = call.ids /\ call'.strict = call.strict
  BY <1>1 DEF RowInv, MapInv, CallShape
<1>3. rows \subseteq rows' /\ \A r \in rows' : r.iid \in Nat
  BY <1>1 DEF StrictInv
<1> QED BY <1>1, <1>2, <1>3, GoesOnStrict

LEMMA WritesStrict == ASSUME RowInv, StrictInv, Build \/ Insert \/ Update PROVE StrictInv'
<1>1. \A k \in DOMAIN call.ids : id2int[call.ids[k]] \in Nat
  BY AllKnown, KnownIds DEF Build, Insert, Update, Known, RowInv
<1>2. disk' = disk /\ call.fresh \subseteq DOMAIN call.ids
  BY AllKnown DEF Build, Insert, Update
<1>3. CASE Build
  <2>1. \A r \in rows' : r.iid \in Nat
    BY <1>1, <1>3 DEF Build, Appended, StrictInv
  <2> QED BY <1>2, <1>3, <2>1, EndedStrict DEF Build, StrictInv
<1>4. CASE Update
  <2>1. \A r \in rows' : r.iid \in Nat
    BY <1>1, <1>4 DEF Update, StrictInv
  <2> QED BY <1>2, <1>4, <2>1, EndedStrict DEF Update, StrictInv
<1>5. CASE Insert
  <2>1. \A r \in rows' : r.iid \in Nat
    BY <1>1, <1>2, <1>5 DEF Insert, Appended, StrictInv
  <2>2. CASE call' = NoCall
    BY <1>2, <2>1, <2>2, EndedStrict DEF StrictInv
  <2>3. CASE call' = [call EXCEPT !.step = "update"]
    <3>1. /\ call'.ids = call.ids /\ call'.strict = call.strict /\ call'.step = "update"
          /\ call.step = "insert" /\ UNCHANGED int2id /\ rows \subseteq rows'
      BY <1>5, <2>3 DEF RowInv, MapInv, CallShape, Insert
    <3> QED BY <1>2, <2>1, <3>1, GoesOnStrict
  <2> QED BY <1>5, <2>2, <2>3 DEF Insert
<1> QED BY <1>3, <1>4, <1>5

(* Steps while no call is under way.                                                *)
LEMMA IdleStrict ==
  ASSUME StrictInv, call.step = "idle", UNCHANGED call,
         \A r \in rows' \cup disk'.rows : r.iid \in Nat
  PROVE  StrictInv'
BY DEF StrictInv, UpdateInsertsNothing

LEMMA NextStrict == RowInv /\ StrictInv /\ [Next]_vars => StrictInv'
<1> SUFFICES ASSUME RowInv, StrictInv, [Next]_vars PROVE StrictInv'
  OBVIOUS
<1>1. CASE UNCHANGED vars
  BY <1>1 DEF vars, StrictInv, UpdateInsertsNothing, Live, Contents
<1>2. CASE Create \/ Open
  <2>1. call.step = "idle" /\ UNCHANGED call /\ \A r \in rows' \cup disk'.rows : r.iid \in Nat
    BY <1>2 DEF Create, Open, StrictInv, RowInv, CallInv
  <2> QED BY <2>1, IdleStrict
<1>3. CASE Crash \/ RuntimeRaises
  <2>1. call' = NoCall /\ \A r \in rows' \cup disk'.rows : r.iid \in Nat
    BY <1>3 DEF Crash, RuntimeRaises, memory, StrictInv
  <2> QED BY <2>1, EndedStrict
<1>4. ASSUME NEW b \in Batches, NEW v \in Versions, NEW texts \in BOOLEAN, Add(b, v, texts)
      PROVE  StrictInv'
  BY <1>4, BeginStrict DEF Add
<1>5. ASSUME NEW b \in Batches, NEW v \in Versions, NEW texts \in BOOLEAN, Upsert(b, v, texts)
      PROVE  StrictInv'
  BY <1>5, BeginStrict DEF Upsert
<1>6. ASSUME NEW b \in Batches, NEW v \in Versions, UpdateTexts(b, v) PROVE StrictInv'
  BY <1>6, BeginStrict DEF UpdateTexts
<1>7. CASE MapNext
  BY <1>7, MapNextStrict
<1>8. CASE Mapped
  BY <1>8, MappedStrict
<1>9. CASE Build \/ Insert \/ Update
  BY <1>9, WritesStrict
<1>10. ASSUME NEW b \in Batches, Delete(b) PROVE StrictInv'
  <2>1. call.step = "idle" /\ UNCHANGED <<call, disk>> /\ rows' \subseteq rows
    BY <1>10 DEF Delete, Idle
  <2>2. \A r \in rows' \cup disk'.rows : r.iid \in Nat
    BY <2>1 DEF StrictInv
  <2> QED BY <2>1, <2>2, IdleStrict
<1>11. CASE SaveIndex \/ SaveMap \/ SaveMeta
  <2>1. UNCHANGED <<call, rows>> /\ (disk'.rows = rows \/ disk'.rows = disk.rows)
    BY <1>11 DEF SaveIndex, SaveMap, SaveMeta, memory, RowInv, MapInv, MapTypes
  <2>2. call.step = "idle"
    BY <1>11 DEF SaveIndex, SaveMap, SaveMeta, Idle, RowInv, CallInv
  <2>3. \A r \in rows' \cup disk'.rows : r.iid \in Nat
    BY <2>1 DEF StrictInv
  <2> QED BY <2>1, <2>2, <2>3, IdleStrict
<1> QED BY <1>1, <1>2, <1>3, <1>4, <1>5, <1>6, <1>7, <1>8, <1>9, <1>10, <1>11 DEF Next

(* update_texts inserts no row under an id that was not live, for any ids, batches that may *)
(* repeat them, failures of the runtime and crashes (update_texts, _ingest, _to_int).    *)
THEOREM UpdatesInsertNothing == Spec => []UpdateInsertsNothing
<1>1. StrictInv => UpdateInsertsNothing
  BY DEF StrictInv
<1> QED BY <1>1, InitRowInv, NextRowInv, InitStrict, NextStrict, PTL DEF Spec

-----------------------------------------------------------------------------
(* The refinement.  Under the inverse map the contents are the vectors by integer.         *)
VecsOf(rs, f, e) == {r.vec : r \in {q \in rs : e \in DOMAIN f /\ q.iid = f[e]}}

LEMMA ContentsByInteger ==
  ASSUME NEW m \in Seq(Ids), NEW f, InverseOf(m, f), NEW rs, NamedBy(rs, m)
  PROVE  ContentsOf(rs, m) = [e \in Ids |-> VecsOf(rs, f, e)]
<1>1. ASSUME NEW e \in Ids, NEW r \in rs
      PROVE  (Named(r, m) /\ m[r.iid + 1] = e) <=> (e \in DOMAIN f /\ r.iid = f[e])
  <2>1. r.iid \in 0..(Len(m) - 1) /\ Len(m) \in Nat
    BY DEF NamedBy
  <2>2. r.iid + 1 \in DOMAIN m /\ r.iid < Len(m) /\ (r.iid + 1) - 1 = r.iid
    BY <2>1
  <2>3. m[r.iid + 1] \in DOMAIN f /\ f[m[r.iid + 1]] = r.iid
    BY <2>2 DEF InverseOf, Range
  <2>4. ASSUME e \in DOMAIN f, r.iid = f[e] PROVE m[r.iid + 1] = e
    <3>1. PICK i \in DOMAIN m : m[i] = e
      BY <2>4 DEF InverseOf, Range
    <3>2. f[e] = i - 1 /\ i \in Nat
      BY <3>1 DEF InverseOf
    <3> QED BY <2>4, <3>1, <3>2
  <2> QED BY <2>2, <2>3, <2>4 DEF Named
<1>2. \A e \in Ids : {q \in rs : Named(q, m) /\ m[q.iid + 1] = e}
                       = {q \in rs : e \in DOMAIN f /\ q.iid = f[e]}
  BY <1>1
<1> QED BY <1>2 DEF ContentsOf, VecsOf

(* The rows of the ids T are replaced by the rows W, which show the vectors X under each. *)
Replaced(m, f, rs, T, W, X, ss) ==
  /\ m \in Seq(Ids) /\ InverseOf(m, f) /\ NamedBy(rs, m) /\ NamedBy(W, m)
  /\ T \subseteq DOMAIN f /\ \A w \in W : \E e \in T : w.iid = f[e]
  /\ \A e \in T : VecsOf(W, f, e) = X
  /\ \A r : r \in ss <=> (r \in rs /\ \A e \in T : r.iid # f[e]) \/ r \in W

LEMMA RowsReplaced ==
  ASSUME NEW m, NEW f, NEW rs, NEW T, NEW W, NEW X, NEW ss, Replaced(m, f, rs, T, W, X, ss)
  PROVE  ContentsOf(ss, m) = [e \in Ids |-> IF e \in T THEN X ELSE ContentsOf(rs, m)[e]]
<1> USE DEF Replaced
<1>1. NamedBy(ss, m)
  BY DEF NamedBy
<1>2. \A d, e \in DOMAIN f : f[d] = f[e] => d = e
  <2> SUFFICES ASSUME NEW d \in DOMAIN f, NEW e \in DOMAIN f, f[d] = f[e] PROVE d = e
    OBVIOUS
  <2>1. PICK i \in DOMAIN m : m[i] = d
    BY DEF InverseOf, Range
  <2>2. PICK j \in DOMAIN m : m[j] = e
    BY DEF InverseOf, Range
  <2>3. i - 1 = j - 1 /\ i \in Nat /\ j \in Nat
    BY <2>1, <2>2 DEF InverseOf
  <2> QED BY <2>1, <2>2, <2>3
<1>3. ASSUME NEW e \in T PROVE VecsOf(ss, f, e) = X
  <2>1. {q \in ss : e \in DOMAIN f /\ q.iid = f[e]} = {q \in W : e \in DOMAIN f /\ q.iid = f[e]}
    OBVIOUS
  <2> QED BY <2>1 DEF VecsOf
<1>4. ASSUME NEW e, e \notin T PROVE VecsOf(ss, f, e) = VecsOf(rs, f, e)
  <2>1. {q \in ss : e \in DOMAIN f /\ q.iid = f[e]} = {q \in rs : e \in DOMAIN f /\ q.iid = f[e]}
    BY <1>2, <1>4
  <2> QED BY <2>1 DEF VecsOf
<1>5. ContentsOf(ss, m) = [e \in Ids |-> VecsOf(ss, f, e)]
  BY <1>1, ContentsByInteger
<1>6. ContentsOf(rs, m) = [e \in Ids |-> VecsOf(rs, f, e)]
  BY ContentsByInteger
<1> QED BY <1>3, <1>4, <1>5, <1>6

LEMMA Least ==
  ASSUME NEW T \in SUBSET Nat, T # {}
  PROVE  \E x \in T : \A y \in T : x <= y
<1> DEFINE R == OpToRel(<, Nat)
<1>1. IsWellFoundedOn(R, Nat)
  BY NatLessThanWellFounded, Zenon
<1>2. R = {ss \in Nat \X Nat : ss[1] < ss[2]}
  BY DEF OpToRel
<1> HIDE DEF R
<1>3. PICK x \in T : \A y \in T : ~(<<y, x>> \in R)
  BY <1>1, WFMin
<1>4. ASSUME NEW y \in T PROVE x <= y
  <2>1. <<y, x>> \in Nat \X Nat /\ <<y, x>>[1] = y /\ <<y, x>>[2] = x /\ ~(<<y, x>> \in R)
    BY <1>3
  <2>2. ~(<<y, x>>[1] < <<y, x>>[2])
    BY <1>2, <2>1, Zenon
  <2>3. ~(y < x) /\ x \in Nat /\ y \in Nat
    BY <2>1, <2>2
  <2> QED BY <2>3
<1> QED BY <1>4

LEMMA Greatest ==
  ASSUME NEW n \in Nat, NEW T \in SUBSET (1..n), T # {}
  PROVE  \E x \in T : \A y \in T : y <= x
<1> DEFINE U == {n - x : x \in T}
<1>1. U \in SUBSET Nat /\ U # {}
  <2>1. \A x \in T : n - x \in Nat
    OBVIOUS
  <2> QED BY <2>1
<1>2. PICK u \in U : \A w \in U : u <= w
  <2> HIDE DEF U
  <2> QED BY <1>1, Least
<1>3. PICK x \in T : u = n - x
  OBVIOUS
<1>4. \A y \in T : n - x <= n - y
  BY <1>2, <1>3
<1> QED BY <1>4

(* The last position of an id among the positions P of a batch.                          *)
LEMMA LastPosition ==
  ASSUME NEW s \in Seq(Ids), NEW P \in SUBSET DOMAIN s, NEW k \in P
  PROVE  \E i \in P : s[i] = s[k] /\ \A j \in P : s[j] = s[i] => j <= i
<1> DEFINE T == {j \in P : s[j] = s[k]}
<1>1. T \in SUBSET (1..Len(s)) /\ T # {} /\ Len(s) \in Nat
  OBVIOUS
<1>2. PICK i \in T : \A j \in T : j <= i
  BY <1>1, Greatest
<1> QED BY <1>2

(* What a call or a save still owes, and that a reopen finds a candidate of the saves.      *)
StoreInv ==
  /\ call.step = "idle" => call.ids = <<>>
  /\ ~torn /\ call.step = "update" => \A k \in call.fresh : Contents[call.ids[k]] = {call.vec}
  /\ saving # "no" => Contents \in candidates
  /\ ~torn /\ disk.meta /\ (saving = "index" => disk.map = int2id) => DiskContents \in candidates

SInv == RowInv /\ StoreInv

At(P) == {call.ids[k] : k \in P}

Written(S, X) == Contents' = [e \in Ids |-> IF e \in S THEN X ELSE Contents[e]]

LEMMA CalledIds ==
  ASSUME RowInv, call.step \in {"build", "insert", "update"}
  PROVE  /\ call.ids \in Seq(Ids) /\ call.ids # <<>> /\ At(DOMAIN call.ids) = Range(call.ids)
         /\ Range(call.ids) # {} /\ Range(call.ids) \subseteq DOMAIN id2int
         /\ \A P \in SUBSET DOMAIN call.ids : At(P) \subseteq Range(call.ids)
<1>1. call.ids \in Seq(Ids) /\ call.ids # <<>>
  BY BatchesAssumption, AllKnown
<1>2. 1 \in DOMAIN call.ids
  BY <1>1
<1>3. \A k \in DOMAIN call.ids : call.ids[k] \in DOMAIN id2int
  BY AllKnown DEF Known
<1>4. At(DOMAIN call.ids) = Range(call.ids) /\ Range(call.ids) # {}
  BY <1>2 DEF Range, At
<1>5. Range(call.ids) \subseteq DOMAIN id2int
  BY <1>3 DEF Range
<1>6. \A P \in SUBSET DOMAIN call.ids : At(P) \subseteq Range(call.ids)
  BY DEF Range, At
<1> QED BY <1>1, <1>4, <1>5, <1>6

(* The rows a step writes for the positions P show the vector of the call, and nothing else. *)
LEMMA WrittenContents ==
  ASSUME RowInv, ~torn, call.step \in {"build", "insert", "update"},
         NEW P \in SUBSET DOMAIN call.ids, NEW W, UNCHANGED int2id,
         \A w \in W : w.vec = call.vec /\ \E k \in P : w.iid = id2int[call.ids[k]],
         \A k \in P : \E w \in W : w.iid = id2int[call.ids[k]],
         rows' = {r \in rows : \A k \in P : r.iid # id2int[call.ids[k]]} \cup W
  PROVE  Written(At(P), {call.vec})
<1> DEFINE T == At(P)
<1>1. T \in SUBSET DOMAIN id2int
  BY CalledIds
<1>2. int2id \in Seq(Ids) /\ InverseOf(int2id, id2int) /\ NamedBy(rows, int2id)
  BY AllKnown DEF RowInv, MapInv, MapTypes, InverseMaps, MemoryRows
<1>3. \A w \in W : \E e \in T : w.iid = id2int[e]
  BY DEF At
<1>4. NamedBy(W, int2id)
  BY <1>1, <1>3, KnownIds DEF NamedBy, RowInv
<1>5. \A e \in T : VecsOf(W, id2int, e) = {call.vec}
  <2> SUFFICES ASSUME NEW e \in T PROVE VecsOf(W, id2int, e) = {call.vec}
    OBVIOUS
  <2>1. PICK w \in W : w.iid = id2int[e]
    BY DEF At
  <2> QED BY <1>1, <2>1 DEF VecsOf
<1>6. \A r : r \in rows' <=> (r \in rows /\ \A e \in T : r.iid # id2int[e]) \/ r \in W
  BY DEF At
<1> HIDE DEF T
<1> DEFINE X == {call.vec}
<1>7. Replaced(int2id, id2int, rows, T, W, X, rows')
  BY ONLY <1>1, <1>2, <1>3, <1>4, <1>5, <1>6 DEF Replaced
<1> HIDE DEF X
<1>8. ContentsOf(rows', int2id) = [e \in Ids |-> IF e \in T THEN X ELSE ContentsOf(rows, int2id)[e]]
  BY <1>7, RowsReplaced
<1> QED BY <1>8 DEF Written, Contents, T, X

LEMMA AppendedRows ==
  ASSUME NEW P
  PROVE  /\ \A w \in Appended(P) : w.vec = call.vec /\ \E k \in P : w.iid = id2int[call.ids[k]]
         /\ \A k \in P : \E w \in Appended(P) : w.iid = id2int[call.ids[k]]
<1> DEFINE row(k) == [iid |-> id2int[call.ids[k]],
                      vec |-> call.vec,
                      tok |-> IF Lexical /\ call.texts THEN TextAt(P, k) ELSE None,
                      nth |-> Cardinality(Earlier(P, k))]
<1>1. Appended(P) = {row(k) : k \in P}
  BY DEF Appended
<1>2. \A k \in P : row(k).vec = call.vec /\ row(k).iid = id2int[call.ids[k]]
  OBVIOUS
<1> HIDE DEF row
<1> QED BY <1>1, <1>2

LEMMA BuildWrites == ASSUME RowInv, ~torn, Build PROVE Written(Range(call.ids), {call.vec})
<1> DEFINE P == DOMAIN call.ids
<1>1. rows = {}
  BY DEF Build, RowInv, CallInv, MemoryRows
<1>2. rows' = {r \in rows : \A k \in P : r.iid # id2int[call.ids[k]]} \cup Appended(P)
  BY <1>1 DEF Build
<1>3. /\ \A w \in Appended(P) : w.vec = call.vec /\ \E k \in P : w.iid = id2int[call.ids[k]]
      /\ \A k \in P : \E w \in Appended(P) : w.iid = id2int[call.ids[k]]
  BY AppendedRows
<1>4. call.step = "build" /\ UNCHANGED int2id
  BY DEF Build
<1>5. Written(At(P), {call.vec})
  BY <1>2, <1>3, <1>4, WrittenContents
<1> QED BY <1>4, <1>5, CalledIds

LEMMA InsertWrites == ASSUME RowInv, ~torn, Insert PROVE Written(At(call.fresh), {call.vec})
<1> DEFINE P == call.fresh
<1>1. call.step = "insert" /\ UNCHANGED int2id /\ rows' = rows \cup Appended(P)
  BY DEF Insert
<1>2. P \in SUBSET DOMAIN call.ids /\ \A k \in P : Rowless(call.ids[k])
  BY <1>1, AllKnown
<1>3. rows' = {r \in rows : \A k \in P : r.iid # id2int[call.ids[k]]} \cup Appended(P)
  BY <1>1, <1>2 DEF Rowless
<1>4. /\ \A w \in Appended(P) : w.vec = call.vec /\ \E k \in P : w.iid = id2int[call.ids[k]]
      /\ \A k \in P : \E w \in Appended(P) : w.iid = id2int[call.ids[k]]
  BY AppendedRows
<1> QED BY <1>1, <1>2, <1>3, <1>4, WrittenContents

LEMMA UpdateWrites ==
  ASSUME RowInv, ~torn, Update
  PROVE  Written(At(DOMAIN call.ids \ call.fresh), {call.vec})
<1> DEFINE P    == DOMAIN call.ids \ call.fresh
           last == {k \in P : \A j \in P : call.ids[j] = call.ids[k] => j <= k}
           row(k) == [iid |-> id2int[call.ids[k]], vec |-> call.vec,
                      tok |-> UpdatedTok(P, k), nth |-> 0]
           W    == {row(k) : k \in last}
<1>1. call.step = "update" /\ UNCHANGED int2id
  BY DEF Update
<1>2. rows' = {r \in rows : r.iid \notin {id2int[call.ids[k]] : k \in P}} \cup W
  BY DEF Update
<1>3. rows' = {r \in rows : \A k \in P : r.iid # id2int[call.ids[k]]} \cup W
  BY <1>2
<1>4. \A k : row(k).vec = call.vec /\ row(k).iid = id2int[call.ids[k]]
  OBVIOUS
<1> HIDE DEF row
<1>5. P \in SUBSET DOMAIN call.ids /\ call.ids \in Seq(Ids)
  BY <1>1, CalledIds
<1>6. /\ \A w \in W : w.vec = call.vec /\ \E k \in P : w.iid = id2int[call.ids[k]]
      /\ \A i \in last : \E w \in W : w.iid = id2int[call.ids[i]]
  BY <1>4
<1>7. ASSUME NEW k \in P PROVE \E i \in last : call.ids[i] = call.ids[k]
  <2>1. \E i \in P : call.ids[i] = call.ids[k] /\ \A j \in P : call.ids[j] = call.ids[i] => j <= i
    <3> HIDE DEF P
    <3> QED BY <1>5, LastPosition
  <2> QED BY <2>1
<1> HIDE DEF W, last
<1>8. \A k \in P : \E w \in W : w.iid = id2int[call.ids[k]]
  BY <1>6, <1>7
<1> QED BY <1>1, <1>3, <1>5, <1>6, <1>8, WrittenContents

(* delete leaves every other id alone.                                                *)
LEMMA DeleteWrites ==
  ASSUME RowInv, ~torn, NEW b \in Batches, Delete(b)
  PROVE  Written(Range(b) \cap DOMAIN id2int, {})
<1> DEFINE T == Range(b) \cap DOMAIN id2int
<1>1. int2id \in Seq(Ids) /\ InverseOf(int2id, id2int) /\ NamedBy(rows, int2id) /\ UNCHANGED int2id
  BY DEF Delete, Idle, RowInv, MapInv, MapTypes, InverseMaps, MemoryRows
<1>2. \A r : r \in rows' <=> (r \in rows /\ \A e \in T : r.iid # id2int[e]) \/ r \in {}
  BY DEF Delete
<1>3. /\ NamedBy({}, int2id) /\ \A w \in {} : \E e \in T : w.iid = id2int[e]
      /\ \A e \in T : VecsOf({}, id2int, e) = {}
  BY DEF NamedBy, VecsOf
<1>4. T \in SUBSET DOMAIN id2int
  OBVIOUS
<1> HIDE DEF T
<1>5. Replaced(int2id, id2int, rows, T, {}, {}, rows')
  BY ONLY <1>1, <1>2, <1>3, <1>4 DEF Replaced
<1>6. ContentsOf(rows', int2id) =
        [e \in Ids |-> IF e \in T THEN {} ELSE ContentsOf(rows, int2id)[e]]
  BY <1>5, RowsReplaced
<1> QED BY <1>1, <1>6 DEF Written, Contents, T

(* Giving an id its integer changes no contents.                                         *)
LEMMA MapNextWrites == ASSUME RowInv, ~torn, MapNext PROVE Contents' = Contents
<1> DEFINE e == call.ids[call.mapped + 1]
<1>1. /\ UNCHANGED rows /\ call.step = "map" /\ call.mapped < Len(call.ids)
      /\ int2id' = int2id \/ int2id' = Append(int2id, e)
  BY DEF MapNext
<1>2. call.ids \in Seq(Ids) /\ call.mapped \in 0..Len(call.ids) /\ up
  BY <1>1, BatchesAssumption DEF RowInv, CallInv
<1>3. e \in Ids /\ int2id \in Seq(Ids) /\ NamedBy(rows, int2id)
  BY <1>1, <1>2 DEF RowInv, MapInv, MapTypes, MemoryRows
<1> HIDE DEF e
<1>4. ASSUME int2id' = Append(int2id, e), NEW r \in rows
      PROVE  Named(r, int2id') /\ Named(r, int2id) /\ int2id'[r.iid + 1] = int2id[r.iid + 1]
  <2>1. r.iid \in 0..(Len(int2id) - 1) /\ Len(int2id) \in Nat
    BY <1>3 DEF NamedBy
  <2>2. r.iid < Len(int2id) /\ r.iid + 1 \in 1..Len(int2id)
    BY <2>1
  <2>3. Len(Append(int2id, e)) = Len(int2id) + 1 /\ Append(int2id, e)[r.iid + 1] = int2id[r.iid + 1]
    BY <1>3, <2>2
  <2>4. r.iid < Len(int2id) + 1
    BY <2>1, <2>2
  <2> QED BY <1>4, <2>2, <2>3, <2>4 DEF Named
<1>5. CASE int2id' = Append(int2id, e)
  <2>1. \A x \in Ids : {q \in rows : Named(q, int2id') /\ int2id'[q.iid + 1] = x}
                         = {q \in rows : Named(q, int2id) /\ int2id[q.iid + 1] = x}
    BY <1>4, <1>5
  <2> QED BY <1>1, <2>1 DEF Contents, ContentsOf
<1> QED BY <1>1, <1>5 DEF Contents

-----------------------------------------------------------------------------
LEMMA InitStore == Init => StoreInv
BY DEF Init, StoreInv, NoCall, EmptyDisk

(* Steps of a call or of delete touch neither the disk nor the candidates.                  *)
LEMMA CallKeepsStoreInv ==
  ASSUME StoreInv, UNCHANGED <<disk, candidates, torn, saving>>, saving = "no",
         call'.step = "idle" => call'.ids = <<>>,
         ~torn /\ call'.step = "update" => \A k \in call'.fresh : Contents'[call'.ids[k]] = {call'.vec}
  PROVE  StoreInv'
BY DEF StoreInv, DiskContents

LEMMA IngestKeepsStoreInv ==
  ASSUME SInv,
         \/ MapNext \/ Mapped \/ Build \/ Insert \/ Update \/ RuntimeRaises
         \/ \E b \in Batches, v \in Versions, upsert \in BOOLEAN, texts \in BOOLEAN,
               strict \in BOOLEAN : BeginIngest(b, v, upsert, texts, strict)
         \/ \E b \in Batches : Delete(b)
  PROVE  StoreInv'
<1>1. UNCHANGED <<disk, candidates, torn, saving>>
  BY DEF MapNext, Mapped, Build, Insert, Update, RuntimeRaises, BeginIngest, Delete, memory, history
<1>2. saving = "no"
  BY DEF MapNext, Mapped, Build, Insert, Update, RuntimeRaises, BeginIngest, Delete, Idle,
         SInv, RowInv, CallInv
<1>3. CASE call' = NoCall
  BY <1>1, <1>2, <1>3, CallKeepsStoreInv DEF NoCall, SInv
<1>4. CASE call'.step = "map"
  BY <1>1, <1>2, <1>4, CallKeepsStoreInv DEF SInv
<1>5. CASE MapNext
  <2>1. call'.step = "map"
    BY <1>5 DEF MapNext, SInv, RowInv, MapInv, CallShape
  <2> QED BY <1>4, <2>1
<1>6. CASE Mapped
  <2>1. /\ call'.fresh = call.fresh /\ call'.step \in {"build", "insert", "update"}
        /\ call'.step = "update" => call.fresh = {}
    BY <1>6 DEF Mapped, SInv, RowInv, MapInv, CallShape
  <2> QED BY <1>1, <1>2, <2>1, CallKeepsStoreInv DEF SInv
<1>7. CASE Insert
  <2>1. CASE call' = [call EXCEPT !.step = "update"]
    <3>1. /\ call'.ids = call.ids /\ call'.fresh = call.fresh /\ call'.vec = call.vec
          /\ call'.step = "update" /\ call.step = "insert"
      BY <1>7, <2>1 DEF Insert, SInv, RowInv, MapInv, CallShape
    <3>2. call.ids \in Seq(Ids) /\ call.fresh \subseteq DOMAIN call.ids
      BY <3>1, CalledIds, AllKnown DEF SInv
    <3>3. ~torn => \A k \in call.fresh : Contents'[call.ids[k]] = {call.vec}
      BY <1>7, <3>2, InsertWrites DEF Written, At, SInv
    <3> QED BY <1>1, <1>2, <3>1, <3>3, CallKeepsStoreInv DEF SInv
  <2> QED BY <1>3, <1>7, <2>1 DEF Insert
<1>8. CASE \E b \in Batches : Delete(b)
  <2>1. UNCHANGED call /\ call.step = "idle"
    BY <1>8 DEF Delete, Idle
  <2> QED BY <1>1, <1>2, <2>1, CallKeepsStoreInv DEF SInv, StoreInv
<1>9. CASE Build \/ Update \/ RuntimeRaises
  BY <1>3, <1>9 DEF Build, Update, RuntimeRaises
<1>10. ASSUME NEW b \in Batches, NEW v \in Versions, NEW upsert \in BOOLEAN, NEW texts \in BOOLEAN,
              NEW strict \in BOOLEAN, BeginIngest(b, v, upsert, texts, strict)
       PROVE  call'.step = "map"
  BY <1>10 DEF BeginIngest
<1> QED BY <1>4, <1>5, <1>6, <1>7, <1>8, <1>9, <1>10

LEMMA SaveKeepsStoreInv == ASSUME SInv, SaveIndex \/ SaveMap \/ SaveMeta PROVE StoreInv'
<1>1. /\ UNCHANGED <<int2id, rows, call, torn>> /\ call.step = "idle"
  BY DEF SaveIndex, SaveMap, SaveMeta, Idle, memory, history, SInv, RowInv, CallInv
<1>2. Contents' = Contents
  BY <1>1 DEF Contents
<1>3. CASE SaveIndex
  <2>1. /\ disk'.rows = rows /\ disk'.map = disk.map /\ saving' = "index"
        /\ candidates' = candidates \cup {Contents}
    BY <1>3 DEF SaveIndex, SInv, RowInv, MapInv, MapTypes
  <2> QED BY <1>1, <1>2, <2>1 DEF SInv, StoreInv, DiskContents, Contents
<1>4. CASE SaveMap
  <2>1. /\ disk'.rows = rows /\ disk'.map = int2id /\ saving' = "map" /\ saving = "index"
        /\ UNCHANGED candidates
    BY <1>4 DEF SaveMap, history, SInv, RowInv, MapInv, MapTypes, DiskRows
  <2> QED BY <1>1, <1>2, <2>1 DEF SInv, StoreInv, DiskContents, Contents
<1>5. CASE SaveMeta
  <2>1. /\ disk'.rows = rows /\ disk'.map = int2id /\ saving' = "no" /\ candidates' = {Contents}
    BY <1>5 DEF SaveMeta, SInv, RowInv, MapInv, MapTypes, SavedMap, DiskRows
  <2> QED BY <1>1, <1>2, <2>1 DEF SInv, StoreInv, DiskContents, Contents
<1> QED BY <1>3, <1>4, <1>5

LEMMA LifecycleKeepsStoreInv == ASSUME SInv, Create \/ Open \/ Crash PROVE StoreInv'
<1>1. CASE Create
  <2>1. UNCHANGED <<call, saving, disk, torn>> /\ ~disk.meta /\ saving = "no" /\ call.step = "idle"
    BY <1>1 DEF Create, SInv, RowInv, MapInv, SavedMap, CallInv
  <2> QED BY <2>1 DEF SInv, StoreInv
<1>2. CASE Open
  <2>1. /\ UNCHANGED <<call, saving, disk, torn>> /\ saving = "no" /\ call.step = "idle"
        /\ candidates' = {DiskContents}
    BY <1>2 DEF Open, SInv, RowInv, MapInv, SavedMap, CallInv
  <2> QED BY <2>1 DEF SInv, StoreInv, DiskContents
<1>3. CASE Crash
  <2>1. /\ UNCHANGED <<disk, candidates>> /\ saving' = "no" /\ call' = NoCall
        /\ torn' = (torn \/ (disk.meta /\ saving = "index" /\ disk.map # int2id))
    BY <1>3 DEF Crash
  <2>2. DiskContents' = DiskContents
    BY <2>1 DEF DiskContents
  <2> QED BY <2>1, <2>2 DEF SInv, StoreInv, NoCall
<1> QED BY <1>1, <1>2, <1>3

LEMMA NextSInv == SInv /\ [Next]_vars => SInv'
<1> SUFFICES ASSUME SInv, [Next]_vars PROVE StoreInv'
  BY NextRowInv DEF SInv
<1>1. CASE UNCHANGED vars
  BY <1>1 DEF vars, SInv, StoreInv, Contents, DiskContents
<1>2. CASE Create \/ Open \/ Crash
  BY <1>2, LifecycleKeepsStoreInv
<1>3. ASSUME NEW b \in Batches, NEW v \in Versions, NEW texts \in BOOLEAN,
             Add(b, v, texts) \/ Upsert(b, v, texts) \/ UpdateTexts(b, v)
      PROVE  StoreInv'
  <2>1. \E upsert \in BOOLEAN, txt \in BOOLEAN, strict \in BOOLEAN : BeginIngest(b, v, upsert, txt, strict)
    BY <1>3 DEF Add, Upsert, UpdateTexts
  <2> QED BY <2>1, IngestKeepsStoreInv
<1>4. CASE \/ MapNext \/ Mapped \/ Build \/ Insert \/ Update \/ RuntimeRaises
           \/ \E b \in Batches : Delete(b)
  BY <1>4, IngestKeepsStoreInv
<1>5. CASE SaveIndex \/ SaveMap \/ SaveMeta
  BY <1>5, SaveKeepsStoreInv
<1> QED BY <1>1, <1>2, <1>3, <1>4, <1>5 DEF Next

-----------------------------------------------------------------------------
(* Each step as a step of the abstract store, for which the batch of a call is one put.     *)
LEMMA IdlePut ==
  ASSUME SInv, Idle
  PROVE  call.ids = <<>> /\ Range(call.ids) = {}
BY DEF Idle, SInv, StoreInv, Range

LEMMA PutBegins ==
  ASSUME SInv, NEW b \in Batches, NEW v \in Versions, NEW upsert, NEW texts, NEW strict,
         BeginIngest(b, v, upsert, texts, strict)
  PROVE  Store!Call
<1>1. /\ UNCHANGED <<up, int2id, rows, disk, candidates>> /\ up
      /\ call'.ids = b /\ call'.vec = v /\ Range(call.ids) = {}
  BY IdlePut DEF BeginIngest, Idle, memory, history
<1>2. b \in Seq(Ids) /\ 1 \in DOMAIN b
  BY BatchesAssumption
<1>3. Range(b) \in (SUBSET Ids) \ {{}}
  <2>1. b[1] \in Range(b)
    BY <1>2 DEF Range
  <2>2. Range(b) \subseteq Ids
    BY <1>2 DEF Range
  <2> QED BY <2>1, <2>2
<1>4. Contents' = Contents
  BY <1>1 DEF Contents
<1> QED BY <1>1, <1>3, <1>4 DEF Store!Call, Store!NoBatch

(* The ids S of the batch were written; a call that ends has written them all.              *)
LEMMA PutWrites ==
  ASSUME UNCHANGED <<up, disk, candidates>>,
         NEW S \in SUBSET Range(call.ids), Written(S, {call.vec}),
         \/ call'.ids = call.ids /\ call'.vec = call.vec /\ Range(call.ids) # {}
         \/ Range(call'.ids) = {} /\ \A e \in Range(call.ids) : Contents'[e] = {call.vec}
  PROVE  Store!Write
BY DEF Store!Write, Store!NoBatch, Written

LEMMA EndedPut == call' = NoCall => Range(call'.ids) = {}
BY DEF NoCall, Range

LEMMA BuildPuts == ASSUME SInv, ~torn, Build PROVE Store!Write
<1>1. UNCHANGED <<up, disk, candidates>> /\ call' = NoCall /\ call.step = "build"
  BY DEF Build, history
<1>2. Written(Range(call.ids), {call.vec}) /\ Range(call.ids) \subseteq Ids
  BY <1>1, BuildWrites, CalledIds DEF SInv, Range
<1>3. \A e \in Range(call.ids) : Contents'[e] = {call.vec}
  BY <1>2 DEF Written
<1> QED BY <1>1, <1>2, <1>3, EndedPut, PutWrites

LEMMA InsertPuts == ASSUME SInv, ~torn, Insert PROVE Store!Write
<1>1. UNCHANGED <<up, disk, candidates>> /\ call.step = "insert"
  BY DEF Insert, history
<1>2. /\ Written(At(call.fresh), {call.vec}) /\ Range(call.ids) \subseteq Ids /\ Range(call.ids) # {}
      /\ At(call.fresh) \in SUBSET Range(call.ids) /\ At(DOMAIN call.ids) = Range(call.ids)
  BY <1>1, InsertWrites, CalledIds, AllKnown DEF SInv, Range
<1>3. CASE call' = NoCall /\ call.fresh = DOMAIN call.ids
  <2>1. \A e \in Range(call.ids) : Contents'[e] = {call.vec}
    BY <1>2, <1>3 DEF Written
  <2> QED BY <1>1, <1>2, <1>3, <2>1, EndedPut, PutWrites
<1>4. CASE call' = [call EXCEPT !.step = "update"]
  <2>1. call'.ids = call.ids /\ call'.vec = call.vec
    BY <1>4 DEF SInv, RowInv, MapInv, CallShape
  <2> QED BY <1>1, <1>2, <2>1, PutWrites
<1> QED BY <1>3, <1>4 DEF Insert

LEMMA UpdatePuts == ASSUME SInv, ~torn, Update PROVE Store!Write
<1> DEFINE P == DOMAIN call.ids \ call.fresh
<1>1. UNCHANGED <<up, disk, candidates>> /\ call' = NoCall /\ call.step = "update"
  BY DEF Update, history
<1>2. /\ Written(At(P), {call.vec}) /\ Range(call.ids) \subseteq Ids
      /\ At(P) \in SUBSET Range(call.ids)
  BY <1>1, UpdateWrites, CalledIds DEF SInv, Range
<1>3. ASSUME NEW e \in Range(call.ids) PROVE Contents'[e] = {call.vec}
  <2>1. PICK k \in DOMAIN call.ids : e = call.ids[k]
    BY DEF Range
  <2>2. CASE e \in At(P)
    BY <1>2, <2>2 DEF Written
  <2>3. CASE e \notin At(P)
    <3>1. k \in call.fresh
      BY <2>1, <2>3 DEF At
    <3>2. Contents[e] = {call.vec}
      BY <1>1, <2>1, <3>1 DEF SInv, StoreInv
    <3> QED BY <1>2, <2>3, <3>2 DEF Written
  <2> QED BY <2>2, <2>3
<1> HIDE DEF P
<1> QED BY <1>1, <1>2, <1>3, EndedPut, PutWrites

LEMMA RaisesPut == ASSUME SInv, RuntimeRaises PROVE Store!Raise
<1>1. UNCHANGED <<up, int2id, rows, disk, candidates>> /\ call' = NoCall
  BY DEF RuntimeRaises, memory, history
<1>2. Range(call.ids) # {} /\ Range(call'.ids) = {} /\ Contents' = Contents
  BY <1>1, CalledIds, EndedPut DEF RuntimeRaises, SInv, Contents
<1> QED BY <1>1, <1>2 DEF Store!Raise, Store!NoBatch

LEMMA Removes == ASSUME SInv, ~torn, NEW b \in Batches, Delete(b) PROVE Store!Remove
<1> DEFINE T == Range(b) \cap DOMAIN id2int
<1>1. UNCHANGED <<up, call, disk, candidates>> /\ up /\ Range(call.ids) = {}
  BY IdlePut DEF Delete, Idle, history
<1>2. Written(T, {}) /\ b \in Seq(Ids)
  BY DeleteWrites, BatchesAssumption DEF SInv
<1>3. T \in SUBSET Ids
  BY <1>2 DEF Range
<1> HIDE DEF T
<1> QED BY <1>1, <1>2, <1>3 DEF Store!Remove, Store!NoBatch, Written

LEMMA SaveRefines ==
  ASSUME SInv, SaveIndex \/ SaveMap \/ SaveMeta
  PROVE  Store!SaveBegins \/ Store!SaveReturns \/ UNCHANGED Store!vars
<1>1. UNCHANGED <<up, int2id, rows, call>> /\ Contents' = Contents /\ up
  BY DEF SaveIndex, SaveMap, SaveMeta, Idle, memory, Contents, SInv, RowInv, MapInv, SavedMap
<1>2. CASE SaveIndex
  <2>1. disk'.meta = disk.meta /\ candidates' = candidates \cup {Contents}
    BY <1>2 DEF SaveIndex, SInv, RowInv, MapInv, MapTypes
  <2> QED BY <1>1, <2>1 DEF Store!SaveBegins
<1>3. CASE SaveMap
  <2>1. disk'.meta = disk.meta /\ UNCHANGED candidates
    BY <1>3 DEF SaveMap, history, SInv, RowInv, MapInv, MapTypes
  <2> QED BY <1>1, <2>1 DEF Store!vars
<1>4. CASE SaveMeta
  <2>1. disk'.meta /\ candidates' = {Contents}
    BY <1>4 DEF SaveMeta, SInv, RowInv, MapInv, MapTypes
  <2> QED BY <1>1, <2>1 DEF Store!SaveReturns
<1> QED BY <1>2, <1>3, <1>4

LEMMA LifecycleRefines ==
  ASSUME SInv, ~torn, Create \/ Open \/ Crash
  PROVE  Store!Start \/ Store!Crash
<1>1. \A m : ContentsOf({}, m) = Store!Empty
  BY DEF ContentsOf, Store!Empty
<1>2. CASE Create
  <2>1. /\ UNCHANGED <<call, disk>> /\ ~disk.meta /\ ~up /\ up' /\ candidates' = {}
        /\ rows' = {}
    BY <1>2 DEF Create
  <2>2. Contents' = Store!Empty
    BY <1>1, <2>1 DEF Contents
  <2> QED BY <2>1, <2>2 DEF Store!Start
<1>3. CASE Open
  <2>1. /\ UNCHANGED <<call, disk>> /\ disk.meta /\ ~up /\ up' /\ candidates' = {DiskContents}
        /\ rows' = disk.rows /\ int2id' = disk.map /\ saving = "no"
    BY <1>3 DEF Open, SInv, RowInv, MapInv, SavedMap
  <2>2. Contents' = DiskContents /\ DiskContents \in candidates
    BY <2>1 DEF Contents, DiskContents, SInv, StoreInv
  <2> QED BY <2>1, <2>2 DEF Store!Start
<1>4. CASE Crash
  <2>1. UNCHANGED <<disk, candidates>> /\ up /\ ~up' /\ call' = NoCall /\ rows' = {}
    BY <1>4 DEF Crash
  <2>2. Contents' = Store!Empty /\ Range(call'.ids) = {}
    BY <1>1, <2>1, EndedPut DEF Contents
  <2> QED BY <2>1, <2>2 DEF Store!Crash, Store!NoBatch
<1> QED BY <1>2, <1>3, <1>4

LEMMA StepRefines == SInv /\ [Next]_vars => [torn' \/ Store!Next]_<<Store!vars>>
<1> SUFFICES ASSUME SInv, [Next]_vars, ~torn' PROVE [Store!Next]_<<Store!vars>>
  OBVIOUS
<1> USE DEF Store!Next
<1>0. ~torn
  BY DEF Next, Create, Open, Crash, Add, Upsert, UpdateTexts, BeginIngest, MapNext, Mapped, Build, Insert,
         Update, RuntimeRaises, Delete, SaveIndex, SaveMap, SaveMeta, history, vars
<1>1. CASE UNCHANGED vars
  BY <1>1 DEF vars, Store!vars, Contents
<1>2. CASE Create \/ Open \/ Crash
  BY <1>0, <1>2, LifecycleRefines
<1>3. ASSUME NEW b \in Batches, NEW v \in Versions, NEW texts \in BOOLEAN,
             Add(b, v, texts) \/ Upsert(b, v, texts) \/ UpdateTexts(b, v)
      PROVE  Store!Call
  BY <1>3, PutBegins DEF Add, Upsert, UpdateTexts
<1>4. CASE MapNext
  <2>1. UNCHANGED <<up, disk, candidates>> /\ call'.ids = call.ids /\ call'.vec = call.vec
    BY <1>4 DEF MapNext, history, SInv, RowInv, MapInv, CallShape
  <2>2. Contents' = Contents
    BY <1>0, <1>4, MapNextWrites DEF SInv
  <2> QED BY <2>1, <2>2 DEF Store!vars
<1>5. CASE Mapped
  <2>1. /\ UNCHANGED <<up, int2id, rows, disk, candidates>>
        /\ call'.ids = call.ids /\ call'.vec = call.vec
    BY <1>5 DEF Mapped, memory, history, SInv, RowInv, MapInv, CallShape
  <2> QED BY <2>1 DEF Store!vars, Contents
<1>6. CASE Build \/ Insert \/ Update
  BY <1>0, <1>6, BuildPuts, InsertPuts, UpdatePuts
<1>7. CASE RuntimeRaises
  BY <1>7, RaisesPut
<1>8. ASSUME NEW b \in Batches, Delete(b) PROVE Store!Remove
  BY <1>0, <1>8, Removes
<1>9. CASE SaveIndex \/ SaveMap \/ SaveMeta
  BY <1>9, SaveRefines
<1> QED BY <1>1, <1>2, <1>3, <1>4, <1>5, <1>6, <1>7, <1>8, <1>9 DEF Next

(* Until a save is torn the collection implements the abstract store, for any ids, batches   *)
(* that may repeat them, vectors, failures of the runtime and crashes.                    *)
THEOREM Refinement == Spec => ImplementsStore
<1>1. Init => SInv /\ Store!Init
  BY InitRowInv, InitStore DEF SInv, Init, Store!Init, Store!Empty, Store!NoBatch, Contents, ContentsOf, NoCall,
                               EmptyDisk, Range
<1>2. SInv /\ [Next]_vars => [torn' \/ Store!Next]_<<Store!vars>>
  BY StepRefines
<1> QED BY <1>1, <1>2, NextSInv, PTL DEF Spec, ImplementsStore

-----------------------------------------------------------------------------
(* Types.  The text that reaches a row is always one of the batch.                        *)
TInv == RowInv /\ TypeOK /\ (call.step # "idle" => call.vec \in Versions)

LEMMA InitTInv == Init => TInv
<1> SUFFICES ASSUME Init PROVE TInv
  OBVIOUS
<1>1. RowInv
  BY InitRowInv
<1>2. <<>> \in Seq(Ids) /\ Len(<<>>) = 0 /\ 0 \in 0..0 /\ DOMAIN id2int = {}
  BY DEF Init
<1>3. call.mapped \in 0..Len(call.ids) /\ call.fresh \subseteq DOMAIN call.ids /\ call.step = "idle"
  BY <1>2 DEF Init, NoCall
<1>4. disk.map \in Seq(Ids) /\ disk.rows = {} /\ disk.sealed = FALSE /\ disk.meta = FALSE
  BY <1>2 DEF Init, EmptyDisk
<1>5. TypeOK
  BY <1>2, <1>3, <1>4 DEF Init, TypeOK
<1> QED BY <1>1, <1>3, <1>5 DEF TInv

LEMMA PlaceOfText ==
  ASSUME call.ids \in Seq(Ids), NEW P \in SUBSET DOMAIN call.ids, NEW k \in P
  PROVE  TextAt(P, k) \in Ids /\ Cardinality(Earlier(P, k)) \in Nat
<1> DEFINE n == Len(call.ids)
           before == {j \in P : j <= k}
<1>1. n \in Nat /\ DOMAIN call.ids = 1..n /\ \A i \in 1..n : call.ids[i] \in Ids
  OBVIOUS
<1>2. IsFiniteSet(1..n) /\ Cardinality(1..n) = n
  <2>1. /\ IsFiniteSet(1..n) /\ Cardinality(1..n) = IF 1 > n THEN 0 ELSE n - 1 + 1
    BY <1>1, FS_Interval
  <2> QED BY <1>1, <2>1
<1>3. before \in SUBSET (1..n) /\ Earlier(P, k) \in SUBSET (1..n) /\ k \in before
  BY <1>1 DEF Earlier
<1>4. /\ IsFiniteSet(before) /\ Cardinality(before) <= n /\ IsFiniteSet(Earlier(P, k))
  BY <1>2, <1>3, FS_Subset
<1>5. Cardinality(before) \in Nat /\ Cardinality(before) # 0 /\ Cardinality(Earlier(P, k)) \in Nat
  BY <1>3, <1>4, FS_CardinalityType, FS_EmptySet
<1>6. Cardinality(before) \in 1..n
  BY <1>1, <1>4, <1>5
<1> QED BY <1>1, <1>5, <1>6 DEF TextAt

LEMMA AppendedTyped ==
  ASSUME TInv, call.step \in {"build", "insert"}, NEW P \in SUBSET DOMAIN call.ids
  PROVE  Appended(P) \subseteq Row
<1>1. MapInv /\ call.ids \in Seq(Ids) /\ call.vec \in Versions
  BY CalledIds DEF TInv, RowInv
<1>2. ASSUME NEW k \in P
      PROVE  [iid |-> id2int[call.ids[k]],
              vec |-> call.vec,
              tok |-> IF Lexical /\ call.texts THEN TextAt(P, k) ELSE None,
              nth |-> Cardinality(Earlier(P, k))] \in Row
  <2>1. id2int[call.ids[k]] \in Nat
    <3>1. call.ids[k] \in DOMAIN id2int
      BY AllKnown DEF TInv, Known
    <3> QED BY <3>1 DEF TInv, TypeOK
  <2>2. TextAt(P, k) \in Ids /\ Cardinality(Earlier(P, k)) \in Nat
    BY <1>1, PlaceOfText
  <2> QED BY <1>1, <2>1, <2>2 DEF Row
<1> QED BY <1>2 DEF Appended

LEMMA UpdatedTyped ==
  ASSUME TInv, call.step = "update", NEW P \in SUBSET DOMAIN call.ids, NEW k \in P
  PROVE  [iid |-> id2int[call.ids[k]], vec |-> call.vec, tok |-> UpdatedTok(P, k), nth |-> 0] \in Row
<1>1. MapInv /\ call.ids \in Seq(Ids) /\ call.vec \in Versions /\ rows \subseteq Row
  BY CalledIds DEF TInv, RowInv, TypeOK
<1>2. id2int[call.ids[k]] \in Nat
  <2>1. call.ids[k] \in DOMAIN id2int
    BY AllKnown DEF TInv, Known
  <2> QED BY <2>1 DEF TInv, TypeOK
<1>3. UpdatedTok(P, k) \in Ids \cup {None}
  <2> DEFINE old == {r \in rows : r.iid = id2int[call.ids[k]]}
  <2>1. old # {} => (CHOOSE r \in old : TRUE) \in rows
    OBVIOUS
  <2>2. \A r \in rows : r.tok \in Ids \cup {None}
    BY <1>1 DEF Row
  <2>3. TextAt(P, k) \in Ids
    BY <1>1, PlaceOfText
  <2> QED BY <2>1, <2>2, <2>3 DEF UpdatedTok
<1> QED BY <1>1, <1>2, <1>3 DEF Row

LEMMA WritesTyped ==
  ASSUME TInv, Build \/ Insert \/ Update
  PROVE  rows' \subseteq Row
<1>1. rows \subseteq Row
  BY DEF TInv, TypeOK
<1>2. CASE Build
  BY <1>1, <1>2, AppendedTyped DEF Build
<1>3. CASE Insert
  <2>1. call.fresh \in SUBSET DOMAIN call.ids
    BY DEF TInv, TypeOK
  <2> QED BY <1>1, <1>3, <2>1, AppendedTyped DEF Insert
<1>4. CASE Update
  <2> DEFINE P    == DOMAIN call.ids \ call.fresh
             last == {k \in P : \A j \in P : call.ids[j] = call.ids[k] => j <= k}
             iids == {id2int[call.ids[k]] : k \in P}
             row(k) == [iid |-> id2int[call.ids[k]], vec |-> call.vec, tok |-> UpdatedTok(P, k), nth |-> 0]
  <2>1. rows' = {r \in rows : r.iid \notin iids} \cup {row(k) : k \in last}
    BY <1>4 DEF Update
  <2>2. \A k \in last : row(k) \in Row
    BY <1>4, UpdatedTyped DEF Update
  <2> HIDE DEF row, iids, last
  <2> QED BY <1>1, <2>1, <2>2
<1> QED BY <1>2, <1>3, <1>4

LEMMA NextTInv == TInv /\ [Next]_vars => TInv'
<1> SUFFICES ASSUME TInv, [Next]_vars PROVE TInv'
  OBVIOUS
<1>1. RowInv' /\ MapInv' /\ RowInv /\ TypeOK
  BY NextRowInv DEF TInv, RowInv
<1>2. /\ int2id' \in Seq(Ids) /\ disk'.map \in Seq(Ids)
      /\ DOMAIN id2int' \subseteq Ids /\ \A e \in DOMAIN id2int' : id2int'[e] \in Nat
  <2>1. int2id' \in Seq(Ids) /\ disk'.map \in Seq(Ids) /\ InverseOf(int2id, id2int)'
    BY <1>1 DEF MapInv, MapTypes, InverseMaps
  <2>2. DOMAIN id2int' = Range(int2id') /\ \A i \in DOMAIN int2id' : id2int'[int2id'[i]] = i - 1
    BY <2>1 DEF InverseOf
  <2>3. /\ \A e \in Range(int2id') : e \in Ids /\ \E i \in DOMAIN int2id' : int2id'[i] = e
        /\ \A i \in DOMAIN int2id' : i - 1 \in Nat
    BY <2>1 DEF Range
  <2> QED BY <2>1, <2>2, <2>3
<1>3. /\ call' = NoCall \/ UNCHANGED call \/ call'.step # "idle"
      /\ call'.step # "idle" => call'.vec \in Versions
      /\ call'.step \in {"idle", "map", "build", "insert", "update"}
      /\ call'.step # "idle" => call'.ids \in Batches
      /\ call'.mapped \in 0..Len(call'.ids) /\ call'.fresh \subseteq DOMAIN call'.ids
  <2> USE DEF TypeOK
  <2>1. CASE UNCHANGED call
    BY <1>1, <2>1 DEF TInv
  <2>2. CASE call' = NoCall
    BY <2>2 DEF NoCall
  <2>3. ASSUME NEW b \in Batches, NEW v \in Versions, NEW texts \in BOOLEAN,
               Add(b, v, texts) \/ Upsert(b, v, texts) \/ UpdateTexts(b, v)
        PROVE  /\ call'.step = "map" /\ call'.ids = b /\ call'.vec = v /\ call'.mapped = 0
               /\ call'.fresh \subseteq DOMAIN b
    BY <2>3 DEF Add, Upsert, UpdateTexts, BeginIngest
  <2>4. \A b \in Batches : Len(b) \in Nat
    BY BatchesAssumption
  <2>5. CASE MapNext
    <3>1. /\ call' = [call EXCEPT !.mapped = call.mapped + 1] /\ call.step = "map"
          /\ call.mapped < Len(call.ids) /\ CallShape
      BY <1>1, <2>5 DEF MapNext, RowInv, MapInv
    <3>2. /\ call'.mapped = call.mapped + 1 /\ call'.ids = call.ids /\ call'.step = "map"
          /\ call'.fresh = call.fresh /\ call'.vec = call.vec
      BY <3>1 DEF CallShape
    <3>3. Len(call.ids) \in Nat /\ call.mapped \in 0..Len(call.ids)
      BY <1>1, <2>4, <3>1
    <3>4. call.mapped + 1 \in 0..Len(call.ids)
      BY <3>1, <3>3
    <3> QED BY <1>1, <3>1, <3>2, <3>4 DEF TInv
  <2>6. CASE Mapped
    <3>1. /\ call' = [call EXCEPT !.step = IF ~sealed THEN "build"
                                          ELSE IF call.fresh # {} THEN "insert" ELSE "update"]
          /\ call.step = "map" /\ CallShape
      BY <1>1, <2>6 DEF Mapped, RowInv, MapInv
    <3>2. /\ call'.mapped = call.mapped /\ call'.ids = call.ids
          /\ call'.step \in {"build", "insert", "update"}
          /\ call'.fresh = call.fresh /\ call'.vec = call.vec
      BY <3>1 DEF CallShape
    <3> QED BY <1>1, <3>1, <3>2 DEF TInv
  <2>7. CASE Insert
    <3>1. CASE call.fresh = DOMAIN call.ids
      BY <2>2, <2>7, <3>1 DEF Insert
    <3>2. CASE call.fresh # DOMAIN call.ids
      <4>1. call' = [call EXCEPT !.step = "update"] /\ call.step = "insert" /\ CallShape
        BY <1>1, <2>7, <3>2 DEF Insert, RowInv, MapInv
      <4>2. /\ call'.mapped = call.mapped /\ call'.ids = call.ids /\ call'.step = "update"
            /\ call'.fresh = call.fresh /\ call'.vec = call.vec
        BY <4>1 DEF CallShape
      <4> QED BY <1>1, <4>1, <4>2 DEF TInv
    <3> QED BY <3>1, <3>2
  <2>8. CASE UNCHANGED vars
    BY <2>1, <2>8 DEF vars
  <2>9. CASE Create \/ Open \/ SaveIndex \/ SaveMap \/ SaveMeta \/ \E b \in Batches : Delete(b)
    BY <2>1, <2>9 DEF Create, Open, SaveIndex, SaveMap, SaveMeta, Delete
  <2>10. CASE Crash \/ Build \/ Update \/ RuntimeRaises
    BY <2>2, <2>10 DEF Crash, Build, Update, RuntimeRaises
  <2>11. CASE \E b \in Batches, v \in Versions, texts \in BOOLEAN :
               Add(b, v, texts) \/ Upsert(b, v, texts) \/ UpdateTexts(b, v)
    <3>1. PICK b \in Batches, v \in Versions, texts \in BOOLEAN :
               Add(b, v, texts) \/ Upsert(b, v, texts) \/ UpdateTexts(b, v)
      BY <2>11
    <3>2. 0 \in 0..Len(b)
      BY <2>4
    <3> QED BY <2>3, <3>1, <3>2
  <2> QED BY <2>5, <2>6, <2>7, <2>8, <2>9, <2>10, <2>11 DEF Next
<1>4. /\ rows' \subseteq Row /\ disk'.rows \subseteq Row /\ up' \in BOOLEAN /\ sealed' \in BOOLEAN
      /\ saving' \in {"no", "index", "map"} /\ torn' \in BOOLEAN
      /\ disk'.sealed \in BOOLEAN /\ disk'.meta \in BOOLEAN
  <2> USE DEF TypeOK
  <2>1. CASE Create \/ Open \/ Crash
    BY <1>1, <2>1 DEF Create, Open, Crash
  <2>2. CASE Build \/ Insert \/ Update
    <3>1. rows' \subseteq Row
      BY <2>2, WritesTyped
    <3>2. UNCHANGED <<up, saving, disk, torn>> /\ sealed' \in BOOLEAN
      BY <1>1, <2>2 DEF Build, Insert, Update, history
    <3> QED BY <1>1, <3>1, <3>2
  <2>3. CASE MapNext \/ Mapped \/ RuntimeRaises \/ \E b \in Batches : Delete(b)
    BY <1>1, <2>3 DEF MapNext, Mapped, RuntimeRaises, Delete, memory, history
  <2>4. CASE \E b \in Batches, v \in Versions, texts \in BOOLEAN :
               Add(b, v, texts) \/ Upsert(b, v, texts) \/ UpdateTexts(b, v)
    BY <1>1, <2>4 DEF Add, Upsert, UpdateTexts, BeginIngest, memory, history
  <2>5. CASE SaveIndex \/ SaveMap \/ SaveMeta
    <3>1. disk = [rows |-> disk.rows, sealed |-> disk.sealed, map |-> disk.map, meta |-> disk.meta]
      BY <1>1 DEF RowInv, MapInv, MapTypes
    <3> QED BY <1>1, <2>5, <3>1 DEF SaveIndex, SaveMap, SaveMeta, memory, history
  <2>6. CASE UNCHANGED vars
    BY <1>1, <2>6 DEF vars
  <2> QED BY <2>1, <2>2, <2>3, <2>4, <2>5, <2>6 DEF Next
<1> QED BY <1>1, <1>2, <1>3, <1>4 DEF TInv, TypeOK

(* Every variable has its type, for any batches, refusals, crashes and torn saves; so a row      *)
(* that is written gets a text of its batch, though not always its own (_mask_texts).        *)
THEOREM TypesAreRight == Spec => []TypeOK
<1>1. TInv => TypeOK
  BY DEF TInv
<1> QED BY <1>1, InitTInv, NextTInv, PTL DEF Spec
=============================================================================
