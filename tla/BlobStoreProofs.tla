--------------------------- MODULE BlobStoreProofs ---------------------------
(***************************************************************************)
(* What get answers across closes, opens and crashes of the store, for any keys,    *)
(* batches and numbers of puts and crashes.                                     *)
(*                                                                         *)
(* The argument is about one key at a time.  Disk(k) is the position that the log,    *)
(* or else the snapshot, gives for k: what an open will believe.  As long as nothing   *)
(* of k was lost in a crash, Disk(k) and the index in memory point to the last record   *)
(* of k in the slab, whatever step of a put, a sync or an open the crash came at.     *)
(***************************************************************************)
EXTENDS BlobStore, SequenceTheorems, WellFoundedInduction, TLAPS

Entry == [key : Key, at : Pointer]

At(f, k) == IF k \in DOMAIN f THEN f[k] ELSE Null

(* Position i of the records F is of k; is the last of k; and holds version v.         *)
Valid(F, i, k)     == i \in DOMAIN F /\ F[i].key = k
Last(F, i, k)      == Valid(F, i, k) /\ \A j \in DOMAIN F : F[j].key = k => j <= i
Newest(F, i, k, v) == Last(F, i, k) /\ F[i].ver = v /\ F[i].cut = "none"

DiskOf(entries, records, k) ==
  IF k \in Keys(entries) THEN LastOf(entries)[k] ELSE At(records, k)

Disk(k) == DiskOf(log.entries, snap.records, k)
Caught  == Keys(call.entries)   \* keys of the call under way

Calls == [step : {"idle", "fsync", "log", "snapshot", "remove"},
          entries : Seq(Entry), then : {"up", "down"}]

Types ==
  /\ slab \in Seq(Record) /\ buf \in Seq(Record) /\ Len(file) <= puts
  /\ log \in [there : BOOLEAN, entries : Seq(Entry)]
  /\ snap.there \in BOOLEAN /\ IsIndex(snap.records)
  /\ IsIndex(index)
  /\ state \in {"down", "up", "refused"}
  /\ call \in Calls
  /\ puts \in 0..MaxPuts /\ crashes \in 0..MaxCrashes
  /\ latest \in [Key -> 0..MaxPuts] /\ lost \subseteq Key /\ synced \subseteq Key
  /\ scanned \in BOOLEAN /\ ignored \in BOOLEAN

StepRight ==
  /\ ~log.there => log.entries = <<>>
  /\ ~snap.there => snap.records = Empty
  /\ state # "up" => call = Idle /\ buf = <<>> /\ index = Empty
  /\ call.step \in {"idle", "snapshot", "remove"} => call.entries = <<>>
  /\ call.step \in {"snapshot", "remove"} => buf = <<>>
  /\ call.step = "remove" => snap.records = index
  /\ ~Tearing => \A i \in DOMAIN file : file[i].cut = "none"

(* The keys of a call have their new entry in the index, the last of their records.      *)
CaughtRight ==
  \A k \in Caught :
    /\ At(index, k) = LastOf(call.entries)[k]
    /\ At(index, k) # Null => Last(file, At(index, k), k) /\ file[At(index, k)].cut = "none"

PointsRight(k) ==
  /\ Disk(k) # Null => Valid(file, Disk(k), k)
  /\ At(index, k) # Null => Valid(file, At(index, k), k)

KnowsLatest(k) ==
  ~ignored /\ ~(Tearing /\ scanned) /\ k \notin Caught /\ latest[k] # 0 =>
    /\ Newest(file, Disk(k), k, latest[k])
    /\ state = "up" => At(index, k) = Disk(k)

KnowsDeleted(k) ==
  ~scanned /\ k \notin Caught /\ latest[k] = 0 => Disk(k) = Null /\ At(index, k) = Null

KeyRight(k) == PointsRight(k) /\ KnowsLatest(k) /\ KnowsDeleted(k)

IInv == Types /\ StepRight /\ CaughtRight /\ \A k \in Key \ lost : KeyRight(k)

-----------------------------------------------------------------------------
(* The last entry of a key.                                                     *)

LEMMA Least ==
  ASSUME NEW T \in SUBSET Nat, T # {}
  PROVE  \E x \in T : \A y \in T : x <= y
<1> DEFINE R == OpToRel(<, Nat)
<1>1. IsWellFoundedOn(R, Nat)
  BY NatLessThanWellFounded, Zenon
<1>2. R = {ss \in Nat \X Nat : ss[1] < ss[2]}
  BY DEF OpToRel
<1> HIDE DEF R
<1>3. PICK x \in T : \A y \in T : ~(<<y, x>> \in R)
  BY <1>1, WFMin
<1>4. ASSUME NEW y \in T PROVE x <= y
  <2>1. <<y, x>> \in Nat \X Nat /\ <<y, x>>[1] = y /\ <<y, x>>[2] = x /\ ~(<<y, x>> \in R)
    BY <1>3
  <2>2. ~(<<y, x>>[1] < <<y, x>>[2])
    BY <1>2, <2>1, Zenon
  <2>3. ~(y < x) /\ x \in Nat /\ y \in Nat
    BY <2>1, <2>2
  <2> QED BY <2>3
<1> QED BY <1>4

LEMMA Greatest ==
  ASSUME NEW n \in Nat, NEW T \in SUBSET (1..n), T # {}
  PROVE  \E x \in T : \A y \in T : y <= x
<1> DEFINE U == {n - x : x \in T}
<1>1. U \in SUBSET Nat /\ U # {}
  <2>1. \A x \in T : n - x \in Nat
    OBVIOUS
  <2> QED BY <2>1
<1>2. PICK u \in U : \A w \in U : u <= w
  <2> HIDE DEF U
  <2> QED BY <1>1, Least
<1>3. PICK x \in T : u = n - x
  OBVIOUS
<1>4. \A y \in T : n - x <= n - y
  BY <1>2, <1>3
<1> QED BY <1>4

LEMMA LastOfIs ==
  ASSUME NEW S, NEW es \in Seq(S), NEW k \in Keys(es)
  PROVE  \E i \in 1..Len(es) : /\ es[i].key = k /\ LastOf(es)[k] = es[i].at
                               /\ \A j \in 1..Len(es) : es[j].key = k => j <= i
<1> DEFINE T == {i \in 1..Len(es) : es[i].key = k}
           P(i) == es[i].key = k /\ \A j \in DOMAIN es : es[j].key = k => j <= i
           c == CHOOSE i \in DOMAIN es : P(i)
<1>1. DOMAIN es = 1..Len(es) /\ Len(es) \in Nat
  BY LenProperties
<1>2. T \in SUBSET (1..Len(es)) /\ T # {}
  BY <1>1 DEF Keys
<1>3. PICK x \in T : \A y \in T : y <= x
  <2> HIDE DEF T
  <2> QED BY <1>1, <1>2, Greatest
<1>4. x \in DOMAIN es /\ P(x)
  BY <1>1, <1>3
<1>5. c \in DOMAIN es /\ P(c)
  <2> HIDE DEF P
  <2> QED BY <1>4
<1>6. LastOf(es)[k] = es[c].at
  BY DEF LastOf
<1> HIDE DEF c
<1> QED BY <1>1, <1>5, <1>6

LEMMA LastOfUnique ==
  ASSUME NEW S, NEW es \in Seq(S), NEW i \in 1..Len(es),
         \A j \in 1..Len(es) : es[j].key = es[i].key => j <= i
  PROVE  es[i].key \in Keys(es) /\ LastOf(es)[es[i].key] = es[i].at
<1>1. DOMAIN es = 1..Len(es) /\ Len(es) \in Nat
  BY LenProperties
<1>2. es[i].key \in Keys(es)
  BY <1>1 DEF Keys
<1>3. PICK m \in 1..Len(es) :
        /\ es[m].key = es[i].key /\ LastOf(es)[es[i].key] = es[m].at
        /\ \A j \in 1..Len(es) : es[j].key = es[i].key => j <= m
  BY <1>2, LastOfIs
<1>4. m = i
  BY <1>1, <1>3
<1> QED BY <1>2, <1>3, <1>4

LEMMA LastOfDomain == \A es : DOMAIN LastOf(es) = Keys(es)
BY DEF LastOf

LEMMA LastOfIndex ==
  ASSUME NEW es \in Seq(Entry)
  PROVE  IsIndex(LastOf(es)) /\ Keys(es) \subseteq Key
<1>1. DOMAIN es = 1..Len(es) /\ \A i \in 1..Len(es) : es[i] \in Entry
  BY LenProperties, ElementOfSeq
<1>2. Keys(es) \subseteq Key
  BY <1>1 DEF Keys, Entry
<1>3. ASSUME NEW k \in Keys(es) PROVE LastOf(es)[k] \in Pointer
  <2>1. PICK i \in 1..Len(es) : LastOf(es)[k] = es[i].at
    BY LastOfIs
  <2> QED BY <1>1, <2>1 DEF Entry
<1> QED BY <1>2, <1>3, LastOfDomain DEF IsIndex

LEMMA LastOfEmpty == Keys(<<>>) = {}
BY DEF Keys

LEMMA LastOfAppended ==
  ASSUME NEW S, NEW es \in Seq(S), NEW fs \in Seq(S)
  PROVE  /\ Keys(es \o fs) = Keys(es) \cup Keys(fs)
         /\ \A k \in Keys(fs) : LastOf(es \o fs)[k] = LastOf(fs)[k]
         /\ \A k \in Keys(es) \ Keys(fs) : LastOf(es \o fs)[k] = LastOf(es)[k]
<1> DEFINE gs == es \o fs
<1>1. /\ gs \in Seq(S) /\ Len(gs) = Len(es) + Len(fs) /\ Len(es) \in Nat /\ Len(fs) \in Nat
      /\ \A i \in 1..Len(es) + Len(fs) : gs[i] = IF i <= Len(es) THEN es[i] ELSE fs[i - Len(es)]
  BY ConcatProperties, LenProperties
<1>2. DOMAIN gs = 1..Len(gs) /\ DOMAIN es = 1..Len(es) /\ DOMAIN fs = 1..Len(fs)
  <2> HIDE DEF gs
  <2> QED BY <1>1, LenProperties
<1> HIDE DEF gs
<1>3. \A i \in 1..Len(es) : i \in 1..Len(gs) /\ gs[i] = es[i]
  BY <1>1
<1>4. \A i \in 1..Len(fs) : Len(es) + i \in 1..Len(gs) /\ gs[Len(es) + i] = fs[i]
  <2> SUFFICES ASSUME NEW i \in 1..Len(fs)
               PROVE  Len(es) + i \in 1..Len(gs) /\ gs[Len(es) + i] = fs[i]
    OBVIOUS
  <2>1. Len(es) + i \in 1..Len(es) + Len(fs) /\ ~(Len(es) + i <= Len(es)) /\ (Len(es) + i) - Len(es) = i
    BY <1>1
  <2> QED BY <1>1, <2>1
<1>5. \A i \in 1..Len(gs) : i \in 1..Len(es) \/ i - Len(es) \in 1..Len(fs)
  BY <1>1
<1>6. Keys(gs) = Keys(es) \cup Keys(fs)
  <2>1. Keys(es) \cup Keys(fs) \subseteq Keys(gs)
    BY <1>2, <1>3, <1>4 DEF Keys
  <2>2. ASSUME NEW i \in 1..Len(gs) PROVE gs[i].key \in Keys(es) \cup Keys(fs)
    <3>1. CASE i \in 1..Len(es)
      BY <1>2, <1>3, <3>1 DEF Keys
    <3>2. CASE i \notin 1..Len(es)
      <4>1. i - Len(es) \in 1..Len(fs) /\ gs[i] = fs[i - Len(es)]
        BY <1>1, <1>5, <3>2
      <4> QED BY <1>2, <4>1 DEF Keys
    <3> QED BY <3>1, <3>2
  <2> QED BY <1>2, <2>1, <2>2 DEF Keys
<1>7. ASSUME NEW k \in Keys(fs) PROVE LastOf(gs)[k] = LastOf(fs)[k]
  <2>1. PICK i \in 1..Len(fs) : /\ fs[i].key = k /\ LastOf(fs)[k] = fs[i].at
                                /\ \A j \in 1..Len(fs) : fs[j].key = k => j <= i
    BY LastOfIs
  <2>2. Len(es) + i \in 1..Len(gs) /\ gs[Len(es) + i] = fs[i]
    BY <1>4
  <2>3. ASSUME NEW j \in 1..Len(gs), gs[j].key = k PROVE j <= Len(es) + i
    <3>1. CASE j <= Len(es)
      BY <1>1, <3>1
    <3>2. CASE ~(j <= Len(es))
      <4>1. j - Len(es) \in 1..Len(fs) /\ gs[j] = fs[j - Len(es)]
        BY <1>1, <3>2
      <4>2. j - Len(es) <= i
        BY <2>1, <2>3, <4>1
      <4> QED BY <1>1, <4>2
    <3> QED BY <3>1, <3>2
  <2> DEFINE m == Len(es) + i
  <2>4. m \in 1..Len(gs) /\ gs[m].key = k /\ gs[m].at = LastOf(fs)[k]
    BY <2>1, <2>2
  <2>5. \A j \in 1..Len(gs) : gs[j].key = gs[m].key => j <= m
    BY <2>3, <2>4
  <2> HIDE DEF m
  <2>6. LastOf(gs)[gs[m].key] = gs[m].at
    BY <1>1, <2>4, <2>5, LastOfUnique
  <2> QED BY <2>4, <2>6
<1>8. ASSUME NEW k \in Keys(es) \ Keys(fs) PROVE LastOf(gs)[k] = LastOf(es)[k]
  <2>1. PICK i \in 1..Len(es) : /\ es[i].key = k /\ LastOf(es)[k] = es[i].at
                                /\ \A j \in 1..Len(es) : es[j].key = k => j <= i
    BY LastOfIs
  <2>2. i \in 1..Len(gs) /\ gs[i] = es[i]
    BY <1>3
  <2>3. ASSUME NEW j \in 1..Len(gs), gs[j].key = k PROVE j <= i
    <3>1. j \in 1..Len(es)
      <4>1. SUFFICES ASSUME j \notin 1..Len(es) PROVE FALSE
        OBVIOUS
      <4>2. j - Len(es) \in 1..Len(fs) /\ gs[j] = fs[j - Len(es)]
        BY <1>1, <1>5, <4>1
      <4> QED BY <1>2, <2>3, <4>2 DEF Keys
    <3> QED BY <1>3, <2>1, <2>3, <3>1
  <2>4. gs[i].key = k /\ gs[i].at = LastOf(es)[k]
    BY <2>1, <2>2
  <2>5. \A j \in 1..Len(gs) : gs[j].key = gs[i].key => j <= i
    BY <2>3, <2>4
  <2>6. LastOf(gs)[gs[i].key] = gs[i].at
    BY <1>1, <2>2, <2>5, LastOfUnique
  <2> QED BY <2>4, <2>6
<1> QED BY <1>6, <1>7, <1>8 DEF gs

LEMMA AtOver ==
  ASSUME NEW f, NEW g, NEW k
  PROVE  At(Over(f, g), k) = IF k \in DOMAIN g THEN g[k] ELSE At(f, k)
BY DEF At, Over

LEMMA OverIndex ==
  ASSUME NEW f, NEW g, IsIndex(f), IsIndex(g)
  PROVE  IsIndex(Over(f, g))
BY DEF IsIndex, Over

LEMMA EmptyIndex == IsIndex(Empty) /\ \A k : At(Empty, k) = Null
BY BoundsAssumption DEF IsIndex, Empty, At

-----------------------------------------------------------------------------
(* The records of the slab and of its buffer.                                     *)

LEMMA FileIs ==
  ASSUME Types
  PROVE  /\ file \in Seq(Record) /\ Len(file) \in Nat /\ Len(slab) \in Nat /\ Len(buf) \in Nat
         /\ Len(file) = Len(slab) + Len(buf)
         /\ DOMAIN file = 1..Len(file) /\ DOMAIN slab = 1..Len(slab) /\ DOMAIN buf = 1..Len(buf)
         /\ \A i \in 1..Len(file) : file[i] \in Record
         /\ \A i \in 1..Len(slab) : i \in 1..Len(file) /\ file[i] = slab[i]
         /\ \A i \in 1..Len(buf) : Len(slab) + i \in 1..Len(file) /\ file[Len(slab) + i] = buf[i]
         /\ buf = <<>> => file = slab
<1>1. slab \in Seq(Record) /\ buf \in Seq(Record)
  BY DEF Types
<1>2. /\ slab \o buf \in Seq(Record) /\ Len(slab \o buf) = Len(slab) + Len(buf)
      /\ \A i \in 1..Len(slab) + Len(buf) :
           (slab \o buf)[i] = IF i <= Len(slab) THEN slab[i] ELSE buf[i - Len(slab)]
  BY <1>1, ConcatProperties
<1>3. file \in Seq(Record) /\ Len(file) = Len(slab) + Len(buf)
  BY <1>2 DEF file
<1>4. /\ Len(file) \in Nat /\ Len(slab) \in Nat /\ Len(buf) \in Nat
      /\ DOMAIN file = 1..Len(file) /\ DOMAIN slab = 1..Len(slab) /\ DOMAIN buf = 1..Len(buf)
  BY <1>1, <1>3, LenProperties
<1>5. \A i \in 1..Len(file) : file[i] \in Record
  BY <1>3, ElementOfSeq
<1>6. \A i \in 1..Len(slab) : i \in 1..Len(file) /\ file[i] = slab[i]
  BY <1>2, <1>3, <1>4 DEF file
<1>7. ASSUME NEW i \in 1..Len(buf)
      PROVE  Len(slab) + i \in 1..Len(file) /\ file[Len(slab) + i] = buf[i]
  <2>1. /\ Len(slab) + i \in 1..Len(slab) + Len(buf) /\ ~(Len(slab) + i <= Len(slab))
        /\ (Len(slab) + i) - Len(slab) = i
    BY <1>4
  <2> QED BY <1>2, <1>3, <2>1 DEF file
<1>8. buf = <<>> => file = slab
  BY <1>1, ConcatEmptySeq DEF file
<1> QED BY <1>3, <1>4, <1>5, <1>6, <1>7, <1>8

(* Two files with the same records of k.                                          *)
SameOf(F, G, k) ==
  /\ \A i \in DOMAIN F : F[i].key = k => i \in DOMAIN G /\ G[i] = F[i]
  /\ \A i \in DOMAIN G : G[i].key = k => i \in DOMAIN F /\ F[i] = G[i]

LEMMA SameKept ==
  ASSUME NEW F, NEW G, NEW k, SameOf(F, G, k), NEW i, NEW v
  PROVE  /\ Valid(F, i, k) => Valid(G, i, k)
         /\ Newest(F, i, k, v) => Newest(G, i, k, v)
BY DEF SameOf, Valid, Last, Newest

LEMMA IdleIs == Idle \in Calls /\ Idle.step = "idle" /\ Idle.entries = <<>> /\ Idle.then = "up"
BY EmptySeq DEF Idle, Calls

(* The buffer is flushed, and nothing else but the step of the call.                  *)
LEMMA FlushedKeeps ==
  ASSUME IInv, state = "up", slab' = file, buf' = <<>>,
         UNCHANGED <<log, snap, index, state, puts, crashes, history>>,
         call' \in Calls, call'.entries = call.entries,
         call'.step \in {"idle", "snapshot", "remove"} => call.entries = <<>>,
         call'.step = "remove" => call.step = "remove"
  PROVE  IInv'
<1>1. /\ log' = log /\ snap' = snap /\ index' = index /\ state' = state /\ puts' = puts
      /\ crashes' = crashes /\ latest' = latest /\ lost' = lost /\ synced' = synced
      /\ scanned' = scanned /\ ignored' = ignored
  BY DEF history
<1>2. Types
  BY DEF IInv
<1>3. file' = file
  BY <1>2, FileIs, ConcatEmptySeq DEF file
<1>4. \A k : Disk(k)' = Disk(k)
  BY <1>1 DEF Disk
<1>5. Caught' = Caught
  BY DEF Caught
<1>6. Types'
  <2>1. Calls' = Calls /\ Entry' = Entry /\ Record' = Record
    BY DEF Calls, Entry, Record, Pointer
  <2>2. slab' \in Seq(Record) /\ buf' \in Seq(Record) /\ Len(file') <= puts'
    BY <1>1, <1>2, <1>3, FileIs, EmptySeq DEF Types
  <2> QED BY <1>1, <1>2, <2>1, <2>2 DEF Types, IsIndex, Pointer
<1>7. StepRight'
  BY <1>1, <1>3 DEF IInv, StepRight
<1>8. CaughtRight'
  BY <1>1, <1>3, <1>5 DEF IInv, CaughtRight
<1>9. \A k \in Key \ lost' : KeyRight(k)'
  BY <1>1, <1>3, <1>4, <1>5 DEF IInv, KeyRight, PointsRight, KnowsLatest, KnowsDeleted
<1> QED BY <1>6, <1>7, <1>8, <1>9 DEF IInv

LEMMA FsyncKeeps == ASSUME IInv, Fsync PROVE IInv'
<1>1. call.step = "fsync" /\ state = "up" /\ call \in Calls
  BY IdleIs DEF Fsync, IInv, StepRight, Types
<1>2. call' \in Calls /\ call'.entries = call.entries /\ call'.step = "log"
  BY <1>1 DEF Fsync, Calls
<1> QED BY <1>1, <1>2, FlushedKeeps DEF Fsync

LEMMA FlushKeeps == ASSUME IInv, Flush PROVE IInv'
<1>1. call' = call /\ call \in Calls
  BY DEF Flush, IInv, Types
<1> QED BY <1>1, FlushedKeeps DEF Flush, IInv, StepRight

LEMMA SyncKeeps == ASSUME IInv, NEW then \in {"up", "down"}, Sync(then) PROVE IInv'
<1>1. call.step = "idle" /\ state = "up" /\ call.entries = <<>>
  BY DEF Sync, Ready, IInv, StepRight
<1>2. call' \in Calls /\ call'.entries = <<>> /\ call'.step = "snapshot"
  BY IdleIs DEF Sync, Idle, Calls
<1> QED BY <1>1, <1>2, FlushedKeeps DEF Sync

-----------------------------------------------------------------------------
(* The calls.                                                                  *)

LEMMA PutKeeps ==
  ASSUME IInv, NEW keys \in Batches, NEW sync \in BOOLEAN, Put(keys, sync)
  PROVE  IInv'
<1> DEFINE recs == [i \in DOMAIN keys |-> [key |-> keys[i], ver |-> puts + i, cut |-> "none"]]
           ents == [i \in DOMAIN keys |-> [key |-> keys[i], at |-> Len(file) + i]]
           n == Len(keys)
<1>1. /\ state = "up" /\ call.step = "idle" /\ puts + n <= MaxPuts
      /\ slab' = file /\ buf' = recs /\ index' = Over(index, LastOf(ents))
      /\ call' = [step |-> IF sync THEN "fsync" ELSE "log", entries |-> ents, then |-> "up"]
      /\ puts' = puts + n /\ log' = log /\ snap' = snap /\ state' = state /\ crashes' = crashes
      /\ latest' = latest /\ lost' = lost /\ synced' = synced /\ scanned' = scanned
      /\ ignored' = ignored
  BY DEF Put, Ready, history
<1>2. Types /\ call.entries = <<>> /\ MaxPuts \in Nat /\ puts \in Nat
  BY <1>1, BoundsAssumption DEF IInv, StepRight, Types
<1>3. /\ n \in Nat /\ n > 0 /\ DOMAIN keys = 1..n /\ \A i \in 1..n : keys[i] \in Key
  <2>1. PICK m \in 1..MaxBatch : keys \in [1..m -> Key]
    BY DEF Batches
  <2>2. m \in Nat /\ m > 0
    BY <2>1, BoundsAssumption
  <2>3. keys \in Seq(Key) /\ DOMAIN keys = 1..m
    BY <2>1, <2>2, SeqDef
  <2>4. Len(keys) = m
    BY <2>2, <2>3
  <2> QED BY <2>1, <2>2, <2>4
<1>4. /\ Len(file) \in Nat /\ Len(file) <= puts /\ file \in Seq(Record) /\ DOMAIN file = 1..Len(file)
  BY <1>2, FileIs DEF Types
<1>5. /\ recs \in Seq(Record) /\ Len(recs) = n
      /\ \A i \in 1..n : recs[i].key = keys[i] /\ recs[i].cut = "none"
  <2>1. \A i \in 1..n : puts + i \in 1..MaxPuts
    BY <1>1, <1>2, <1>3
  <2>2. recs \in [1..n -> Record]
    BY <1>3, <2>1 DEF Record
  <2>3. recs \in Seq(Record) /\ DOMAIN recs = 1..n
    BY <1>3, <2>2, SeqDef
  <2>4. Len(recs) = n
    <3> HIDE DEF recs
    <3> QED BY <1>3, <2>3, LenProperties
  <2> QED BY <1>3, <2>3, <2>4
<1>6. /\ ents \in Seq(Entry) /\ Len(ents) = n
      /\ \A i \in 1..n : ents[i].key = keys[i] /\ ents[i].at = Len(file) + i
  <2>1. \A i \in 1..n : Len(file) + i \in Pointer
    BY <1>1, <1>2, <1>3, <1>4 DEF Pointer
  <2>2. ents \in [1..n -> Entry]
    BY <1>3, <2>1 DEF Entry
  <2>3. ents \in Seq(Entry) /\ DOMAIN ents = 1..n
    BY <1>3, <2>2, SeqDef
  <2>4. Len(ents) = n
    <3> HIDE DEF ents
    <3> QED BY <1>3, <2>3, LenProperties
  <2> QED BY <1>3, <2>3, <2>4
<1> HIDE DEF recs, ents, n
<1>7. file' = file \o recs
  BY <1>1 DEF file
<1>8. /\ file' \in Seq(Record) /\ Len(file') = Len(file) + n /\ DOMAIN file' = 1..Len(file) + n
      /\ \A i \in 1..Len(file) + n : file'[i] = IF i <= Len(file) THEN file[i] ELSE recs[i - Len(file)]
  <2>1. /\ file' \in Seq(Record) /\ Len(file') = Len(file) + n
        /\ \A i \in 1..Len(file) + n : file'[i] = IF i <= Len(file) THEN file[i] ELSE recs[i - Len(file)]
    BY <1>4, <1>5, <1>7, ConcatProperties
  <2> QED BY <2>1, LenProperties
<1>9. \A i \in 1..Len(file) : i \in DOMAIN file' /\ file'[i] = file[i]
  BY <1>3, <1>4, <1>8
<1>10. \A i \in 1..n :
         /\ Len(file) + i \in DOMAIN file'
         /\ file'[Len(file) + i].key = keys[i] /\ file'[Len(file) + i].cut = "none"
  <2> SUFFICES ASSUME NEW i \in 1..n
               PROVE  Len(file) + i \in DOMAIN file' /\ file'[Len(file) + i] = recs[i]
    BY <1>5
  <2>1. /\ Len(file) + i \in 1..Len(file) + n /\ ~(Len(file) + i <= Len(file))
        /\ (Len(file) + i) - Len(file) = i
    BY <1>3, <1>4
  <2> QED BY <1>8, <2>1
<1>11. \A j \in DOMAIN file' : j \in 1..Len(file) \/ \E i \in 1..n : j = Len(file) + i
  <2> SUFFICES ASSUME NEW j \in 1..Len(file) + n, j \notin 1..Len(file)
               PROVE  \E i \in 1..n : j = Len(file) + i
    BY <1>8
  <2>1. j - Len(file) \in 1..n /\ j = Len(file) + (j - Len(file))
    BY <1>3, <1>4
  <2> QED BY <2>1
<1>12. Caught' = Keys(ents) /\ Caught = {} /\ \A k : Disk(k)' = Disk(k)
  BY <1>1, <1>2, LastOfEmpty DEF Caught, Disk
<1>13. ASSUME NEW k \in Keys(ents)
       PROVE  /\ At(index', k) = LastOf(ents)[k] /\ Last(file', At(index', k), k)
              /\ file'[At(index', k)].cut = "none"
  <2>1. PICK i \in 1..n : /\ ents[i].key = k /\ LastOf(ents)[k] = ents[i].at
                          /\ \A j \in 1..n : ents[j].key = k => j <= i
    BY <1>6, LastOfIs
  <2>2. At(index', k) = LastOf(ents)[k]
    BY <1>1, AtOver, LastOfDomain
  <2>3. LastOf(ents)[k] = Len(file) + i /\ keys[i] = k
    BY <1>6, <2>1
  <2>4. ASSUME NEW j \in DOMAIN file', file'[j].key = k PROVE j <= Len(file) + i
    <3>1. CASE j \in 1..Len(file)
      BY <1>3, <1>4, <3>1
    <3>2. ASSUME NEW m \in 1..n, j = Len(file) + m PROVE j <= Len(file) + i
      <4>1. ents[m].key = k
        BY <1>6, <1>10, <2>4, <3>2
      <4>2. m <= i
        BY <2>1, <4>1
      <4> QED BY <1>3, <1>4, <3>2, <4>2
    <3> QED BY <1>11, <3>1, <3>2
  <2> QED BY <1>10, <2>2, <2>3, <2>4 DEF Last, Valid
<1>14. Types'
  <2>1. Calls' = Calls /\ Entry' = Entry /\ Record' = Record
    BY DEF Calls, Entry, Record, Pointer
  <2>2. IsIndex(index')
    BY <1>1, <1>2, <1>6, LastOfIndex, OverIndex DEF Types
  <2>3. call' \in Calls
    BY <1>1, <1>6 DEF Calls
  <2>4. Len(file') <= puts' /\ puts' \in 0..MaxPuts
    BY <1>1, <1>2, <1>3, <1>4, <1>8
  <2> QED BY <1>1, <1>2, <1>4, <1>5, <2>1, <2>2, <2>3, <2>4 DEF Types, IsIndex, Pointer
<1>15. StepRight'
  <2>1. call'.step \in {"fsync", "log"}
    BY <1>1
  <2>2. ~Tearing => \A j \in DOMAIN file' : file'[j].cut = "none"
    BY <1>4, <1>9, <1>10, <1>11 DEF IInv, StepRight
  <2> QED BY <1>1, <2>1, <2>2 DEF IInv, StepRight
<1>16. CaughtRight'
  BY <1>1, <1>12, <1>13 DEF CaughtRight
<1>17. ASSUME NEW k \in Key \ lost' PROVE KeyRight(k)'
  <2>1. KeyRight(k)
    BY <1>1 DEF IInv
  <2>2. CASE k \in Keys(ents)
    <3>1. Disk(k) # Null => Valid(file', Disk(k), k)
      BY <1>4, <1>9, <2>1 DEF KeyRight, PointsRight, Valid
    <3> QED BY <1>12, <1>13, <2>2, <3>1 DEF KeyRight, PointsRight, KnowsLatest, KnowsDeleted, Last
  <2>3. CASE k \notin Keys(ents)
    <3>1. At(index', k) = At(index, k)
      BY <1>1, <2>3, AtOver, LastOfDomain
    <3>2. \A i \in 1..n : keys[i] # k
      BY <1>6, <2>3, LenProperties DEF Keys
    <3>3. SameOf(file, file', k)
      BY <1>4, <1>9, <1>10, <1>11, <3>2 DEF SameOf
    <3> QED BY <1>1, <1>12, <2>1, <3>1, <3>3, SameKept DEF KeyRight, PointsRight, KnowsLatest, KnowsDeleted
  <2> QED BY <2>2, <2>3
<1> QED BY <1>14, <1>15, <1>16, <1>17 DEF IInv

LEMMA DeleteKeeps ==
  ASSUME IInv, NEW k \in Key, Delete(k)
  PROVE  IInv'
<1> DEFINE ents == <<[key |-> k, at |-> Null]>>
<1>1. /\ state = "up" /\ call.step = "idle" /\ k \in DOMAIN index
      /\ index' = [x \in DOMAIN index \ {k} |-> index[x]]
      /\ call' = [step |-> "log", entries |-> ents, then |-> "up"]
      /\ synced' = synced \ {k}
      /\ slab' = slab /\ buf' = buf /\ log' = log /\ snap' = snap /\ state' = state
      /\ puts' = puts /\ crashes' = crashes /\ latest' = latest /\ lost' = lost
      /\ scanned' = scanned /\ ignored' = ignored
  BY DEF Delete, Ready, files
<1>2. Types /\ call.entries = <<>> /\ file' = file
  BY <1>1 DEF IInv, StepRight, file
<1>3. ents \in Seq(Entry) /\ Len(ents) = 1 /\ ents[1].key = k /\ ents[1].at = Null
  <2>1. [key |-> k, at |-> Null] \in Entry
    BY BoundsAssumption DEF Entry, Pointer, Null
  <2> QED BY <2>1
<1> HIDE DEF ents
<1>4. Keys(ents) = {k} /\ LastOf(ents)[k] = Null
  <2>1. DOMAIN ents = 1..1
    BY <1>3, LenProperties
  <2>2. Keys(ents) = {k}
    BY <1>3, <2>1 DEF Keys
  <2>3. PICK i \in 1..1 : LastOf(ents)[k] = ents[i].at
    BY <1>3, <2>2, LastOfIs
  <2> QED BY <1>3, <2>2, <2>3
<1>5. Caught' = {k} /\ Caught = {} /\ \A x : Disk(x)' = Disk(x)
  BY <1>1, <1>2, <1>4, LastOfEmpty DEF Caught, Disk
<1>6. At(index', k) = Null /\ \A x : x # k => At(index', x) = At(index, x)
  BY <1>1 DEF At
<1>7. Types'
  <2>1. Calls' = Calls /\ Entry' = Entry /\ Record' = Record
    BY DEF Calls, Entry, Record, Pointer
  <2>2. IsIndex(index')
    BY <1>1, <1>2 DEF Types, IsIndex
  <2>3. call' \in Calls
    BY <1>1, <1>3 DEF Calls
  <2> QED BY <1>1, <1>2, <2>1, <2>2, <2>3 DEF Types, IsIndex, Pointer
<1>8. StepRight' /\ CaughtRight'
  BY <1>1, <1>2, <1>4, <1>5, <1>6 DEF IInv, StepRight, CaughtRight
<1>9. ASSUME NEW x \in Key \ lost' PROVE KeyRight(x)'
  <2>1. KeyRight(x)
    BY <1>1 DEF IInv
  <2> QED BY <1>1, <1>2, <1>5, <1>6, <2>1 DEF KeyRight, PointsRight, KnowsLatest, KnowsDeleted
<1> QED BY <1>7, <1>8, <1>9 DEF IInv

LEMMA AppendLogKeeps ==
  ASSUME IInv, AppendLog
  PROVE  IInv'
<1> DEFINE last == LastOf(call.entries)
<1>1. /\ call.step = "log"
      /\ log' = [there |-> TRUE, entries |-> log.entries \o call.entries]
      /\ call' = Idle /\ lost' = lost \ Caught
      /\ slab' = slab /\ buf' = buf /\ snap' = snap /\ index' = index /\ state' = state
      /\ puts' = puts /\ crashes' = crashes /\ synced' = synced
      /\ scanned' = scanned /\ ignored' = ignored
  BY DEF AppendLog, Caught
<1>2. latest' = [k \in Key |-> IF k \notin DOMAIN last THEN latest[k]
                               ELSE IF last[k] = Null THEN 0 ELSE file[last[k]].ver]
  BY DEF AppendLog, Acknowledged
<1>3. /\ Types /\ file' = file /\ call.entries \in Seq(Entry) /\ log.entries \in Seq(Entry)
      /\ state = "up"
  BY <1>1, IdleIs DEF IInv, StepRight, Types, Calls, file
<1>4. DOMAIN last = Caught /\ Caught \subseteq Key /\ Caught' = {}
  BY <1>1, <1>3, LastOfDomain, LastOfIndex, LastOfEmpty, IdleIs DEF Caught
<1>5. ASSUME NEW k \in Caught
      PROVE  /\ last[k] = At(index, k)
             /\ last[k] # Null => /\ Last(file, last[k], k) /\ file[last[k]].cut = "none"
                                  /\ file[last[k]].ver \in 1..MaxPuts
  <2>1. /\ last[k] = At(index, k)
        /\ last[k] # Null => Last(file, last[k], k) /\ file[last[k]].cut = "none"
    BY DEF IInv, CaughtRight
  <2>2. last[k] # Null => file[last[k]] \in Record
    BY <1>3, <2>1, FileIs DEF Last, Valid
  <2> QED BY <2>1, <2>2 DEF Record
<1> HIDE DEF last
<1>6. \A k : Disk(k)' = IF k \in Caught THEN last[k] ELSE Disk(k)
  <2>1. /\ Keys(log'.entries) = Keys(log.entries) \cup Caught
        /\ \A k \in Caught : LastOf(log'.entries)[k] = last[k]
        /\ \A k \in Keys(log.entries) \ Caught : LastOf(log'.entries)[k] = LastOf(log.entries)[k]
    BY <1>1, <1>3, LastOfAppended DEF Caught, last
  <2> QED BY <1>1, <2>1 DEF Disk, DiskOf
<1>7. Types'
  <2>1. Calls' = Calls /\ Entry' = Entry /\ Record' = Record
    BY DEF Calls, Entry, Record, Pointer
  <2>2. log' \in [there : BOOLEAN, entries : Seq(Entry)]
    BY <1>1, <1>3, ConcatProperties
  <2>3. latest' \in [Key -> 0..MaxPuts]
    <3>1. latest \in [Key -> 0..MaxPuts] /\ 0 \in 0..MaxPuts /\ \A v \in 1..MaxPuts : v \in 0..MaxPuts
      BY <1>3, BoundsAssumption DEF Types
    <3> QED BY <1>2, <1>4, <1>5, <3>1
  <2>4. call' \in Calls
    BY <1>1, IdleIs
  <2> QED BY <1>1, <1>3, <2>1, <2>2, <2>3, <2>4 DEF Types, IsIndex, Pointer
<1>8. StepRight'
  BY <1>1, <1>3, IdleIs DEF IInv, StepRight
<1>9. CaughtRight'
  BY <1>4 DEF CaughtRight
<1>10. ASSUME NEW k \in Key \ lost' PROVE KeyRight(k)'
  <2>1. CASE k \in Caught
    <3>1. Disk(k)' = last[k] /\ At(index', k) = last[k] /\ file' = file
      BY <1>1, <1>3, <1>5, <1>6, <2>1
    <3>2. latest'[k] = IF last[k] = Null THEN 0 ELSE file[last[k]].ver
      BY <1>2, <1>4, <2>1
    <3>3. /\ last[k] # Null => /\ Last(file, last[k], k) /\ file[last[k]].cut = "none"
                               /\ file[last[k]].ver # 0
      BY <1>5, <2>1
    <3> QED BY <3>1, <3>2, <3>3 DEF KeyRight, PointsRight, KnowsLatest, KnowsDeleted, Last, Newest
  <2>2. CASE k \notin Caught
    <3>1. KeyRight(k) /\ latest'[k] = latest[k] /\ Disk(k)' = Disk(k)
      BY <1>1, <1>2, <1>4, <1>6, <2>2 DEF IInv
    <3> QED BY <1>1, <1>3, <2>2, <3>1 DEF KeyRight, PointsRight, KnowsLatest, KnowsDeleted
  <2> QED BY <2>1, <2>2
<1> QED BY <1>7, <1>8, <1>9, <1>10 DEF IInv

LEMMA WriteSnapshotKeeps ==
  ASSUME IInv, WriteSnapshot
  PROVE  IInv'
<1>1. /\ call.step = "snapshot" /\ snap' = [there |-> TRUE, records |-> index]
      /\ call' = [call EXCEPT !.step = "remove"]
      /\ slab' = slab /\ buf' = buf /\ log' = log /\ index' = index /\ state' = state
      /\ puts' = puts /\ crashes' = crashes /\ latest' = latest /\ lost' = lost /\ synced' = synced
      /\ scanned' = scanned /\ ignored' = ignored
  BY DEF WriteSnapshot, history
<1>2. /\ Types /\ call.entries = <<>> /\ buf = <<>> /\ state = "up" /\ file' = file
  BY <1>1, IdleIs DEF IInv, StepRight, file
<1>3. call' \in Calls /\ call'.entries = <<>> /\ call'.step = "remove"
  BY <1>1, <1>2 DEF Types, Calls
<1>4. \A k : Disk(k)' = Disk(k) \/ Disk(k)' = At(index, k)
  BY <1>1 DEF Disk, DiskOf
<1>5. Caught = {} /\ Caught' = {}
  BY <1>2, <1>3, LastOfEmpty DEF Caught
<1>6. Types'
  <2>1. Calls' = Calls /\ Entry' = Entry /\ Record' = Record
    BY DEF Calls, Entry, Record, Pointer
  <2> QED BY <1>1, <1>2, <1>3, <2>1 DEF Types, IsIndex, Pointer
<1>7. StepRight'
  BY <1>1, <1>2, <1>3 DEF IInv, StepRight
<1>8. CaughtRight'
  BY <1>5 DEF CaughtRight
<1>9. ASSUME NEW k \in Key \ lost' PROVE KeyRight(k)'
  <2>1. KeyRight(k)
    BY <1>1 DEF IInv
  <2> QED BY <1>1, <1>2, <1>4, <1>5, <2>1 DEF KeyRight, PointsRight, KnowsLatest, KnowsDeleted
<1> QED BY <1>6, <1>7, <1>8, <1>9 DEF IInv

LEMMA RemoveLogKeeps ==
  ASSUME IInv, RemoveLog
  PROVE  IInv'
<1>1. /\ call.step = "remove" /\ log' = NoLog /\ call' = Idle /\ state' = call.then
      /\ index' = IF call.then = "up" THEN index ELSE Empty
      /\ synced' = {k \in Key : Get(k).found}
      /\ slab' = slab /\ buf' = buf /\ snap' = snap
      /\ puts' = puts /\ crashes' = crashes /\ latest' = latest /\ lost' = lost
      /\ scanned' = scanned /\ ignored' = ignored
  BY DEF RemoveLog
<1>2. /\ Types /\ call.entries = <<>> /\ buf = <<>> /\ state = "up" /\ file' = file
      /\ snap.records = index /\ call.then \in {"up", "down"}
  BY <1>1, IdleIs DEF IInv, StepRight, file, Types, Calls
<1>3. \A k : Disk(k)' = At(index, k)
  <2>1. log'.entries = <<>>
    BY <1>1 DEF NoLog
  <2> QED BY <1>1, <1>2, <2>1, LastOfEmpty DEF Disk, DiskOf
<1>4. Caught = {} /\ Caught' = {}
  BY <1>1, <1>2, LastOfEmpty, IdleIs DEF Caught
<1>5. \A k : At(index', k) = IF call.then = "up" THEN At(index, k) ELSE Null
  BY <1>1, EmptyIndex
<1>6. Types'
  <2>1. Calls' = Calls /\ Entry' = Entry /\ Record' = Record
    BY DEF Calls, Entry, Record, Pointer
  <2>2. IsIndex(index') /\ log' \in [there : BOOLEAN, entries : Seq(Entry)] /\ call' \in Calls
    BY <1>1, <1>2, EmptyIndex, EmptySeq, IdleIs DEF Types, NoLog
  <2> QED BY <1>1, <1>2, <2>1, <2>2 DEF Types, IsIndex, Pointer
<1>7. StepRight'
  BY <1>1, <1>2, IdleIs DEF IInv, StepRight, NoLog
<1>8. CaughtRight'
  BY <1>4 DEF CaughtRight
<1>9. ASSUME NEW k \in Key \ lost' PROVE KeyRight(k)'
  <2>1. KeyRight(k)
    BY <1>1 DEF IInv
  <2> QED BY <1>1, <1>2, <1>3, <1>4, <1>5, <2>1 DEF KeyRight, PointsRight, KnowsLatest, KnowsDeleted
<1> QED BY <1>6, <1>7, <1>8, <1>9 DEF IInv

LEMMA Beyond ==
  \A a, b \in Nat : \A n \in 0..b : \A j \in 1..a + b :
    j \notin 1..a + n =>
      /\ j - (a + n) \in 1..b - n /\ n + (j - (a + n)) \in 1..b
      /\ a + (n + (j - (a + n))) = j
OBVIOUS

(* What a crash leaves of the slab: all that was flushed, n records of the buffer, and      *)
(* perhaps a part of the next.                                                   *)
LEMMA CrashFile ==
  ASSUME Types, NEW n \in 0..MaxBatch, NEW cut \in {"none", "header", "payload"}, Crash(n, cut)
  PROVE  /\ file' \in Seq(Record) /\ slab' = file' /\ Len(file') <= Len(file)
         /\ Keys(SubSeq(buf, n + 1, Len(buf))) \subseteq Key
         /\ \A k : k \notin Keys(SubSeq(buf, n + 1, Len(buf))) => SameOf(file, file', k)
         /\ ~Tearing => \A i \in DOMAIN file' : i \in DOMAIN file /\ file'[i] = file[i]
<1> DEFINE pre  == SubSeq(buf, 1, n)
           gone == SubSeq(buf, n + 1, Len(buf))
           torn == [buf[n + 1] EXCEPT !.cut = cut]
           part == IF cut = "none" THEN <<>> ELSE <<torn>>
           kept == slab \o pre
<1>1. /\ n <= Len(buf) /\ (cut = "none" \/ (Tearing /\ n < Len(buf)))
      /\ slab' = kept \o part /\ buf' = <<>>
  BY DEF Crash
<1>2. /\ n \in Nat /\ buf \in Seq(Record) /\ slab \in Seq(Record)
      /\ Len(buf) \in Nat /\ Len(slab) \in Nat /\ DOMAIN buf = 1..Len(buf)
      /\ Len(file) = Len(slab) + Len(buf) /\ DOMAIN file = 1..Len(file)
      /\ \A i \in 1..Len(buf) : buf[i] \in Record
      /\ \A i \in 1..Len(slab) : file[i] = slab[i]
      /\ \A i \in 1..Len(buf) : file[Len(slab) + i] = buf[i]
  BY FileIs, BoundsAssumption, ElementOfSeq DEF Types
<1>3. pre \in Seq(Record) /\ Len(pre) = n /\ \A i \in 1..n : pre[i] = buf[i]
  <2>1. \A i \in 1..n : buf[i] \in Record
    BY <1>1, <1>2
  <2>2. /\ pre \in Seq(Record) /\ Len(pre) = IF 1 <= n THEN n - 1 + 1 ELSE 0
        /\ \A i \in 1..n - 1 + 1 : pre[i] = buf[1 + i - 1]
    BY <1>2, <2>1, SubSeqProperties
  <2> QED BY <1>2, <2>2
<1>4. /\ gone \in Seq(Record) /\ Len(gone) = Len(buf) - n
      /\ \A i \in 1..Len(buf) - n : gone[i] = buf[n + i]
  <2>1. \A i \in (n + 1)..Len(buf) : buf[i] \in Record
    BY <1>1, <1>2
  <2>2. /\ gone \in Seq(Record) /\ Len(gone) = IF n + 1 <= Len(buf) THEN Len(buf) - (n + 1) + 1 ELSE 0
        /\ \A i \in 1..Len(buf) - (n + 1) + 1 : gone[i] = buf[n + 1 + i - 1]
    BY <1>2, <2>1, SubSeqProperties
  <2> HIDE DEF gone
  <2>3. Len(gone) = Len(buf) - n
    <3>1. n <= Len(buf) /\ n \in Nat /\ Len(buf) \in Nat
      BY <1>1, <1>2
    <3>2. Len(gone) = IF n + 1 <= Len(buf) THEN Len(buf) - (n + 1) + 1 ELSE 0
      BY ONLY <2>2, Zenon
    <3> QED BY ONLY <3>1, <3>2
  <2>4. ASSUME NEW i \in 1..Len(buf) - n PROVE gone[i] = buf[n + i]
    <3>1. i \in 1..Len(buf) - (n + 1) + 1
      <4>1. Len(buf) - (n + 1) + 1 = Len(buf) - n
        BY <1>2
      <4> QED BY <4>1
    <3>2. gone[i] = buf[n + 1 + i - 1]
      BY <2>2, <3>1, Zenon
    <3>3. n + 1 + i - 1 = n + i
      <4>1. n \in Nat /\ i \in Nat
        BY <1>2
      <4> QED BY ONLY <4>1
    <3> QED BY <3>2, <3>3
  <2> QED BY <2>2, <2>3, <2>4
<1>5. /\ part \in Seq(Record) /\ Len(part) = IF cut = "none" THEN 0 ELSE 1
      /\ cut # "none" => part[1].key = buf[n + 1].key
  <2>1. CASE cut = "none"
    BY <2>1, EmptySeq
  <2>2. CASE cut # "none"
    <3>1. buf[n + 1] \in Record
      <4>1. n < Len(buf) /\ n \in Nat /\ Len(buf) \in Nat
        BY <1>1, <1>2, <2>2
      <4>2. n + 1 \in 1..Len(buf)
        BY ONLY <4>1
      <4> QED BY <1>2, <4>2
    <3>2. torn \in Record /\ torn.key = buf[n + 1].key
      BY <3>1 DEF Record
    <3>3. part = <<torn>>
      BY <2>2
    <3> HIDE DEF torn, part
    <3>4. <<torn>> \in Seq(Record) /\ Len(<<torn>>) = 1 /\ <<torn>>[1] = torn
      BY ONLY <3>2
    <3> QED BY <2>2, <3>2, <3>3, <3>4
  <2> QED BY <2>1, <2>2
<1> HIDE DEF pre, gone, part, kept
<1>6. PICK m \in Nat : m = Len(slab) + n
  BY <1>2
<1>7. kept \in Seq(Record) /\ Len(kept) = m /\ \A i \in 1..m : kept[i] = file[i]
  <2> slab \in Seq(Record) /\ pre \in Seq(Record)
    BY <1>2, <1>3
  <2>1. /\ slab \o pre \in Seq(Record) /\ Len(slab \o pre) = Len(slab) + Len(pre)
        /\ \A i \in 1..Len(slab) + Len(pre) :
             (slab \o pre)[i] = IF i <= Len(slab) THEN slab[i] ELSE pre[i - Len(slab)]
    BY ConcatProperties
  <2>2. /\ kept \in Seq(Record) /\ Len(kept) = m
        /\ \A i \in 1..m : kept[i] = IF i <= Len(slab) THEN slab[i] ELSE pre[i - Len(slab)]
    BY <1>3, <1>6, <2>1 DEF kept
  <2>3. ASSUME NEW i \in 1..m PROVE kept[i] = file[i]
    <3>1. CASE i <= Len(slab)
      <4>1. i \in 1..Len(slab)
        BY <1>2, <3>1
      <4> QED BY <1>2, <2>2, <3>1, <4>1
    <3>2. CASE ~(i <= Len(slab))
      <4>1. i - Len(slab) \in 1..n /\ i - Len(slab) \in 1..Len(buf) /\ Len(slab) + (i - Len(slab)) = i
        BY <1>1, <1>2, <1>6, <3>2
      <4>2. file[Len(slab) + (i - Len(slab))] = buf[i - Len(slab)]
        BY <1>2, <4>1
      <4> QED BY <1>3, <2>2, <3>2, <4>1, <4>2
    <3> QED BY <3>1, <3>2
  <2> QED BY <2>2, <2>3
<1>8. /\ slab' \in Seq(Record) /\ Len(slab') = m + Len(part) /\ DOMAIN slab' = 1..Len(slab')
      /\ \A i \in 1..m + Len(part) : slab'[i] = IF i <= m THEN kept[i] ELSE part[i - m]
  <2>1. /\ kept \o part \in Seq(Record) /\ Len(kept \o part) = Len(kept) + Len(part)
        /\ \A i \in 1..Len(kept) + Len(part) :
             (kept \o part)[i] = IF i <= Len(kept) THEN kept[i] ELSE part[i - Len(kept)]
    BY <1>5, <1>7, ConcatProperties
  <2>2. /\ slab' \in Seq(Record) /\ Len(slab') = m + Len(part)
        /\ \A i \in 1..m + Len(part) : slab'[i] = IF i <= m THEN kept[i] ELSE part[i - m]
    BY <1>1, <1>7, <2>1
  <2> QED BY <2>2, LenProperties
<1>9. file' = slab'
  BY <1>1, <1>8, ConcatEmptySeq DEF file
<1>10. Len(part) \in Nat /\ m <= Len(file) /\ m + Len(part) <= Len(file)
  BY <1>1, <1>2, <1>5, <1>6
<1>11. ASSUME NEW i \in 1..m
       PROVE  i \in DOMAIN file /\ i \in DOMAIN file' /\ file'[i] = file[i]
  <2>1. i \in 1..Len(file) /\ i \in 1..m + Len(part) /\ i <= m
    BY <1>2, <1>10
  <2> QED BY <1>2, <1>7, <1>8, <1>9, <2>1
<1>12. ASSUME NEW j \in DOMAIN file', j \notin 1..m
       PROVE  cut # "none" /\ file'[j].key = buf[n + 1].key
  <2>1. cut # "none" /\ j - m = 1 /\ ~(j <= m) /\ j \in 1..m + Len(part)
    BY <1>5, <1>8, <1>9, <1>12
  <2>2. file'[j] = part[j - m]
    BY <1>8, <1>9, <2>1
  <2> QED BY <1>5, <2>1, <2>2
<1>13. ASSUME NEW j \in DOMAIN file, j \notin 1..m PROVE file[j].key \in Keys(gone)
  <2> DEFINE i == j - (Len(slab) + n)
  <2>1. /\ j \in 1..Len(slab) + Len(buf) /\ j \notin 1..Len(slab) + n /\ n \in 0..Len(buf)
        /\ Len(slab) \in Nat /\ Len(buf) \in Nat
    BY <1>1, <1>2, <1>6, <1>13
  <2>2. i \in 1..Len(buf) - n /\ n + i \in 1..Len(buf) /\ Len(slab) + (n + i) = j
    <3>1. \A x \in 0..Len(buf) : \A y \in 1..Len(slab) + Len(buf) :
            y \notin 1..Len(slab) + x =>
              /\ y - (Len(slab) + x) \in 1..Len(buf) - x /\ x + (y - (Len(slab) + x)) \in 1..Len(buf)
              /\ Len(slab) + (x + (y - (Len(slab) + x))) = y
      BY <2>1, Beyond, Zenon
    <3> QED BY <2>1, <3>1, Zenon
  <2> HIDE DEF i
  <2>3. file[Len(slab) + (n + i)] = buf[n + i] /\ gone[i] = buf[n + i]
    BY <1>2, <1>4, <2>2
  <2>4. i \in DOMAIN gone
    BY <1>4, <2>2, LenProperties
  <2> QED BY <2>2, <2>3, <2>4 DEF Keys
<1>14. cut # "none" => buf[n + 1].key \in Keys(gone)
  <2> SUFFICES ASSUME cut # "none" PROVE buf[n + 1].key \in Keys(gone)
    OBVIOUS
  <2>1. 1 \in 1..Len(buf) - n
    BY <1>1, <1>2
  <2>2. gone[1] = buf[n + 1] /\ 1 \in DOMAIN gone
    BY <1>4, <2>1, LenProperties
  <2> QED BY <2>2 DEF Keys
<1>15. Keys(gone) \subseteq Key
  <2>1. \A i \in DOMAIN gone : gone[i] \in Record
    BY <1>4, LenProperties, ElementOfSeq
  <2> QED BY <2>1 DEF Keys, Record
<1>16. \A k : k \notin Keys(gone) => SameOf(file, file', k)
  BY <1>11, <1>12, <1>13, <1>14 DEF SameOf
<1>17. Len(file') <= Len(file)
  BY <1>8, <1>9, <1>10
<1>18. ~Tearing => \A i \in DOMAIN file' : i \in DOMAIN file /\ file'[i] = file[i]
  BY <1>1, <1>11, <1>12
<1> QED BY <1>8, <1>9, <1>15, <1>16, <1>17, <1>18 DEF gone

LEMMA CrashKeeps ==
  ASSUME IInv, NEW n \in 0..MaxBatch, NEW cut \in {"none", "header", "payload"}, Crash(n, cut)
  PROVE  IInv'
<1> DEFINE gone == Keys(SubSeq(buf, n + 1, Len(buf)))
<1>1. /\ state = "up" /\ crashes < MaxCrashes /\ crashes' = crashes + 1
      /\ buf' = <<>> /\ index' = Empty /\ call' = Idle /\ state' = "down"
      /\ lost' = lost \cup gone \cup Caught
      /\ log' = log /\ snap' = snap /\ puts' = puts /\ latest' = latest /\ synced' = synced
      /\ scanned' = scanned /\ ignored' = ignored
  BY DEF Crash, Caught
<1>2. Types
  BY DEF IInv
<1>3. /\ file' \in Seq(Record) /\ slab' = file' /\ Len(file') <= Len(file) /\ gone \subseteq Key
      /\ \A k : k \notin gone => SameOf(file, file', k)
      /\ ~Tearing => \A i \in DOMAIN file' : i \in DOMAIN file /\ file'[i] = file[i]
  BY <1>2, CrashFile
<1> HIDE DEF gone
<1>4. Caught' = {} /\ Caught \subseteq Key /\ \A k : Disk(k)' = Disk(k)
  BY <1>1, <1>2, LastOfEmpty, LastOfIndex, IdleIs DEF Caught, Disk, Types, Calls
<1>5. \A k : At(index', k) = Null
  BY <1>1, EmptyIndex
<1>6. Types'
  <2>1. Calls' = Calls /\ Entry' = Entry /\ Record' = Record
    BY DEF Calls, Entry, Record, Pointer
  <2>2. slab' \in Seq(Record) /\ buf' \in Seq(Record) /\ IsIndex(index') /\ call' \in Calls
    BY <1>1, <1>3, EmptySeq, EmptyIndex, IdleIs
  <2>3. Len(file') <= puts' /\ crashes' \in 0..MaxCrashes /\ lost' \subseteq Key
    <3>1. Len(file) \in Nat /\ Len(file') \in Nat
      BY <1>2, <1>3, FileIs, LenProperties
    <3> QED BY <1>1, <1>2, <1>3, <1>4, <3>1, BoundsAssumption DEF Types
  <2> QED BY <1>1, <1>2, <2>1, <2>2, <2>3 DEF Types, IsIndex, Pointer
<1>7. StepRight'
  BY <1>1, <1>3, IdleIs DEF IInv, StepRight
<1>8. CaughtRight'
  BY <1>4 DEF CaughtRight
<1>9. ASSUME NEW k \in Key \ lost' PROVE KeyRight(k)'
  <2>1. KeyRight(k) /\ k \notin Caught /\ SameOf(file, file', k)
    BY <1>1, <1>3 DEF IInv
  <2> QED BY <1>1, <1>4, <1>5, <2>1, SameKept DEF KeyRight, PointsRight, KnowsLatest, KnowsDeleted
<1> QED BY <1>6, <1>7, <1>8, <1>9 DEF IInv

-----------------------------------------------------------------------------
(* Opening.                                                                    *)

LEMMA RefuseKeeps == ASSUME IInv, state # "up", Refuse PROVE IInv'
<1>1. /\ slab' = slab /\ buf' = buf /\ log' = log /\ snap' = snap /\ index' = index /\ call' = call
      /\ puts' = puts /\ crashes' = crashes /\ latest' = latest /\ lost' = lost /\ synced' = synced
      /\ scanned' = scanned /\ ignored' = ignored /\ state' = "refused"
  BY DEF Refuse, files, history
<1>2. /\ file' = file /\ Caught' = Caught /\ Calls' = Calls /\ Entry' = Entry /\ Record' = Record
      /\ \A k : Disk(k)' = Disk(k)
  BY <1>1 DEF file, Caught, Disk, Calls, Entry, Record, Pointer
<1>3. Types'
  BY <1>1, <1>2 DEF IInv, Types, IsIndex, Pointer
<1>4. StepRight' /\ CaughtRight'
  BY <1>1, <1>2 DEF IInv, StepRight, CaughtRight
<1>5. \A k \in Key \ lost' : KeyRight(k)'
  BY <1>1, <1>2 DEF IInv, KeyRight, PointsRight, KnowsLatest, KnowsDeleted
<1> QED BY <1>3, <1>4, <1>5 DEF IInv

(* The scan finds, for each key, a record of the slab, and the last one when none is cut. *)
LEMMA ScanIs ==
  ASSUME Types, file = slab
  PROVE  /\ IsIndex(ScanIndex)
         /\ \A k \in DOMAIN ScanIndex : Valid(slab, ScanIndex[k], k)
         /\ (\A i \in DOMAIN slab : slab[i].cut = "none") =>
               \A k, i : Last(slab, i, k) => At(ScanIndex, k) = i
<1>1. /\ slab \in Seq(Record) /\ Len(slab) \in Nat /\ DOMAIN slab = 1..Len(slab)
      /\ \A i \in 1..Len(slab) : slab[i] \in Record
  BY FileIs
<1>2. Len(slab) <= MaxPuts /\ MaxPuts \in Nat
  BY <1>1, BoundsAssumption DEF Types
<1>3. Reach \in 0..Len(slab)
  <2>1. CASE CutBeforeEnd = {}
    BY <1>1, <2>1 DEF Reach
  <2>2. CASE CutBeforeEnd # {}
    <3> DEFINE P(i) == \A j \in CutBeforeEnd : i <= j
    <3>1. CutBeforeEnd \in SUBSET Nat /\ CutBeforeEnd \subseteq 1..Len(slab)
      BY <1>1 DEF CutBeforeEnd
    <3>2. \E i \in CutBeforeEnd : P(i)
      BY <2>2, <3>1, Least
    <3>3. Reach = CHOOSE i \in CutBeforeEnd : P(i)
      BY <2>2 DEF Reach
    <3> HIDE DEF P
    <3>4. Reach \in CutBeforeEnd
      BY <3>2, <3>3
    <3> QED BY <1>1, <3>1, <3>4
  <2> QED BY <2>1, <2>2
<1>4. (\A i \in DOMAIN slab : slab[i].cut = "none") => Reach = Len(slab)
  BY DEF Reach, CutBeforeEnd
<1> DEFINE es == Positions(Reach)
<1>5. /\ es \in Seq(Entry) /\ Len(es) = Reach /\ DOMAIN es = 1..Reach
      /\ \A i \in 1..Reach : i \in 1..Len(slab) /\ es[i].key = slab[i].key /\ es[i].at = i
  <2>1. \A i \in 1..Reach : i \in 1..Len(slab) /\ i \in Pointer
    BY <1>1, <1>2, <1>3 DEF Pointer
  <2>2. es \in [1..Reach -> Entry]
    BY <1>1, <2>1 DEF Positions, Entry, Record
  <2>3. Reach \in Nat /\ es \in Seq(Entry) /\ DOMAIN es = 1..Reach
    BY <1>1, <1>3, <2>2, SeqDef
  <2>4. Len(es) = Reach
    <3> HIDE DEF es
    <3> QED BY <2>3, LenProperties
  <2> QED BY <2>1, <2>3, <2>4 DEF Positions
<1> HIDE DEF es
<1>6. ScanIndex = LastOf(es)
  BY DEF ScanIndex, es
<1>7. IsIndex(ScanIndex) /\ DOMAIN ScanIndex = Keys(es)
  BY <1>5, <1>6, LastOfIndex, LastOfDomain
<1>8. ASSUME NEW k \in DOMAIN ScanIndex PROVE Valid(slab, ScanIndex[k], k)
  <2>1. PICK i \in 1..Len(es) : es[i].key = k /\ LastOf(es)[k] = es[i].at
    BY <1>5, <1>7, LastOfIs
  <2> QED BY <1>1, <1>5, <1>6, <2>1 DEF Valid
<1>9. ASSUME \A i \in DOMAIN slab : slab[i].cut = "none", NEW k, NEW i, Last(slab, i, k)
      PROVE  At(ScanIndex, k) = i
  <2>1. Reach = Len(slab)
    BY <1>4, <1>9
  <2>2. /\ i \in 1..Len(es) /\ es[i].key = k /\ es[i].at = i
        /\ \A j \in 1..Len(es) : es[j].key = es[i].key => j <= i
    BY <1>1, <1>5, <1>9, <2>1 DEF Last, Valid
  <2>3. k \in Keys(es) /\ LastOf(es)[k] = i
    BY <1>5, <2>2, LastOfUnique
  <2> QED BY <1>6, <1>7, <2>3 DEF At
<1> QED BY <1>7, <1>8, <1>9

LEMMA ScanKeeps ==
  ASSUME IInv, state # "up", NEW write \in BOOLEAN, OpenByScan(write)
  PROVE  IInv'
<1>1. CASE Refuse
  BY <1>1, RefuseKeeps
<1>2. CASE ~Refuse
  <2>1. /\ index' = ScanIndex /\ scanned' = (scanned \/ slab # <<>>) /\ state' = "up"
        /\ call' = IF write /\ ScanIndex # Empty THEN [Idle EXCEPT !.step = "snapshot"] ELSE Idle
        /\ slab' = slab /\ buf' = buf /\ log' = log /\ snap' = snap
        /\ puts' = puts /\ crashes' = crashes /\ latest' = latest /\ lost' = lost
        /\ synced' = synced /\ ignored' = ignored
    BY <1>2 DEF OpenByScan, files
  <2>2. Types /\ buf = <<>> /\ file' = file /\ call = Idle
    BY <2>1 DEF IInv, StepRight, file
  <2>3. file = slab /\ DOMAIN slab = 1..Len(slab) /\ Len(slab) \in Nat
    BY <2>2, FileIs
  <2>4. call' \in Calls /\ call'.entries = <<>> /\ call'.step \in {"idle", "snapshot"}
    BY <2>1, IdleIs DEF Idle, Calls
  <2>5. Caught' = {} /\ Caught = {} /\ \A k : Disk(k)' = Disk(k)
    BY <2>1, <2>2, <2>4, IdleIs, LastOfEmpty DEF Caught, Disk
  <2>6. IsIndex(ScanIndex) /\ \A k \in DOMAIN ScanIndex : Valid(slab, ScanIndex[k], k)
    BY <2>2, <2>3, ScanIs
  <2>7. Types'
    <3>1. Calls' = Calls /\ Entry' = Entry /\ Record' = Record
      BY DEF Calls, Entry, Record, Pointer
    <3>2. IsIndex(index') /\ scanned' \in BOOLEAN
      BY <2>1, <2>2, <2>6 DEF Types
    <3> QED BY <2>1, <2>2, <2>4, <3>1, <3>2 DEF Types, IsIndex, Pointer
  <2>8. StepRight' /\ CaughtRight'
    BY <2>1, <2>2, <2>4, <2>5 DEF IInv, StepRight, CaughtRight
  <2>9. ASSUME NEW k \in Key \ lost' PROVE KeyRight(k)'
    <3>1. KeyRight(k)
      BY <2>1 DEF IInv
    <3>2. At(index', k) # Null => Valid(file, At(index', k), k)
      BY <2>1, <2>3, <2>6 DEF At
    <3>3. PointsRight(k)'
      BY <2>2, <2>5, <3>1, <3>2 DEF KeyRight, PointsRight
    <3>4. slab = <<>> => \A i : ~Valid(file, i, k)
      BY <2>3 DEF Valid
    <3>5. KnowsLatest(k)'
      <4> SUFFICES ASSUME ~ignored, ~(Tearing /\ scanned'), latest[k] # 0
                   PROVE  Newest(file, Disk(k), k, latest[k]) /\ At(index', k) = Disk(k)
        BY <2>1, <2>2, <2>5 DEF KnowsLatest
      <4>1. Newest(file, Disk(k), k, latest[k])
        BY <2>1, <2>5, <3>1 DEF KeyRight, KnowsLatest
      <4>2. Last(slab, Disk(k), k)
        BY <2>3, <4>1 DEF Newest
      <4>3. \A i \in DOMAIN slab : slab[i].cut = "none"
        BY <2>1, <2>3, <3>4, <4>2 DEF IInv, StepRight, Last
      <4> QED BY <2>1, <2>2, <2>3, <4>1, <4>2, <4>3, ScanIs
    <3>6. KnowsDeleted(k)'
      BY <2>1, <2>2, <2>5, <3>1, <3>2, <3>4 DEF KeyRight, KnowsDeleted
    <3> QED BY <3>3, <3>5, <3>6 DEF KeyRight
  <2> QED BY <2>7, <2>8, <2>9 DEF IInv
<1> QED BY <1>1, <1>2

(* An open that believes the log and the snapshot, or one of them.                     *)
LEMMA LoadKeeps ==
  ASSUME IInv, state # "up", NEW loaded, IsIndex(loaded), OpenWith(loaded),
         \A k : At(loaded, k) = Disk(k) \/ At(loaded, k) = Null,
         (snap.there => loaded = Over(snap.records, loaded)) => \A k : At(loaded, k) = Disk(k)
  PROVE  IInv'
<1>1. CASE loaded = Empty /\ slab # <<>>
  BY <1>1, ScanKeeps DEF OpenWith
<1>2. CASE ~(loaded = Empty /\ slab # <<>>)
  <2>1. /\ index' = loaded /\ state' = "up"
        /\ ignored' = (ignored \/ (snap.there /\ loaded # Over(snap.records, loaded)))
        /\ slab' = slab /\ buf' = buf /\ log' = log /\ snap' = snap /\ call' = call
        /\ puts' = puts /\ crashes' = crashes /\ latest' = latest /\ lost' = lost
        /\ synced' = synced /\ scanned' = scanned
    BY <1>2 DEF OpenWith, files
  <2>2. /\ Types /\ call.step = "idle" /\ call.entries = <<>>
    BY IdleIs DEF IInv, StepRight
  <2>3. file' = file /\ Caught' = Caught /\ Caught = {} /\ \A k : Disk(k)' = Disk(k)
    BY <2>1, <2>2, LastOfEmpty DEF file, Caught, Disk
  <2>4. Types'
    <3>1. Calls' = Calls /\ Entry' = Entry /\ Record' = Record
      BY DEF Calls, Entry, Record, Pointer
    <3>2. ignored' \in BOOLEAN
      BY <2>1, <2>2 DEF Types
    <3> QED BY <2>1, <2>2, <2>3, <3>1, <3>2 DEF Types, IsIndex, Pointer
  <2>5. StepRight' /\ CaughtRight'
    BY <2>1, <2>2, <2>3 DEF IInv, StepRight, CaughtRight
  <2>6. ~ignored' => ~ignored /\ \A k : At(loaded, k) = Disk(k)
    BY <2>1
  <2>7. ASSUME NEW k \in Key \ lost' PROVE KeyRight(k)'
    <3>1. KeyRight(k) /\ (At(loaded, k) = Disk(k) \/ At(loaded, k) = Null)
      BY <2>1 DEF IInv
    <3>2. PointsRight(k)' /\ KnowsDeleted(k)'
      BY <2>1, <2>3, <3>1 DEF KeyRight, PointsRight, KnowsDeleted
    <3>3. KnowsLatest(k)'
      BY <2>1, <2>3, <2>6, <3>1 DEF KeyRight, KnowsLatest
    <3> QED BY <3>2, <3>3 DEF KeyRight
  <2> QED BY <2>4, <2>5, <2>7 DEF IInv
<1> QED BY <1>1, <1>2

LEMMA OpenKeeps == ASSUME IInv, Open PROVE IInv'
<1> DEFINE replayed == LastOf(log.entries)
<1>1. state # "up" /\ Types /\ (~log.there => log.entries = <<>>) /\ (~snap.there => snap.records = Empty)
  BY DEF Open, IInv, StepRight
<1>2. log.entries \in Seq(Entry) /\ DOMAIN replayed = Keys(log.entries) /\ IsIndex(replayed)
  BY <1>1, LastOfDomain, LastOfIndex DEF Types
<1>3. \A k : Disk(k) = IF k \in DOMAIN replayed THEN replayed[k] ELSE At(snap.records, k)
  BY <1>2 DEF Disk, DiskOf
<1> HIDE DEF replayed
<1>4. \A f : LoadIndex(f) = Over(f, replayed)
  BY DEF LoadIndex, replayed
<1>5. CASE SnapshotRaises /\ Refuse
  BY <1>1, <1>5, RefuseKeeps
<1>6. CASE SnapshotLoaded /\ ~log.there /\ OpenWith(snap.records)
  <2>1. IsIndex(snap.records) /\ \A k : At(snap.records, k) = Disk(k)
    BY <1>1, <1>2, <1>3, <1>6, LastOfEmpty DEF Types
  <2> QED BY <1>1, <1>6, <2>1, LoadKeeps
<1>7. CASE SnapshotLoaded /\ log.there /\ OpenWith(LoadIndex(snap.records))
  <2>1. PICK loaded : loaded = Over(snap.records, replayed)
    OBVIOUS
  <2>2. IsIndex(loaded) /\ OpenWith(loaded) /\ \A k : At(loaded, k) = Disk(k)
    BY <1>1, <1>2, <1>3, <1>4, <1>7, <2>1, OverIndex, AtOver DEF Types
  <2> QED BY <1>1, <2>2, LoadKeeps
<1>8. CASE SnapshotIgnored /\ log.there /\ OpenWith(LoadIndex(Empty))
  <2>1. PICK loaded : loaded = Over(Empty, replayed)
    OBVIOUS
  <2>2. IsIndex(loaded) /\ OpenWith(loaded)
    BY <1>2, <1>4, <1>8, <2>1, OverIndex, EmptyIndex
  <2>3. /\ DOMAIN loaded = DOMAIN replayed
        /\ \A k : At(loaded, k) = IF k \in DOMAIN replayed THEN replayed[k] ELSE Null
    BY <2>1, AtOver, EmptyIndex DEF Over, Empty
  <2>4. ASSUME snap.there => loaded = Over(snap.records, loaded), NEW k
        PROVE  At(loaded, k) = Disk(k)
    <3>1. CASE ~snap.there
      BY <1>1, <1>3, <2>3, <3>1, EmptyIndex
    <3>2. CASE snap.there /\ k \notin DOMAIN replayed
      BY <1>3, <2>3, <2>4, <3>2, AtOver
    <3>3. CASE k \in DOMAIN replayed
      BY <1>3, <2>3, <3>3
    <3> QED BY <3>1, <3>2, <3>3
  <2>5. \A k : At(loaded, k) = Disk(k) \/ At(loaded, k) = Null
    BY <1>3, <2>3
  <2> QED BY <1>1, <2>2, <2>4, <2>5, LoadKeeps
<1>9. CASE SnapshotIgnored /\ ~log.there /\ OpenByScan(FALSE)
  BY <1>1, <1>9, ScanKeeps
<1> QED BY <1>5, <1>6, <1>7, <1>8, <1>9 DEF Open

-----------------------------------------------------------------------------
(* The invariant.                                                               *)

LEMMA Initially == ASSUME Init PROVE IInv
<1>1. file = <<>> /\ Caught = {} /\ \A k : Disk(k) = Null /\ At(index, k) = Null
  <2>1. snap.records = Empty /\ index = Empty /\ log.entries = <<>> /\ call.entries = <<>>
    BY IdleIs DEF Init, NoLog
  <2>2. slab = <<>> /\ buf = <<>>
    BY DEF Init
  <2>3. <<>> \o <<>> = <<>>
    BY EmptySeq, ConcatEmptySeq
  <2> QED BY <2>1, <2>2, <2>3, EmptyIndex, LastOfEmpty DEF file, Caught, Disk, DiskOf
<1>2. Types
  <2>1. /\ slab = <<>> /\ buf = <<>> /\ <<>> \in Seq(Record) /\ <<>> \in Seq(Entry)
        /\ Len(<<>>) = 0 /\ 0 \in 0..MaxPuts /\ 0 \in 0..MaxCrashes
    BY EmptySeq, BoundsAssumption DEF Init
  <2>2. log \in [there : BOOLEAN, entries : Seq(Entry)] /\ call \in Calls
    BY <2>1, IdleIs DEF Init, NoLog
  <2>3. latest \in [Key -> 0..MaxPuts]
    BY <2>1 DEF Init
  <2>4. slab \in Seq(Record) /\ buf \in Seq(Record) /\ Len(file) <= puts
    BY <1>1, <2>1 DEF Init
  <2>5. snap.there \in BOOLEAN /\ IsIndex(snap.records) /\ IsIndex(index)
    BY EmptyIndex DEF Init
  <2> QED BY <2>1, <2>2, <2>3, <2>4, <2>5 DEF Init, Types
<1>3. StepRight /\ CaughtRight
  BY <1>1, IdleIs DEF Init, StepRight, CaughtRight, NoLog
<1>4. \A k \in Key : KeyRight(k)
  BY <1>1 DEF Init, KeyRight, PointsRight, KnowsLatest, KnowsDeleted
<1> QED BY <1>2, <1>3, <1>4 DEF IInv

LEMMA Unchanged == ASSUME IInv, UNCHANGED vars PROVE IInv'
<1>1. /\ slab' = slab /\ buf' = buf /\ log' = log /\ snap' = snap /\ index' = index /\ call' = call
      /\ puts' = puts /\ crashes' = crashes /\ latest' = latest /\ lost' = lost /\ synced' = synced
      /\ scanned' = scanned /\ ignored' = ignored /\ state' = state
  BY DEF vars
<1>2. /\ file' = file /\ Caught' = Caught /\ Calls' = Calls /\ Entry' = Entry /\ Record' = Record
      /\ \A k : Disk(k)' = Disk(k)
  BY <1>1 DEF file, Caught, Disk, Calls, Entry, Record, Pointer
<1>3. Types'
  BY <1>1, <1>2 DEF IInv, Types, IsIndex, Pointer
<1>4. StepRight' /\ CaughtRight'
  BY <1>1, <1>2 DEF IInv, StepRight, CaughtRight
<1>5. \A k \in Key \ lost' : KeyRight(k)'
  BY <1>1, <1>2 DEF IInv, KeyRight, PointsRight, KnowsLatest, KnowsDeleted
<1> QED BY <1>3, <1>4, <1>5 DEF IInv

LEMMA Inductive == IInv /\ [Next]_vars => IInv'
<1> SUFFICES ASSUME IInv, [Next]_vars PROVE IInv'
  OBVIOUS
<1>1. CASE Open
  BY <1>1, OpenKeeps
<1>2. ASSUME NEW keys \in Batches, NEW sync \in BOOLEAN, Put(keys, sync) PROVE IInv'
  BY <1>2, PutKeeps
<1>3. ASSUME NEW k \in Key, Delete(k) PROVE IInv'
  BY <1>3, DeleteKeeps
<1>4. CASE Fsync
  BY <1>4, FsyncKeeps
<1>5. CASE AppendLog
  BY <1>5, AppendLogKeeps
<1>6. CASE Flush
  BY <1>6, FlushKeeps
<1>7. ASSUME NEW then \in {"up", "down"}, Sync(then) PROVE IInv'
  BY <1>7, SyncKeeps
<1>8. CASE WriteSnapshot
  BY <1>8, WriteSnapshotKeeps
<1>9. CASE RemoveLog
  BY <1>9, RemoveLogKeeps
<1>10. ASSUME NEW n \in 0..MaxBatch, NEW cut \in {"none", "header", "payload"}, Crash(n, cut)
       PROVE  IInv'
  BY <1>10, CrashKeeps
<1>11. CASE UNCHANGED vars
  BY <1>11, Unchanged
<1> QED BY <1>1, <1>2, <1>3, <1>4, <1>5, <1>6, <1>7, <1>8, <1>9, <1>10, <1>11 DEF Next

(* The invariant holds whatever calls and crashes there were (every method of BlobStore).  *)
THEOREM Invariance == Spec => []IInv
<1>1. Init => IInv
  BY Initially
<1> QED BY <1>1, Inductive, PTL DEF Spec

(* Nothing on disk or in memory points further than the records ever put
   (_append_log, _write_snapshot, _scan_slab).                                      *)
THEOREM TypesAreRight == Spec => []TypeOK
<1>1. ASSUME IInv PROVE TypeOK
  <2>1. Types /\ file \in Seq(Record)
    BY <1>1, FileIs DEF IInv
  <2>2. /\ log.there \in BOOLEAN /\ IsLog(log.entries) /\ call.then \in {"up", "down"}
        /\ call.step \in {"idle", "fsync", "log", "snapshot", "remove"} /\ IsLog(call.entries)
    BY <2>1 DEF Types, Calls, Entry, IsLog
  <2> QED BY <2>1, <2>2 DEF Types, TypeOK
<1> QED BY <1>1, Invariance, PTL

(* Between the new snapshot and the removal of the log, each entry of the snapshot is a
   record on disk, of the key it stands under, unless a crash lost the key (sync).      *)
THEOREM SnapshotsAreCovered == Spec => []SnapshotCovered
<1>1. ASSUME IInv PROVE SnapshotCovered
  <2> SUFFICES ASSUME call.step = "remove", NEW k \in DOMAIN snap.records \ lost, snap.records[k] # Null
               PROVE  snap.records[k] \in DOMAIN slab /\ slab[snap.records[k]].key = k
    BY DEF SnapshotCovered
  <2>1. snap.records = index /\ buf = <<>> /\ k \in Key /\ Types
    BY <1>1 DEF IInv, StepRight, Types, IsIndex
  <2>2. file = slab /\ At(index, k) = snap.records[k]
    BY <2>1, FileIs DEF At
  <2>3. Valid(file, At(index, k), k)
    BY <1>1, <2>1, <2>2 DEF IInv, KeyRight, PointsRight
  <2> QED BY <2>2, <2>3 DEF Valid
<1> QED BY <1>1, Invariance, PTL

(* A deleted key stays away through closes, opens and crashes, until an open has to take
   the index from the slab (delete, _replay_log, _scan_slab).                          *)
THEOREM DeletedStayAway == Spec => []DeletedUntilScan
<1>1. ASSUME IInv PROVE DeletedUntilScan
  <2> SUFFICES ASSUME Ready, ~scanned, NEW k \in Key \ lost, latest[k] = 0 PROVE ~Get(k).found
    BY DEF DeletedUntilScan
  <2>1. Caught = {}
    BY <1>1, LastOfEmpty DEF IInv, StepRight, Ready, Caught
  <2>2. At(index, k) = Null
    BY <1>1, <2>1 DEF IInv, KeyRight, KnowsDeleted
  <2> QED BY <2>2 DEF Get, At, Missing
<1> QED BY <1>1, Invariance, PTL

LEMMA LatestIsRead ==
  ASSUME IInv, ~(Tearing /\ scanned)
  PROVE  GetIsLatest
<1> SUFFICES ASSUME Ready, ~ignored, NEW k \in Key \ lost, latest[k] # 0
             PROVE  Get(k).found /\ Get(k).ver = latest[k]
  BY DEF GetIsLatest
<1>1. Caught = {} /\ state = "up"
  BY LastOfEmpty DEF IInv, StepRight, Ready, Caught
<1>2. Newest(file, Disk(k), k, latest[k]) /\ At(index, k) = Disk(k) /\ Types
  BY <1>1 DEF IInv, KeyRight, KnowsLatest
<1>3. At(index, k) # Null
  BY <1>2, FileIs DEF Newest, Last, Valid, Null
<1>4. k \in DOMAIN index /\ index[k] # Null /\ index[k] = At(index, k)
  BY <1>3 DEF At
<1> QED BY <1>2, <1>4 DEF Get, ReadRecord, Newest, Last, Valid

(* With records that fit the buffer, get finds the value last put under a key through any
   closes, opens and crashes, unless a crash caught that very put, as long as no open had to
   do without the snapshot (put, put_batch, sync, _load_index).                        *)
THEOREM GetsAreLatest == ASSUME ~Tearing PROVE Spec => []GetIsLatest
BY LatestIsRead, Invariance, PTL

(* With larger records too, as long as no open had to take the index from the slab.     *)
THEOREM GetsAreLatestUntilScan == Spec => [](scanned \/ GetIsLatest)
<1>1. IInv => scanned \/ GetIsLatest
  BY LatestIsRead
<1> QED BY <1>1, Invariance, PTL
=============================================================================
