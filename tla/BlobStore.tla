----------------------------- MODULE BlobStore -----------------------------
(***************************************************************************)
(* The binary key/value store (telys/blob.py, class BlobStore): an append-only  *)
(* slab of records, an index in memory, and on disk a snapshot of the index       *)
(* with a log of the mutations since.  Every method runs under self._lock, so    *)
(* what interleaves with its steps is a crash of the process.                    *)
(*                                                                         *)
(* A record counts as one position of the slab and holds the version number of   *)
(* its put in place of the payload.  slab is what the operating system has,      *)
(* buf what is still in the buffer of self._slab: the seek(0, 2) of the next      *)
(* put flushes it, a read or a full buffer may.  The log is flushed with each    *)
(* operation.  A record larger than the buffer may be cut short by the crash     *)
(* (Tearing).  Failures of the disk and of the operating system are left out.    *)
(***************************************************************************)
EXTENDS Naturals, Sequences, FiniteSets

CONSTANTS
  Key,         \* keys
  MaxPuts,     \* bound on the records put in a run
  MaxBatch,    \* bound on the records of one put_batch
  MaxCrashes,  \* bound on the crashes of a run
  Tearing      \* records may exceed the buffer

ASSUME BoundsAssumption == MaxPuts \in Nat /\ MaxBatch \in Nat /\ MaxCrashes \in Nat
ASSUME TearingAssumption == Tearing \in BOOLEAN

VARIABLES
  slab,     \* data.slab after its magic: [key, ver, cut]
  buf,      \* records written to self._slab and not flushed
  log,      \* index.log: whether it exists, and its [key, at] entries
  snap,     \* index.json: whether it exists, and its records
  index,    \* self._index: key -> position of its record, or Null
  state,    \* "down", "up", or "refused" when the last open raised
  call,     \* where the method under way stands
  puts,     \* records put so far
  crashes,  \* crashes so far
  latest,   \* the version last acknowledged under a key, 0 if none (history)
  lost,     \* keys a crash caught in the buffer or in a call (history)
  synced,   \* keys found at a sync and not deleted since (history)
  scanned,  \* an open took the index from a slab with records (history)
  ignored   \* an open took the index from the log without its snapshot (history)

files   == <<slab, buf, log, snap>>
history == <<latest, lost, synced, scanned, ignored>>
vars    == <<slab, buf, log, snap, index, state, call, puts, crashes,
             latest, lost, synced, scanned, ignored>>

Null  == 0   \* what json.dump and the replay of a delete make of no record
Empty == [k \in {} |-> Null]

NoLog == [there |-> FALSE, entries |-> <<>>]
Idle  == [step |-> "idle", entries |-> <<>>, then |-> "up"]

(* f, and g where g has a value: dict.update.                                    *)
Over(f, g) ==
  [k \in DOMAIN f \cup DOMAIN g |-> IF k \in DOMAIN g THEN g[k] ELSE f[k]]

file == slab \o buf   \* what self._slab reads

Keys(records) == {records[i].key : i \in DOMAIN records}

(* For each key of a sequence of entries, the position its last one gives.        *)
LastOf(entries) ==
  [k \in Keys(entries) |->
     LET i == CHOOSE i \in DOMAIN entries :
                /\ entries[i].key = k
                /\ \A j \in DOMAIN entries : entries[j].key = k => j <= i
     IN  entries[i].at]

Init ==
  /\ slab = <<>> /\ buf = <<>> /\ log = NoLog
  /\ snap = [there |-> FALSE, records |-> Empty]
  /\ index = Empty /\ state = "down" /\ call = Idle
  /\ puts = 0 /\ crashes = 0
  /\ latest = [k \in Key |-> 0]
  /\ lost = {} /\ synced = {} /\ scanned = FALSE /\ ignored = FALSE

-----------------------------------------------------------------------------
(* Reading: what get(k) answers.                                              *)
Missing == [found |-> FALSE, raised |-> FALSE]   \* KeyError
Raised  == [found |-> FALSE, raised |-> TRUE]    \* BlobStoreError

ReadRecord(at, k) ==
  IF at \in DOMAIN file /\ file[at].key = k /\ file[at].cut # "header"
  THEN [found |-> TRUE, ver |-> file[at].ver, whole |-> file[at].cut = "none"]
  ELSE Raised

Get(k) ==
  IF k \in DOMAIN index /\ index[k] # Null THEN ReadRecord(index[k], k) ELSE Missing

Contains(k) == k \in DOMAIN index

-----------------------------------------------------------------------------
(* Opening.                                                                   *)

(* The scan keeps the last record of a key.  A record cut in its header ends the   *)
(* scan with an error; after a cut record that is followed by others it is lost    *)
(* in the middle of their bytes, and raises or stops.                            *)
Positions(n) == [i \in 1..n |-> [key |-> slab[i].key, at |-> i]]

CutBeforeEnd == {i \in DOMAIN slab : slab[i].cut # "none" /\ i < Len(slab)}
Reach        == IF CutBeforeEnd = {} THEN Len(slab)
                ELSE CHOOSE i \in CutBeforeEnd : \A j \in CutBeforeEnd : i <= j
ScanIndex    == LastOf(Positions(Reach))
ScanMayRaise == CutBeforeEnd # {} \/ (slab # <<>> /\ slab[Len(slab)].cut = "header")
ScanMayEnd   == CutBeforeEnd # {} \/ ~ScanMayRaise

(* _read_snapshot: a record without an entry raises TypeError, which nobody        *)
(* catches; one out of bounds ValueError, after which the snapshot is ignored.     *)
(* Which comes first depends on the order of the keys, and whether another        *)
(* key's record in its place is as long depends on the records.                  *)
NullEntries == {k \in DOMAIN snap.records : snap.records[k] = Null}
OutOfBounds == {k \in DOMAIN snap.records : snap.records[k] > Len(slab)}
Doubtful    == {k \in DOMAIN snap.records \ (NullEntries \cup OutOfBounds) :
                  slab[snap.records[k]].key # k}

SnapshotRaises  == snap.there /\ NullEntries # {}
SnapshotIgnored == \/ ~snap.there
                   \/ OutOfBounds \cup Doubtful # {}
SnapshotLoaded  == snap.there /\ NullEntries = {} /\ OutOfBounds = {}

\* Mutant: the snapshot is laid over the log.
LoadIndexSnapshotLast(fromSnapshot) == Over(LastOf(log.entries), fromSnapshot)

(* _load_index when there is a log: its mutations over the snapshot.               *)
LoadIndex(fromSnapshot) == Over(fromSnapshot, LastOf(log.entries))

Refuse ==
  /\ state' = "refused"
  /\ UNCHANGED <<files, index, call, puts, crashes, history>>

(* The index comes from the slab; write says whether _open then snapshots it.      *)
OpenByScan(write) ==
  \/ ScanMayRaise /\ Refuse
  \/ /\ ScanMayEnd
     /\ index' = ScanIndex
     /\ scanned' = (scanned \/ slab # <<>>)
     /\ state' = "up"
     /\ call' = IF write /\ ScanIndex # Empty THEN [Idle EXCEPT !.step = "snapshot"] ELSE Idle
     /\ UNCHANGED <<files, puts, crashes, latest, lost, synced, ignored>>

(* An index without entries over a slab with records is not believed.             *)
OpenWith(loaded) ==
  IF loaded = Empty /\ slab # <<>>
  THEN OpenByScan(TRUE)
  ELSE /\ index' = loaded
       /\ state' = "up"
       /\ ignored' = (ignored \/ (snap.there /\ loaded # Over(snap.records, loaded)))
       /\ UNCHANGED <<files, call, puts, crashes, latest, lost, synced, scanned>>

Open ==
  /\ state # "up"
  /\ \/ SnapshotRaises /\ Refuse
     \/ SnapshotLoaded /\ ~log.there /\ OpenWith(snap.records)
     \/ SnapshotLoaded /\ log.there /\ OpenWith(LoadIndex(snap.records))
     \/ SnapshotIgnored /\ log.there /\ OpenWith(LoadIndex(Empty))
     \/ SnapshotIgnored /\ ~log.there /\ OpenByScan(FALSE)

-----------------------------------------------------------------------------
(* put, put_batch and delete.                                                 *)
Ready == state = "up" /\ call.step = "idle"

(* The seek to the end flushes what an earlier put left in the buffer.            *)
Put(keys, sync) ==
  /\ Ready /\ puts + Len(keys) <= MaxPuts
  /\ LET recs == [i \in DOMAIN keys |-> [key |-> keys[i], ver |-> puts + i, cut |-> "none"]]
         ents == [i \in DOMAIN keys |-> [key |-> keys[i], at |-> Len(file) + i]]
     IN  /\ slab' = file
         /\ buf' = recs
         /\ index' = Over(index, LastOf(ents))
         /\ call' = [step |-> IF sync THEN "fsync" ELSE "log", entries |-> ents, then |-> "up"]
  /\ puts' = puts + Len(keys)
  /\ UNCHANGED <<log, snap, state, crashes, history>>

\* Mutant: delete forgets the log.
DeleteInMemory(k) ==
  /\ Ready /\ k \in DOMAIN index
  /\ index' = [x \in DOMAIN index \ {k} |-> index[x]]
  /\ latest' = [latest EXCEPT ![k] = 0]
  /\ synced' = synced \ {k}
  /\ UNCHANGED <<files, state, call, puts, crashes, lost, scanned, ignored>>

Delete(k) ==
  /\ Ready /\ k \in DOMAIN index
  /\ index' = [x \in DOMAIN index \ {k} |-> index[x]]
  /\ call' = [step |-> "log", entries |-> <<[key |-> k, at |-> Null]>>, then |-> "up"]
  /\ synced' = synced \ {k}
  /\ UNCHANGED <<files, state, puts, crashes, latest, lost, scanned, ignored>>

Fsync ==
  /\ call.step = "fsync"
  /\ slab' = file /\ buf' = <<>>
  /\ call' = [call EXCEPT !.step = "log"]
  /\ UNCHANGED <<log, snap, index, state, puts, crashes, history>>

Acknowledged ==
  LET last == LastOf(call.entries)
  IN  [k \in Key |-> IF k \notin DOMAIN last THEN latest[k]
                     ELSE IF last[k] = Null THEN 0 ELSE file[last[k]].ver]

(* _append_log: written and flushed; the call returns.                            *)
AppendLog ==
  /\ call.step = "log"
  /\ log' = [there |-> TRUE, entries |-> log.entries \o call.entries]
  /\ call' = Idle
  /\ latest' = Acknowledged
  /\ lost' = lost \ Keys(call.entries)
  /\ UNCHANGED <<slab, buf, snap, index, state, puts, crashes, synced, scanned, ignored>>

\* Mutant: what was flushed stays in the buffer and is flushed again.
FlushTwice ==
  /\ state = "up" /\ buf # <<>> /\ Len(slab) < MaxPuts
  /\ slab' = file
  /\ UNCHANGED <<buf, log, snap, index, state, call, puts, crashes, history>>

(* The buffer reaches the operating system, because it is full or was read.       *)
Flush ==
  /\ state = "up" /\ buf # <<>>
  /\ slab' = file /\ buf' = <<>>
  /\ UNCHANGED <<log, snap, index, state, call, puts, crashes, history>>

-----------------------------------------------------------------------------
(* sync and close: fsync the slab, replace the snapshot, remove the log.           *)

\* Mutant: the slab is left in its buffer.
SyncIndexOnly(then) ==
  /\ Ready
  /\ call' = [Idle EXCEPT !.step = "snapshot", !.then = then]
  /\ UNCHANGED <<files, index, state, puts, crashes, history>>

Sync(then) ==
  /\ Ready
  /\ slab' = file /\ buf' = <<>>
  /\ call' = [Idle EXCEPT !.step = "snapshot", !.then = then]
  /\ UNCHANGED <<log, snap, index, state, puts, crashes, history>>

WriteSnapshot ==
  /\ call.step = "snapshot"
  /\ snap' = [there |-> TRUE, records |-> index]
  /\ call' = [call EXCEPT !.step = "remove"]
  /\ UNCHANGED <<slab, buf, log, index, state, puts, crashes, history>>

RemoveLog ==
  /\ call.step = "remove"
  /\ log' = NoLog
  /\ call' = Idle
  /\ state' = call.then
  /\ index' = IF call.then = "up" THEN index ELSE Empty
  /\ synced' = {k \in Key : Get(k).found}
  /\ UNCHANGED <<slab, buf, snap, puts, crashes, latest, lost, scanned, ignored>>

(* The process dies.  A prefix of the buffered records had been written through;   *)
(* with Tearing, a part of the next one too.                                     *)
Crash(n, cut) ==
  /\ state = "up" /\ crashes < MaxCrashes
  /\ n <= Len(buf)
  /\ cut = "none" \/ (Tearing /\ n < Len(buf))
  /\ slab' = slab \o SubSeq(buf, 1, n)
             \o (IF cut = "none" THEN <<>> ELSE <<[buf[n + 1] EXCEPT !.cut = cut]>>)
  /\ buf' = <<>>
  /\ index' = Empty /\ call' = Idle /\ state' = "down"
  /\ crashes' = crashes + 1
  /\ lost' = lost \cup Keys(SubSeq(buf, n + 1, Len(buf))) \cup Keys(call.entries)
  /\ UNCHANGED <<log, snap, puts, latest, synced, scanned, ignored>>

Batches == UNION {[1..n -> Key] : n \in 1..MaxBatch}

Next ==
  \/ Open
  \/ \E keys \in Batches, sync \in BOOLEAN : Put(keys, sync)
  \/ \E k \in Key : Delete(k)
  \/ Fsync \/ AppendLog \/ Flush
  \/ \E then \in {"up", "down"} : Sync(then)
  \/ WriteSnapshot \/ RemoveLog
  \/ \E n \in 0..MaxBatch, cut \in {"none", "header", "payload"} : Crash(n, cut)

Spec == Init /\ [][Next]_vars

-----------------------------------------------------------------------------
(* Properties.                                                                *)
Record  == [key : Key, ver : 1..MaxPuts, cut : {"none", "header", "payload"}]
Pointer == 0..MaxPuts
IsIndex(f) == DOMAIN f \subseteq Key /\ \A k \in DOMAIN f : f[k] \in Pointer
IsLog(s)   == s \in Seq([key : Key, at : Pointer])

(* Every variable has its type; no entry of the log, the snapshot or the index     *)
(* points further than the records ever put (_append_log, _write_snapshot).        *)
TypeOK ==
  /\ file \in Seq(Record) /\ slab \in Seq(Record)
  /\ log.there \in BOOLEAN /\ IsLog(log.entries)
  /\ snap.there \in BOOLEAN /\ IsIndex(snap.records)
  /\ IsIndex(index)
  /\ state \in {"down", "up", "refused"}
  /\ call.step \in {"idle", "fsync", "log", "snapshot", "remove"} /\ IsLog(call.entries)
  /\ call.then \in {"up", "down"}
  /\ puts \in 0..MaxPuts /\ crashes \in 0..MaxCrashes
  /\ latest \in [Key -> 0..MaxPuts] /\ lost \subseteq Key /\ synced \subseteq Key
  /\ scanned \in BOOLEAN /\ ignored \in BOOLEAN

(* get finds the value last put under a key after any number of closes, opens      *)
(* and crashes, at whatever step they came, unless a crash caught that very put     *)
(* in the buffer or under way ("the latest record for a key wins", blob.py:14),     *)
(* as long as no open had to do without the snapshot.                            *)
GetIsLatest ==
  Ready /\ ~ignored => \A k \in Key \ lost :
             latest[k] # 0 => Get(k).found /\ Get(k).ver = latest[k]

(* A deleted key is not found again, across closes, opens and crashes, unless an    *)
(* open had to take the index from the slab (delete, _replay_log).                *)
DeletedUntilScan ==
  Ready /\ ~scanned => \A k \in Key \ lost : latest[k] = 0 => ~Get(k).found

(* After a sync and before the next put every entry of the index is a record on     *)
(* disk, except those a crash left dangling (sync's fsync before the snapshot).     *)
SnapshotCovered ==
  call.step = "remove" =>
    \A k \in DOMAIN snap.records \ lost :
      snap.records[k] # Null => snap.records[k] \in DOMAIN slab /\ slab[snap.records[k]].key = k

-----------------------------------------------------------------------------
(* What the comments say and the code does not do.                             *)

(* "The store is durable across restarts" (blob.py:51): it can always be opened.   *)
StoreReopens == state # "refused"

(* contains: "True iff key is currently stored" (blob.py:324).                    *)
ContainsIsStored == Ready => \A k \in Key : Contains(k) => Get(k) # Missing

(* delete: "Remove key" (blob.py:312), in a store "durable across restarts".       *)
DeletedStaysDeleted == Ready => \A k \in Key \ lost : latest[k] = 0 => ~Get(k).found

(* sync() gives "crash durability before continuing" (blob.py:213): a key that was  *)
(* there at the sync and was not deleted can be read.                             *)
SyncedIsReadable == Ready => \A k \in synced : Get(k).found

(* "if the index files are missing or corrupt, the store scans the slab and         *)
(* rebuilds" (blob.py:13): no open forgets a key that was there at a sync.          *)
SyncedIsIndexed == Ready => synced \subseteq DOMAIN index

(* "crash-after-append [is] safe" (blob.py:14): get returns whole payloads.        *)
WholePayloads == Ready => \A k \in Key : Get(k).found => Get(k).whole
=============================================================================
