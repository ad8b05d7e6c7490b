----------------------------- MODULE McpMemory -----------------------------
(***************************************************************************)
(* MCP servers and `telys mem` commands that share a memory path                *)
(* (telys/mcp.py, class TelysMemory).  Each tool call opens the collection from   *)
(* its directory; a mutating one then takes the flock of _mcp_lock, applies       *)
(* itself to what it opened, saves the three files and releases.                  *)
(*                                                                         *)
(* One collection, one row per call.  The engine underneath is Collection.tla's:  *)
(* a row has an internal integer that the map of ids names.  A text is a version   *)
(* number.  Replying, generated ids, and repositories are left out, and so is     *)
(* the platform without fcntl.                                               *)
(***************************************************************************)
EXTENDS Naturals, Sequences

CONSTANTS
  Proc,       \* processes that use the memory path
  Id,         \* external ids
  None,       \* no process
  MaxWrites,  \* bound on the texts written in a run
  MaxCrashes  \* bound on the processes killed in a run

ASSUME NoneAssumption == None \notin Proc
ASSUME BoundsAssumption == MaxWrites \in Nat /\ MaxCrashes \in Nat

VARIABLES
  json,     \* collection.json exists
  slab,     \* the rows saved by rt.save: [int, of, ver]
  map,      \* id_map.npy: the external id of each internal integer
  mem,      \* per process, the collection it opened, its call and where it stands
  flock,    \* who holds .mcp.lock
  writes,   \* texts written so far
  crashes,  \* processes killed so far
  acked,    \* per id, the version last acknowledged, 0 if none (history)
  stale,    \* per process, the ids acknowledged since it opened (history)
  excused   \* ids a call saved over without having seen them (history)

disk    == <<json, slab, map>>
history == <<acked, stale, excused>>
vars    == <<json, slab, map, mem, flock, writes, crashes, acked, stale, excused>>

Creating    == {"add", "upsert"}                           \* _collection(create=True)
Mutating    == Creating \cup {"update", "delete", "maintain"}  \* under _mcp_lock
Reading     == {"get"}                                     \* search, ids, count, stats too
Maintenance == {"maintain"}                                \* compact, build_ivf, build_lexical

Resting == [pc |-> "idle", op |-> "none", id |-> None, slab |-> {}, map |-> <<>>]

SeqSet(s) == {s[i] : i \in DOMAIN s}
IntOf(m, e) == CHOOSE i \in DOMAIN m : m[i] = e   \* _id2int[e]
Live(rows, m, e) == \E r \in rows : r.int \in DOMAIN m /\ m[r.int] = e
Listed(p) == \A r \in mem[p].slab : r.int \in DOMAIN mem[p].map   \* ids() does not raise

Init ==
  /\ json = FALSE /\ slab = {} /\ map = <<>>
  /\ mem = [p \in Proc |-> Resting]
  /\ flock = None
  /\ writes = 0 /\ crashes = 0
  /\ acked = [e \in Id |-> 0]
  /\ stale = [p \in Proc |-> {}] /\ excused = {}

-----------------------------------------------------------------------------
(* _collection: opened from the directory by every call, or made if there is none. *)

\* Mutant: create=True comes before the look at what exists.
CallCreatesAnew(p, op, e) ==
  /\ mem[p].pc = "idle"
  /\ op \in Creating \/ json
  /\ mem' = [mem EXCEPT ![p] =
       [Resting EXCEPT !.pc = IF op \in Creating THEN "wait" ELSE "slab", !.op = op,
                       !.id = e, !.map = IF op \in Creating THEN <<>> ELSE map]]
  /\ stale' = [stale EXCEPT ![p] = {}]
  /\ UNCHANGED <<disk, flock, writes, crashes, acked, excused>>

(* The map is read first, the slab after it; nothing is locked.                    *)
Call(p, op, e) ==
  /\ mem[p].pc = "idle"
  /\ op \in Creating \/ json
  /\ mem' = [mem EXCEPT ![p] =
       [Resting EXCEPT !.pc = IF json THEN "slab" ELSE "wait", !.op = op,
                       !.id = e, !.map = IF json THEN map ELSE <<>>]]
  /\ stale' = [stale EXCEPT ![p] = {}]
  /\ UNCHANGED <<disk, flock, writes, crashes, acked, excused>>

OpenSlab(p) ==
  /\ mem[p].pc = "slab"
  /\ mem' = [mem EXCEPT ![p].slab = slab, ![p].pc = IF mem[p].op \in Reading THEN "read" ELSE "wait"]
  /\ UNCHANGED <<disk, flock, writes, crashes, history>>

(* A reading call, or one that raises before it locks, ends.                       *)
Answer(p) ==
  /\ mem[p].pc \in {"read", "wait"}
  /\ mem' = [mem EXCEPT ![p] = Resting]
  /\ UNCHANGED <<disk, flock, writes, crashes, history>>

-----------------------------------------------------------------------------
(* The body of _mcp_lock.                                                     *)

\* Mutant: a known id gets another integer.
WriteNewInt(p) ==
  LET m2 == Append(mem[p].map, mem[p].id)
  IN  /\ writes < MaxWrites /\ writes' = writes + 1
      /\ mem' = [mem EXCEPT ![p].pc = "save", ![p].map = m2,
                   ![p].slab = @ \cup {[int |-> Len(m2), of |-> mem[p].id, ver |-> writes + 1]}]

(* The operations of the engine on what was opened: add of a known id and update   *)
(* of one that ids() does not list raise, delete skips an unknown one.            *)
Write(p) ==
  LET m  == mem[p].map
      e  == mem[p].id
      m2 == IF e \in SeqSet(m) THEN m ELSE Append(m, e)
      i  == IntOf(m2, e)
      kept == IF e \in SeqSet(m) THEN {r \in mem[p].slab : r.int # i} ELSE mem[p].slab
  IN  /\ writes < MaxWrites /\ writes' = writes + 1
      /\ mem' = [mem EXCEPT ![p].pc = "save", ![p].map = m2,
                   ![p].slab = kept \cup {[int |-> i, of |-> e, ver |-> writes + 1]}]

Remove(p) ==
  LET m == mem[p].map
  IN  /\ mem' = [mem EXCEPT ![p].pc = "save",
                   ![p].slab = {r \in @ : mem[p].id \in SeqSet(m) => r.int # IntOf(m, mem[p].id)}]
      /\ UNCHANGED writes

Applied(p) ==
  \/ mem[p].op = "add" /\ mem[p].id \notin SeqSet(mem[p].map) /\ Write(p)
  \/ mem[p].op = "upsert" /\ Write(p)
  \/ /\ mem[p].op = "update" /\ Listed(p) /\ Live(mem[p].slab, mem[p].map, mem[p].id)
     /\ Write(p)
  \/ mem[p].op = "delete" /\ Remove(p)
  \/ mem[p].op \in Maintenance /\ mem' = [mem EXCEPT ![p].pc = "save"] /\ UNCHANGED writes

\* Mutant: a handler does not take the lock.
ApplyUnlocked(p) ==
  /\ mem[p].pc = "wait"
  /\ Applied(p)
  /\ UNCHANGED <<disk, flock, crashes, history>>

(* LOCK_EX is granted and the operation applied, to this process's copy alone;      *)
(* one that raises releases and ends like Answer.                                *)
Apply(p) ==
  /\ mem[p].pc = "wait" /\ flock = None
  /\ flock' = p
  /\ Applied(p)
  /\ UNCHANGED <<disk, crashes, history>>

(* save: the slab, the map, then collection.json; then the lock is released.        *)
SaveSlab(p) ==
  /\ mem[p].pc = "save"
  /\ slab' = mem[p].slab
  /\ mem' = [mem EXCEPT ![p].pc = "save_map"]
  /\ UNCHANGED <<json, map, flock, writes, crashes, history>>

SaveMap(p) ==
  /\ mem[p].pc = "save_map"
  /\ map' = mem[p].map
  /\ mem' = [mem EXCEPT ![p].pc = "save_json"]
  /\ UNCHANGED <<json, slab, flock, writes, crashes, history>>

VersionOf(rows, m, e) ==
  IF Live(rows, m, e)
  THEN LET r == CHOOSE r \in rows : /\ r.int \in DOMAIN m /\ m[r.int] = e
                                    /\ \A x \in rows : x.int = r.int => x.ver <= r.ver
       IN  r.ver
  ELSE 0

Own(p) == IF mem[p].op \in Maintenance THEN {} ELSE {mem[p].id}   \* the ids a call changes

(* The call returns: its own id is as it left it, and what it had not seen when     *)
(* it opened is excused.                                                     *)
Committed(p) ==
  /\ acked' = [e \in Id |-> IF e \in Own(p) THEN VersionOf(mem[p].slab, mem[p].map, e) ELSE acked[e]]
  /\ excused' = (excused \cup stale[p]) \ Own(p)
  /\ stale' = [q \in Proc |-> IF q = p \/ mem[q].pc = "idle" THEN {} ELSE stale[q] \cup Own(p)]

SaveJson(p) ==
  /\ mem[p].pc = "save_json"
  /\ json' = TRUE
  /\ flock' = None
  /\ mem' = [mem EXCEPT ![p] = Resting]
  /\ Committed(p)
  /\ UNCHANGED <<slab, map, writes, crashes>>

(* A process is killed, the kernel drops its lock, and it starts again.  In the      *)
(* middle of a save it leaves the files of two saves behind: its own id, and what it *)
(* had not seen, may read as anything.                                        *)
Kill(p) ==
  /\ crashes < MaxCrashes /\ mem[p].pc # "idle"
  /\ crashes' = crashes + 1
  /\ flock' = IF flock = p THEN None ELSE flock
  /\ mem' = [mem EXCEPT ![p] = Resting]
  /\ excused' = IF mem[p].pc \in {"save_map", "save_json"}
                 THEN excused \cup stale[p] \cup Own(p) ELSE excused
  /\ UNCHANGED <<disk, writes, acked, stale>>

Next ==
  \E p \in Proc :
    \/ \E op \in Mutating \cup Reading, e \in Id : Call(p, op, e)
    \/ OpenSlab(p) \/ Answer(p) \/ Apply(p)
    \/ SaveSlab(p) \/ SaveMap(p) \/ SaveJson(p) \/ Kill(p)

Spec == Init /\ [][Next]_vars

-----------------------------------------------------------------------------
(* Properties.                                                                *)
IsRows(s) == s \subseteq [int : 1..writes, of : Id, ver : 1..writes]

(* Every variable has its type, and a map never names an id twice (_to_int).        *)
TypeOK ==
  /\ json \in BOOLEAN /\ IsRows(slab)
  /\ \A m \in {map} \cup {mem[p].map : p \in Proc} :
       /\ m \in Seq(Id) /\ Len(m) <= writes
       /\ \A i, j \in DOMAIN m : m[i] = m[j] => i = j
  /\ \A p \in Proc : /\ mem[p].pc \in {"idle", "slab", "read", "wait", "save", "save_map", "save_json"}
                     /\ mem[p].op \in Mutating \cup Reading \cup {"none"}
                     /\ IsRows(mem[p].slab) /\ mem[p].id \in Id \cup {None}
  /\ flock \in Proc \cup {None}
  /\ writes \in 0..MaxWrites /\ crashes \in 0..MaxCrashes
  /\ acked \in [Id -> 0..MaxWrites] /\ stale \in [Proc -> SUBSET Id] /\ excused \subseteq Id

(* When a call returns, the three files are all the ones it saved: no save of       *)
(* another process came between (_mcp_lock around col.save()).                     *)
SaveUndisturbed ==
  \A p \in Proc : mem[p].pc = "save_json" => slab = mem[p].slab /\ map = mem[p].map

(* While nobody saves, an acknowledged row is on disk in its last version, unless   *)
(* a call that had opened the collection before it was acknowledged saved after it. *)
(* A call that opened later never loses it (_collection opens from disk).          *)
AckedUnlessOverlapped ==
  flock = None => \A e \in Id \ excused : acked[e] # 0 => VersionOf(slab, map, e) = acked[e]

-----------------------------------------------------------------------------
(* What the comments say and the code does not do.                             *)

(* "concurrent MCP writes to the same memory path are exclusive" (mcp.py:95): none   *)
(* of two acknowledged writes of different rows is lost.                          *)
AckedSurvives ==
  flock = None => \A e \in Id : acked[e] # 0 => VersionOf(slab, map, e) # 0

(* "Exact row lookup by external id" (mcp.py:304): a row that a call finds under     *)
(* an id was written under that id.                                            *)
LookupIsExact ==
  \A p \in Proc : mem[p].pc = "read" /\ Listed(p) =>
    \A r \in mem[p].slab : mem[p].map[r.int] = r.of
=============================================================================
