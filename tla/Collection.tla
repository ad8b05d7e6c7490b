----------------------------- MODULE Collection -----------------------------
(***************************************************************************)
(* One embedded collection (telys/engine.py, class Collection): the map       *)
(* between the caller's ids and the internal integers of the index, the       *)
(* ingest path that fills both, deletion, the three-step save and the reopen  *)
(* after a crash.                                                            *)
(*                                                                         *)
(* The index itself is closed code behind the RuntimeHandle.  It is modelled   *)
(* from the calls the facade makes: build and insert append rows, update       *)
(* tombstones the old row of an internal id and appends the new one, delete    *)
(* tombstones, save writes the rows whole, and any of the ingest calls may     *)
(* raise and then leaves the index as it was.  Only live rows are kept here:   *)
(* a tombstoned row is invisible to every operation of the facade, and         *)
(* compact() drops nothing else.                                             *)
(***************************************************************************)
EXTENDS Integers, Sequences, FiniteSets, Functions

CONSTANTS
  Ids,         \* the external ids callers use
  Versions,    \* vectors, told apart by value only
  Batches,     \* the id lists callers pass in one call, as sequences
  StrOf,       \* str(e) of an external id e
  Lexical      \* the collection was created with lexical=True

ASSUME BatchesAssumption == Batches \subseteq Seq(Ids) \ {<<>>}
ASSUME LexicalAssumption == Lexical \in BOOLEAN

VARIABLES
  up,       \* a process has the collection open
  int2id,   \* self._int2id
  id2int,   \* self._id2int
  sealed,   \* rt.sealed(idx)
  rows,     \* the live rows of the index
  call,     \* the ingest call under way
  saving,   \* the last step done by the save under way
  disk,     \* what is in the directory of the collection
  torn,     \* a crash hit a save between its first two replacements (history)
  candidates \* contents of the last save that returned and of those begun since (history)

memory  == <<int2id, id2int, sealed, rows>>
history == <<torn, candidates>>
vars    == <<up, int2id, id2int, sealed, rows, call, saving, disk, torn, candidates>>

None == "none"                     \* no text was given for a row

(* A live row; nth tells apart the rows of a batch that repeats an id.          *)
Row == [iid : Nat, vec : Versions, tok : Ids \cup {None}, nth : Nat]

NoCall == [step |-> "idle", ids |-> <<>>, mapped |-> 0, fresh |-> {},
           vec |-> None, texts |-> FALSE, strict |-> FALSE]

EmptyDisk == [rows |-> {}, sealed |-> FALSE, map |-> <<>>, meta |-> FALSE]

-----------------------------------------------------------------------------
Known(e) == e \in DOMAIN id2int                          \* __contains__

Named(r, map) == r.iid < Len(map)                        \* _ext(r) does not raise

(* What callers see: under each id the vectors of the live rows it names.       *)
ContentsOf(rs, map) ==
  [e \in Ids |-> {r.vec : r \in {q \in rs : Named(q, map) /\ map[q.iid + 1] = e}}]

Contents     == ContentsOf(rows, int2id)
DiskContents == ContentsOf(disk.rows, disk.map)

Live(e) == Contents[e] # {}

Idle == up /\ call.step = "idle" /\ saving = "no"

Init ==
  /\ up = FALSE
  /\ int2id = <<>> /\ id2int = <<>>
  /\ sealed = FALSE /\ rows = {}
  /\ call = NoCall /\ saving = "no"
  /\ disk = EmptyDisk
  /\ torn = FALSE /\ candidates = {}

-----------------------------------------------------------------------------
(* Lifecycle.  Callers create only a collection that has no collection.json.    *)
Create ==
  /\ ~up /\ ~disk.meta
  /\ up' = TRUE
  /\ int2id' = <<>> /\ id2int' = <<>>
  /\ sealed' = FALSE /\ rows' = {}
  /\ candidates' = {}
  /\ UNCHANGED <<call, saving, disk, torn>>

\* Mutant: integers are counted from -1 when the map is rebuilt.
OpenShifted ==
  /\ ~up /\ disk.meta
  /\ up' = TRUE
  /\ int2id' = disk.map
  /\ id2int' = [e \in Range(disk.map) |->
                  (CHOOSE i \in DOMAIN disk.map : disk.map[i] = e) - 2]
  /\ sealed' = disk.sealed /\ rows' = disk.rows
  /\ candidates' = {DiskContents}
  /\ UNCHANGED <<call, saving, disk, torn>>

\* Mutant: the sidecar is not read (the branch for a missing id_map.npy).
OpenWithoutMap ==
  /\ ~up /\ disk.meta
  /\ up' = TRUE
  /\ int2id' = <<>> /\ id2int' = <<>>
  /\ sealed' = disk.sealed /\ rows' = disk.rows
  /\ candidates' = {DiskContents}
  /\ UNCHANGED <<call, saving, disk, torn>>

(* _open: the id map is rebuilt from the sidecar, the index from its files.     *)
Open ==
  /\ ~up /\ disk.meta
  /\ up' = TRUE
  /\ int2id' = disk.map
  /\ id2int' = [e \in Range(disk.map) |->
                  (CHOOSE i \in DOMAIN disk.map : disk.map[i] = e) - 1]
  /\ sealed' = disk.sealed /\ rows' = disk.rows
  /\ candidates' = {DiskContents}
  /\ UNCHANGED <<call, saving, disk, torn>>

-----------------------------------------------------------------------------
(* Ingest, one step per change of state.  The new/existing mask is computed      *)
(* before any id is mapped; a batch that repeats an unknown id is new twice.      *)

(* _ingest up to the mapping of the ids; upsert = FALSE refuses known ids.       *)
BeginIngest(b, v, upsert, texts, strict) ==
  /\ Idle
  /\ upsert \/ \A k \in DOMAIN b : ~Known(b[k])
  /\ call' = [step   |-> "map",
              ids    |-> b,
              mapped |-> 0,
              fresh  |-> {k \in DOMAIN b : ~Known(b[k])},
              vec    |-> v,
              texts  |-> texts,
              strict |-> strict]
  /\ UNCHANGED <<up, memory, saving, disk, history>>

Add(b, v, texts) == BeginIngest(b, v, FALSE, texts, FALSE)     \* add, add_texts

Upsert(b, v, texts) == BeginIngest(b, v, TRUE, texts, FALSE)   \* upsert, upsert_texts

(* update_texts: ids are compared by their str() with the live ids; listing the  *)
(* live ids raises when a row has no name.                                      *)
UpdateTexts(b, v) ==
  /\ \A r \in rows : Named(r, int2id)
  /\ \A k \in DOMAIN b : \E e \in Ids : Live(e) /\ StrOf[b[k]] = StrOf[e]
  /\ BeginIngest(b, v, TRUE, TRUE, TRUE)

\* Mutant: the next integer is the number of live rows instead of the map's length.
MapNextByRows ==
  /\ call.step = "map" /\ call.mapped < Len(call.ids)
  /\ LET e == call.ids[call.mapped + 1]
     IN  \/ Known(e) /\ UNCHANGED <<int2id, id2int>>
         \/ /\ ~Known(e)
            /\ id2int' = [x \in DOMAIN id2int \cup {e} |->
                             IF x = e THEN Cardinality(rows) + call.mapped ELSE id2int[x]]
            /\ int2id' = Append(int2id, e)
  /\ call' = [call EXCEPT !.mapped = @ + 1]
  /\ UNCHANGED <<up, sealed, rows, saving, disk, history>>

\* Mutant: _to_int forgets to append to the list.
MapNextDictOnly ==
  /\ call.step = "map" /\ call.mapped < Len(call.ids)
  /\ LET e == call.ids[call.mapped + 1]
     IN  id2int' = [x \in DOMAIN id2int \cup {e} |->
                      IF x = e /\ ~Known(e) THEN Len(int2id) ELSE id2int[x]]
  /\ call' = [call EXCEPT !.mapped = @ + 1]
  /\ UNCHANGED <<up, int2id, sealed, rows, saving, disk, history>>

(* _to_int for the next id of the batch.                                        *)
MapNext ==
  /\ call.step = "map" /\ call.mapped < Len(call.ids)
  /\ LET e == call.ids[call.mapped + 1]
     IN  \/ Known(e) /\ UNCHANGED <<int2id, id2int>>
         \/ /\ ~Known(e)
            /\ id2int' = [x \in DOMAIN id2int \cup {e} |->
                             IF x = e THEN Len(int2id) ELSE id2int[x]]
            /\ int2id' = Append(int2id, e)
  /\ call' = [call EXCEPT !.mapped = @ + 1]
  /\ UNCHANGED <<up, sealed, rows, saving, disk, history>>

(* The first batch builds the index; later ones insert, then update.            *)
Mapped ==
  /\ call.step = "map" /\ call.mapped = Len(call.ids)
  /\ call' = [call EXCEPT !.step = IF ~sealed THEN "build"
                                   ELSE IF call.fresh # {} THEN "insert" ELSE "update"]
  /\ UNCHANGED <<up, memory, saving, disk, history>>

(* The text that reaches the row of position k when the positions P are written:   *)
(* columns and vectors are masked to P, the texts are not, so the n-th row of P    *)
(* gets the n-th text of the batch.                                             *)
TextAt(P, k) == call.ids[Cardinality({j \in P : j <= k})]

Earlier(P, k) == {j \in P : j < k /\ call.ids[j] = call.ids[k]}

(* The rows appended for the batch positions P.                                  *)
Appended(P) ==
  {[iid |-> id2int[call.ids[k]],
    vec |-> call.vec,
    tok |-> IF Lexical /\ call.texts THEN TextAt(P, k) ELSE None,
    nth |-> Cardinality(Earlier(P, k))] : k \in P}

Build ==
  /\ call.step = "build"
  /\ rows' = rows \cup Appended(DOMAIN call.ids)
  /\ sealed' = TRUE
  /\ call' = NoCall
  /\ UNCHANGED <<up, int2id, id2int, saving, disk, history>>

\* Mutant: a mixed batch ends after the insert, its existing ids are not updated.
InsertOnly ==
  /\ call.step = "insert"
  /\ rows' = rows \cup Appended(call.fresh)
  /\ call' = NoCall
  /\ UNCHANGED <<up, int2id, id2int, sealed, saving, disk, history>>

Insert ==
  /\ call.step = "insert"
  /\ rows' = rows \cup Appended(call.fresh)
  /\ call' = IF call.fresh = DOMAIN call.ids THEN NoCall ELSE [call EXCEPT !.step = "update"]
  /\ UNCHANGED <<up, int2id, id2int, sealed, saving, disk, history>>

\* Mutant: update appends the new version and leaves the old one live.
UpdateKeepsOld ==
  /\ call.step = "update"
  /\ rows' = rows \cup Appended(DOMAIN call.ids \ call.fresh)
  /\ call' = NoCall
  /\ UNCHANGED <<up, int2id, id2int, sealed, saving, disk, history>>

(* Existing ids get a new version, of a repeated id the last one; without texts     *)
(* the tokens of the old row are kept.                                          *)
UpdatedTok(P, k) ==
  LET old == {r \in rows : r.iid = id2int[call.ids[k]]}
  IN  IF Lexical /\ call.texts THEN TextAt(P, k)
      ELSE IF old # {} THEN (CHOOSE r \in old : TRUE).tok
      ELSE None

Update ==
  /\ call.step = "update"
  /\ LET P    == DOMAIN call.ids \ call.fresh
         last == {k \in P : \A j \in P : call.ids[j] = call.ids[k] => j <= k}
         iids == {id2int[call.ids[k]] : k \in P}
     IN  rows' = {r \in rows : r.iid \notin iids}
                   \cup {[iid |-> id2int[call.ids[k]], vec |-> call.vec,
                          tok |-> UpdatedTok(P, k), nth |-> 0] : k \in last}
  /\ call' = NoCall
  /\ UNCHANGED <<up, int2id, id2int, sealed, saving, disk, history>>

(* The runtime refuses the batch; what was mapped or inserted before stays.       *)
RuntimeRaises ==
  /\ call.step \in {"build", "insert", "update"}
  /\ call' = NoCall
  /\ UNCHANGED <<up, memory, saving, disk, history>>

(* delete: unknown ids are skipped, and the map keeps the ids it deletes.          *)
Delete(b) ==
  /\ Idle
  /\ LET iids == {id2int[e] : e \in Range(b) \cap DOMAIN id2int}
     IN  rows' = {r \in rows : r.iid \notin iids}
  /\ UNCHANGED <<up, int2id, id2int, sealed, call, saving, disk, history>>

-----------------------------------------------------------------------------
(* save: the index, then the id map, then collection.json, each replaced whole.   *)

SaveIndex ==
  /\ Idle
  /\ disk' = [disk EXCEPT !.rows = rows, !.sealed = sealed]
  /\ saving' = "index"
  /\ candidates' = candidates \cup {Contents}
  /\ UNCHANGED <<up, memory, call, torn>>

SaveMap ==
  /\ saving = "index"
  /\ disk' = [disk EXCEPT !.map = int2id]
  /\ saving' = "map"
  /\ UNCHANGED <<up, memory, call, history>>

SaveMeta ==
  /\ saving = "map"
  /\ disk' = [disk EXCEPT !.meta = TRUE]
  /\ saving' = "no"
  /\ candidates' = {Contents}
  /\ UNCHANGED <<up, memory, call, torn>>

(* The process ends: killed, or done without another save.                       *)
Crash ==
  /\ up
  /\ up' = FALSE
  /\ int2id' = <<>> /\ id2int' = <<>> /\ sealed' = FALSE /\ rows' = {}
  /\ call' = NoCall /\ saving' = "no"
  /\ torn' = (torn \/ (disk.meta /\ saving = "index" /\ disk.map # int2id))
  /\ UNCHANGED <<disk, candidates>>

Next ==
  \/ Create \/ Open \/ Crash
  \/ \E b \in Batches, v \in Versions, texts \in BOOLEAN : Add(b, v, texts)
  \/ \E b \in Batches, v \in Versions, texts \in BOOLEAN : Upsert(b, v, texts)
  \/ \E b \in Batches, v \in Versions : UpdateTexts(b, v)
  \/ MapNext \/ Mapped \/ Build \/ Insert \/ Update \/ RuntimeRaises
  \/ \E b \in Batches : Delete(b)
  \/ SaveIndex \/ SaveMap \/ SaveMeta

Spec == Init /\ [][Next]_vars

-----------------------------------------------------------------------------
TypeOK ==
  /\ up \in BOOLEAN
  /\ int2id \in Seq(Ids)
  /\ DOMAIN id2int \subseteq Ids /\ \A e \in DOMAIN id2int : id2int[e] \in Nat
  /\ sealed \in BOOLEAN
  /\ rows \subseteq Row
  /\ call.step \in {"idle", "map", "build", "insert", "update"}
  /\ call.step # "idle" => call.ids \in Batches
  /\ call.mapped \in 0..Len(call.ids) /\ call.fresh \subseteq DOMAIN call.ids
  /\ saving \in {"no", "index", "map"}
  /\ disk.map \in Seq(Ids) /\ disk.rows \subseteq Row
  /\ disk.sealed \in BOOLEAN /\ disk.meta \in BOOLEAN
  /\ torn \in BOOLEAN

(* The two halves of the id map are inverse to each other, in memory and as       *)
(* reloaded from the sidecar: an internal integer names one id, and an id has     *)
(* one integer.  Search results are translated by one half, deletes and updates   *)
(* by the other.                                                              *)
IdMapInverse ==
  /\ DOMAIN id2int = Range(int2id)
  /\ \A i \in DOMAIN int2id : id2int[int2id[i]] = i - 1
  /\ \A i, j \in DOMAIN disk.map : disk.map[i] = disk.map[j] => i = j

(* The id map only grows: the sidecar of the last save is a prefix of the map in   *)
(* memory, so an integer written in the saved index keeps its meaning in every     *)
(* later save of the same directory, crash or not.                                *)
SavedMapIsPrefix ==
  up /\ disk.meta => /\ Len(disk.map) <= Len(int2id)
                     /\ \A i \in DOMAIN disk.map : disk.map[i] = int2id[i]

(* Every live row has an external id, else ids() and search() raise IndexError;    *)
(* it can fail only after a crash that hit a save between index and id map.        *)
RowsNamed == up /\ ~torn => \A r \in rows : Named(r, int2id)

(* "never two physical rows for one logical id" (_ingest), counting live rows,     *)
(* for callers that do not repeat an id within a batch.                           *)
OneRowPerId == ~torn => \A r, s \in rows : r.iid = s.iid => r = s

(* update_texts inserts nothing: an id that is unknown or was deleted "raises instead  *)
(* of silently inserting a stray record" (engine.py:387), for ids that str() tells    *)
(* apart; 5 and "5" it takes for one.                                             *)
UpdateInsertsNothing ==
  call.strict => \A e \in Range(call.ids) :
    Live(e) \/ \E f \in Ids \ {e} : StrOf[f] = StrOf[e]

(* As long as no save was torn the collection implements the abstract store:      *)
(* a batch touches only its own ids, a call that returns has written all of them,   *)
(* and a reopen shows the last completed save or the one that was under way.        *)
Store == INSTANCE VectorStore WITH
  store     <- Contents,
  putting   <- [ids |-> Range(call.ids), vec |-> call.vec],
  committed <- disk.meta

ImplementsStore == Store!Init /\ [][torn' \/ Store!Next]_<<Store!vars>>

-----------------------------------------------------------------------------
(* Statements of the source's comments that the code does not keep.               *)

(* engine.py:118: "never two physical rows for one logical id".                    *)
NoDuplicateRows == \A r, s \in rows : r.iid = s.iid => r = s

(* engine.py:467: "collection.json written last = commit point": what a reopen     *)
(* shows is the contents of a save, the last one or the interrupted one.           *)
CommitPoint == disk.meta => DiskContents \in candidates

(* engine.py:187: add_texts adds new rows and "raises on any existing id": an id    *)
(* it refuses has a row.                                                       *)
RefusedIdsExist == Idle => \A e \in Ids : Known(e) => Live(e)

(* engine.py:78: lexical=True retains per-row tokens: the tokens kept for a row    *)
(* are those of the text given for its own id.                                    *)
TokensAreOwn ==
  \A r \in rows : Named(r, int2id) => r.tok \in {None, int2id[r.iid + 1]}
=============================================================================
