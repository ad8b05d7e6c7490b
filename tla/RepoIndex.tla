----------------------------- MODULE RepoIndex -----------------------------
(***************************************************************************)
(* The incremental index of a source tree (telys/mcp.py, TelysMemory.index_repo  *)
(* and repo_search): a walk that compares (size, mtime) stamps with the           *)
(* fingerprint of the last call, the re-embedding of the files that changed, and   *)
(* the search that follows.  Editors change the tree at any time, and several      *)
(* MCP servers share the memory path.                                          *)
(*                                                                         *)
(* One repository.  Every edit gives a file a new version, and the stamp of a file *)
(* is its version; 0 stands for no file, no stamp, no text.  Files do not depend   *)
(* on each other, so one step stats all of them and one step reads all that         *)
(* changed.  The save under the lock is one step here; McpMemory takes it apart.   *)
(***************************************************************************)
EXTENDS Naturals, FiniteSets

CONSTANTS
  File,         \* relative paths
  Proc,         \* processes that serve the memory path
  Persistent,   \* those with persistent_index
  Indexing,     \* those whose client calls index_repo (all have repo_search called)
  Coll,         \* collections a repository is indexed into
  Default,      \* _INDEX_COLLECTION_DEFAULT
  Chunks,       \* per version, the numbers of the chunks of _chunk_text that are not blank
  MaxEdits,     \* bound on the edits of a run
  MaxFaults     \* bound on its restarts and on the steps that leave files out

ASSUME BoundsAssumption == MaxEdits \in Nat /\ MaxFaults \in Nat
ASSUME ConstantsAssumption ==
  Persistent \subseteq Proc /\ Default \in Coll /\ Chunks \in [1..MaxEdits -> SUBSET Nat]

VARIABLES
  src,          \* the tree: file -> version
  edits,        \* edits so far
  rows,         \* per collection, its saved rows: [file, idx, ver]
  there,        \* the collections that were saved
  fp,           \* per process, self._index_fp of the repository
  fpfile,       \* .telys_mcp_fingerprints.json
  call,         \* per process, the index_repo under way
  faults,       \* restarts and steps that left files out so far
  passed,       \* per process, files that changed during its call or its walk did not see (history)
  stale,        \* per process, files of a collection another call wrote since its own began (history)
  spoiled,      \* files of a collection a call dropped unread or saved over unseen (history)
  elsewhere     \* files of a collection whose stamp a call on another one recorded (history)

tree    == <<src, edits>>
index   == <<rows, there>>
history == <<passed, stale, spoiled, elsewhere>>
vars    == <<src, edits, rows, there, fp, fpfile, call, faults,
             passed, stale, spoiled, elsewhere>>

Nothing == [f \in File |-> 0]
Present == {f \in File : src[f] # 0}

Resting == [pc |-> "idle", coll |-> Default, search |-> FALSE, new |-> Nothing,
            changed |-> {}, removed |-> {}, text |-> Nothing, col |-> {}]

Embedded(f, v) ==
  IF v = 0 THEN {} ELSE {[file |-> f, idx |-> i, ver |-> v] : i \in Chunks[v]}

RowsOf(c, f) == {r \in rows[c] : r.file = f}

Init ==
  /\ src = Nothing /\ edits = 0
  /\ rows = [c \in Coll |-> {}] /\ there = {}
  /\ fp = [p \in Proc |-> Nothing] /\ fpfile = Nothing
  /\ call = [p \in Proc |-> Resting]
  /\ faults = 0
  /\ passed = [p \in Proc |-> {}] /\ stale = [p \in Proc |-> {}]
  /\ spoiled = {} /\ elsewhere = {}

-----------------------------------------------------------------------------
(* The tree changes under the calls.  A change ends the exceptions made for the file:   *)
(* the next call finds another stamp.                                          *)
Touch(f) ==
  /\ passed' = [p \in Proc |-> IF call[p].pc = "idle" THEN {} ELSE passed[p] \cup {f}]
  /\ spoiled' = spoiled \ (Coll \X {f}) /\ elsewhere' = elsewhere \ (Coll \X {f})
  /\ UNCHANGED <<index, fp, fpfile, call, faults, stale>>

Edit(f) ==
  /\ edits < MaxEdits /\ edits' = edits + 1
  /\ src' = [src EXCEPT ![f] = edits + 1]
  /\ Touch(f)

Remove(f) ==
  /\ f \in Present
  /\ src' = [src EXCEPT ![f] = 0]
  /\ Touch(f)
  /\ UNCHANGED edits

-----------------------------------------------------------------------------
(* index_repo.                                                                *)
Fault(b) == IF b THEN faults < MaxFaults /\ faults' = faults + 1 ELSE UNCHANGED faults

Unsaved == {"read", "open", "write"}   \* stages of a call before its save

End(p) ==
  /\ call' = [call EXCEPT ![p] = Resting]
  /\ passed' = [passed EXCEPT ![p] = {}] /\ stale' = [stale EXCEPT ![p] = {}]
  /\ UNCHANGED <<spoiled, elsewhere>>

\* Mutant: a file is compared by name only.
ChangedByName(S, old, force) == IF force THEN S ELSE {f \in S : old[f] = 0}

Changed(S, old, force) == IF force THEN S ELSE {f \in S : old[f] # src[f]}

(* The walk sees the files S: not the ones a budget cuts off or the sniff cannot      *)
(* read.  Without a difference and with the collection there the call is a hit.    *)
Walk(p, c, force, search, S) ==
  LET changed == Changed(S, fp[p], force)
      removed == {f \in File \ S : fp[p][f] # 0}
      hit     == ~force /\ changed = {} /\ removed = {} /\ c \in there
  IN  /\ call[p].pc = "idle"
      /\ IF search THEN c = Default /\ ~force ELSE p \in Indexing
      /\ call' = [call EXCEPT ![p] =
           IF hit THEN [Resting EXCEPT !.pc = IF search THEN "answer" ELSE "idle"]
           ELSE [Resting EXCEPT !.pc = "read", !.coll = c, !.search = search,
                   !.changed = changed, !.removed = removed,
                   !.new = [f \in File |-> IF f \in S THEN src[f] ELSE 0]]]
      /\ passed' = [passed EXCEPT ![p] = IF hit /\ ~search THEN {} ELSE Present \ S]
      /\ stale' = [stale EXCEPT ![p] = {}]
      /\ Fault(S # Present)
      /\ UNCHANGED <<tree, index, fp, fpfile, spoiled, elsewhere>>

(* The files R are read and chunked: not the ones whose read fails or that the       *)
(* deadline leaves out.                                                       *)
Read(p, R) ==
  /\ call[p].pc = "read"
  /\ R \subseteq call[p].changed \cap Present
  /\ call' = [call EXCEPT ![p].pc = "open",
                ![p].text = [f \in File |-> IF f \in R THEN src[f] ELSE 0]]
  /\ Fault(R # call[p].changed \cap Present)
  /\ UNCHANGED <<tree, index, fp, fpfile, history>>

(* The collection is opened, or made, before the lock is taken.                   *)
OpenCol(p) ==
  /\ call[p].pc = "open"
  /\ call' = [call EXCEPT ![p].pc = "write", ![p].col = rows[call[p].coll]]
  /\ UNCHANGED <<tree, index, fp, fpfile, faults, history>>

Wrote(p) == call[p].changed \cup call[p].removed
ReadBy(p) == {f \in File : call[p].text[f] # 0}

(* The files whose current stamp the call brings, and those others wrote meanwhile.     *)
Restamped(p) == {f \in call[p].changed : call[p].new[f] = src[f] /\ fp[p][f] # src[f]}
Late(p)      == {f \in File : \E c \in Coll : <<c, f>> \in stale[p]}

(* The rows of the files that changed or went.                                   *)
StaleRows(p) == {r \in call[p].col : r.file \in Wrote(p)}

(* Under the lock: the stale rows go, the chunks are upserted, all is saved.        *)
Commit(p) ==
  LET c     == call[p].coll
      kept  == call[p].col \ StaleRows(p)
      fresh == UNION {Embedded(f, call[p].text[f]) : f \in File}
      Over(r) == \E s \in fresh : s.file = r.file /\ s.idx = r.idx
  IN  /\ call[p].pc = "write"
      /\ rows' = [rows EXCEPT ![c] = {r \in kept : ~Over(r)} \cup fresh]
      /\ there' = there \cup {c}
      /\ call' = [call EXCEPT ![p] = [Resting EXCEPT !.pc = "record",
           !.search = call[p].search, !.new = call[p].new, !.removed = call[p].removed]]
      /\ stale' = [q \in Proc |->
           IF q = p \/ call[q].pc \notin Unsaved THEN {} ELSE stale[q] \cup ({c} \X Wrote(p))]
      /\ spoiled' = (spoiled \ ({c} \X Wrote(p))) \cup (stale[p] \cap ({c} \X File))
                      \cup ({c} \X (Present \cap (Wrote(p) \ ReadBy(p))))
      /\ elsewhere' = (elsewhere \ ({c} \X (Wrote(p) \ Late(p))))
                        \cup ((Coll \ {c}) \X Restamped(p))
      /\ UNCHANGED <<tree, fp, fpfile, faults, passed>>

(* The fingerprint follows the save; writing its file is best effort.              *)
Record(p) ==
  /\ call[p].pc = "record"
  /\ fp' = [fp EXCEPT ![p] = call[p].new]
  /\ \/ p \in Persistent /\ fpfile' = call[p].new
     \/ UNCHANGED fpfile
  /\ call' = [call EXCEPT ![p] =
       IF call[p].search THEN [Resting EXCEPT !.pc = "answer", !.removed = call[p].removed] ELSE Resting]
  /\ passed' = [passed EXCEPT ![p] = IF call[p].search THEN @ ELSE {}]
  /\ UNCHANGED <<tree, index, faults, stale, spoiled, elsewhere>>

\* Mutant: the fingerprint is recorded although the call raised.
RaiseRecorded(p) ==
  /\ call[p].pc \in Unsaved
  /\ End(p)
  /\ fp' = [fp EXCEPT ![p] = call[p].new]
  /\ UNCHANGED <<tree, index, fpfile, faults>>

(* Any step before the save may raise.                                          *)
Raise(p) ==
  /\ call[p].pc \in Unsaved
  /\ End(p)
  /\ UNCHANGED <<tree, index, fp, fpfile, faults>>

(* repo_search opens the collection and answers from it.                          *)
Search(p) ==
  /\ call[p].pc = "answer"
  /\ End(p)
  /\ UNCHANGED <<tree, index, fp, fpfile, faults>>

(* The process ends at any point and another takes its place.                     *)
Restart(p) ==
  /\ Fault(TRUE)
  /\ End(p)
  /\ fp' = [fp EXCEPT ![p] = IF p \in Persistent THEN fpfile ELSE Nothing]
  /\ UNCHANGED <<tree, index, fpfile>>

Next ==
  \/ \E f \in File : Edit(f) \/ Remove(f)
  \/ \E p \in Proc, c \in Coll, force, search \in BOOLEAN, S \in SUBSET Present :
       Walk(p, c, force, search, S)
  \/ \E p \in Proc, R \in SUBSET File : Read(p, R)
  \/ \E p \in Proc : \/ OpenCol(p) \/ Commit(p) \/ Record(p)
                     \/ Raise(p) \/ Search(p) \/ Restart(p)

Spec == Init /\ [][Next]_vars

-----------------------------------------------------------------------------
(* Properties.                                                                *)
Version == 0..MaxEdits
Row     == [file : File, idx : Nat, ver : Version]

(* Every variable has its type, and no row of a collection is a chunk that the       *)
(* version it was made of does not have (index_repo).                             *)
TypeOK ==
  /\ src \in [File -> Version] /\ edits \in Version
  /\ \A c \in Coll : \A r \in rows[c] : r \in Row /\ r.idx \in Chunks[r.ver]
  /\ there \subseteq Coll
  /\ fp \in [Proc -> [File -> Version]] /\ fpfile \in [File -> Version]
  /\ \A p \in Proc :
       /\ call[p].pc \in {"idle", "read", "open", "write", "record", "answer"}
       /\ call[p].coll \in Coll /\ call[p].search \in BOOLEAN
       /\ call[p].new \in [File -> Version] /\ call[p].text \in [File -> Version]
       /\ call[p].changed \subseteq File /\ call[p].removed \subseteq File
       /\ call[p].col \subseteq Row
  /\ faults \in 0..MaxFaults
  /\ passed \in [Proc -> SUBSET File] /\ stale \in [Proc -> SUBSET (Coll \X File)]
  /\ spoiled \subseteq Coll \X File /\ elsewhere \subseteq Coll \X File

Spoiled(c) == {f \in File : <<c, f>> \in spoiled}
Excused(c) == Spoiled(c) \cup {f \in File : <<c, f>> \in elsewhere}

Fresh(c, f) == RowsOf(c, f) = Embedded(f, src[f])

(* What a search sees of a file is its current version, whole and nothing else, or   *)
(* no row when the file went, whatever was edited between the calls, whichever          *)
(* collections calls indexed into, and with restarts and other servers in between      *)
(* (repo_search).  Not covered: a file that changed during the call or that its walk     *)
(* did not see; and, until it changes or the collection gets it again, one that a call    *)
(* dropped without reading it (mcp.py:500), one that an overlapping call saved over,     *)
(* and one whose stamp a call on another collection recorded: there is one fingerprint    *)
(* for all collections (mcp.py:457, 567), and the search takes the old rows for a hit.   *)
SearchIsFresh ==
  \A p \in Proc : call[p].pc = "answer" =>
    \A f \in File \ (passed[p] \cup Excused(Default)) :
      f \in Present \cup call[p].removed => Fresh(Default, f)

(* A fingerprint that matches a file lies of no collection but in the last three ways   *)
(* SearchIsFresh names: the rows are those of the file, so that the next call on the      *)
(* collection may leave it out; also for a fingerprint loaded from the file that another   *)
(* server wrote (_index_fp).                                                    *)
FingerprintHonest ==
  \A p \in Proc, c \in Coll : \A f \in Present \ Excused(c) : fp[p][f] = src[f] => Fresh(c, f)

-----------------------------------------------------------------------------
(* What the comments say and the code does not do.                             *)

(* "Guaranteed-fresh: every call re-fingerprints and incrementally re-embeds          *)
(* changed files before searching" (mcp.py:585): with one server.                 *)
GuaranteedFresh ==
  \A p \in Proc : call[p].pc = "answer" =>
    \A f \in Present \ passed[p] : Fresh(Default, f)

(* The same where every file is read and no calls overlap: indexing into another        *)
(* collection after an edit is enough to make the search stale.                     *)
FreshIfRead ==
  \A p \in Proc : call[p].pc = "answer" =>
    \A f \in Present \ (passed[p] \cup Spoiled(Default)) : Fresh(Default, f)

(* "if the collection already has a fingerprint for this repo_id, walk the tree and   *)
(* embed ONLY the files whose (size, mtime_ns) changed" (mcp.py:428): a matching      *)
(* fingerprint speaks for every collection the repository was indexed into.        *)
FingerprintOfEach ==
  \A p \in Proc, c \in there : \A f \in Present \ Spoiled(c) :
    fp[p][f] = src[f] => Fresh(c, f)

(* "removed files get their rows deleted" (mcp.py:429): a search after the removal   *)
(* finds no row of the file.                                                   *)
RemovedFilesGone ==
  \A p \in Proc : call[p].pc = "answer" =>
    \A f \in File \ (Present \cup passed[p]) : RowsOf(Default, f) = {}
=============================================================================
