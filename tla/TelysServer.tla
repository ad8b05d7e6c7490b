---------------------------- MODULE TelysServer ----------------------------
(***************************************************************************)
(* The self-host server (telys/server.py, class TelysServer): one engine, a    *)
(* registry of collections and of their readers-writer locks, a handler        *)
(* thread per connection, the periodic saver and the drain on the way out.     *)
(*                                                                         *)
(* What runs under the registry lock is one step.  The readers-writer locks    *)
(* are the abstract ones of SharedExclusive, which RWLock implements: who is    *)
(* inside follows from where the threads stand.  A row is identified with the   *)
(* external id it is written under.  Schemas, embedders and the wire format     *)
(* are left out, and so is the native crash, after which a new process starts   *)
(* from the directories alone.                                              *)
(***************************************************************************)
EXTENDS Naturals, Sequences, FiniteSets

CONSTANTS
  Name,           \* collection names
  Conn,           \* client connections, each with its handler thread
  Saver, Main,    \* the periodic save thread and the thread in serve_forever
  Row,            \* rows clients write
  TokenRequired,  \* an access token is configured
  MaxDrops        \* bound on the drop_collection calls of a run

ASSUME ThreadAssumption == Saver \notin Conn /\ Main \notin Conn /\ Saver # Main
ASSUME TokenAssumption == TokenRequired \in BOOLEAN
ASSUME MaxDropsAssumption == MaxDrops \in Nat

VARIABLES
  objs,     \* the Collection objects made so far: name and rows in memory
  cols,     \* self._engine._cols: name -> index into objs, or Absent
  locks,    \* self._locks: name -> lock, or Absent
  nlocks,   \* how many lock objects were made
  disk,     \* per name, whether collection.json exists and the rows saved
  conn,     \* per connection, where its handler stands
  pass,     \* per save thread, where its _save_all_open stands
  stop,     \* self._stop
  drops,    \* drop_collection calls so far
  acked,    \* rows acknowledged and not deleted or dropped since (history)
  due,      \* the acknowledged rows when the drain began (history)
  failed,   \* names whose save raised in the drain (history)
  dropped,  \* names dropped and not created or opened since (history)
  orphaned  \* names dropped while an operation or a save was under way (history)

registry == <<objs, cols, locks, nlocks>>
history  == <<acked, due, failed, dropped, orphaned>>
vars     == <<objs, cols, locks, nlocks, disk, conn, pass, stop, drops,
              acked, due, failed, dropped, orphaned>>

Absent  == 0
SaveThread == {Saver, Main}

WriteOps == {"add", "delete", "save"}     \* of _WRITE_OPS, those with a visible effect
DataOps  == WriteOps \cup {"search"}
Ops      == DataOps \cup {"create_collection", "open_collection", "drop_collection"}

Closed == [pc |-> "closed", op |-> "none", name |-> Absent, row |-> Absent,
           obj |-> Absent, lock |-> Absent]

Resting == [pc |-> "rest", todo |-> {}, name |-> Absent, obj |-> Absent, lock |-> Absent]

-----------------------------------------------------------------------------
(* The locks: who is inside follows from the threads' positions.                *)
ConnInside(l, ops) == {c \in Conn : conn[c].pc = "run" /\ conn[c].lock = l /\ conn[c].op \in ops}
SaveInside(l)      == {s \in SaveThread : pass[s].pc = "run" /\ pass[s].lock = l}

NoWriter(l) == ConnInside(l, WriteOps) = {} /\ SaveInside(l) = {}
NoHolder(l) == ConnInside(l, DataOps) = {} /\ SaveInside(l) = {}

-----------------------------------------------------------------------------
(* The registry.  Steps of one thread under self._reg_lock.                     *)

\* self._locks.setdefault(name, _RWLock())
SetDefaultLock(n) ==
  IF locks[n] # Absent
  THEN UNCHANGED <<locks, nlocks>>
  ELSE locks' = [locks EXCEPT ![n] = nlocks + 1] /\ nlocks' = nlocks + 1

\* Mutant: the name is registered before the open that may raise.
RegisterFirst(n, rows) ==
  /\ objs' = Append(objs, [name |-> n, rows |-> rows]) \/ UNCHANGED objs
  /\ cols' = [cols EXCEPT ![n] = Len(objs) + 1]

NewObject(n, rows) ==
  /\ objs' = Append(objs, [name |-> n, rows |-> rows])
  /\ cols' = [cols EXCEPT ![n] = Len(objs) + 1]

(* _get_col: the object in the registry, else one opened from disk, else an error. *)
CanGet(n) == cols[n] # Absent \/ disk[n].there

\* Mutant: every resolve opens the collection again.
GetColAlwaysOpens(n) ==
  IF disk[n].there THEN NewObject(n, disk[n].rows) ELSE UNCHANGED <<objs, cols>>

GetCol(n) ==
  IF cols[n] # Absent THEN UNCHANGED <<objs, cols>> ELSE NewObject(n, disk[n].rows)

(* The handler goes back to recv_msg unless the server stops.                     *)
Next_request == IF stop THEN Closed ELSE [Closed EXCEPT !.pc = "recv"]

(* The reply went out, or could not be sent and the handler ends.                 *)
Reply(c) == conn' = [conn EXCEPT ![c] = Next_request] \/ conn' = [conn EXCEPT ![c] = Closed]

Serving == pass[Main].pc # "exited"

Init ==
  /\ objs = <<>>
  /\ cols = [n \in Name |-> Absent] /\ locks = [n \in Name |-> Absent] /\ nlocks = 0
  /\ disk = [n \in Name |-> [there |-> FALSE, rows |-> {}]]
  /\ conn = [c \in Conn |-> Closed]
  /\ pass = [s \in SaveThread |-> Resting]
  /\ stop = FALSE
  /\ drops = 0
  /\ acked = [n \in Name |-> {}] /\ due = [n \in Name |-> {}]
  /\ failed = {} /\ dropped = {} /\ orphaned = {}

-----------------------------------------------------------------------------
(* A connection: accept, handshake, request.                                    *)
Accept(c) ==
  /\ pass[Main].pc = "rest" /\ ~stop
  /\ conn[c].pc = "closed"
  /\ conn' = [conn EXCEPT ![c].pc = IF TokenRequired THEN "auth" ELSE "recv"]
  /\ UNCHANGED <<registry, disk, pass, stop, drops, history>>

(* The first message is the token; anything else, or a wrong one, ends it.        *)
Authenticate(c) ==
  /\ Serving /\ conn[c].pc = "auth"
  /\ \/ conn' = [conn EXCEPT ![c] = Next_request]
     \/ conn' = [conn EXCEPT ![c] = Closed]
  /\ UNCHANGED <<registry, disk, pass, stop, drops, history>>

Request(c, op, n, r) ==
  /\ Serving /\ conn[c].pc = "recv"
  /\ (r # Absent) = (op \in {"add", "delete"})
  /\ IF op = "drop_collection"
     THEN drops < MaxDrops /\ drops' = drops + 1
     ELSE UNCHANGED drops
  /\ conn' = [conn EXCEPT ![c] = [pc |-> "dispatch", op |-> op, name |-> n, row |-> r,
                                  obj |-> Absent, lock |-> Absent]]
  /\ UNCHANGED <<registry, disk, pass, stop, history>>

Disconnect(c) ==
  /\ Serving /\ conn[c].pc = "recv"
  /\ conn' = [conn EXCEPT ![c] = Closed]
  /\ UNCHANGED <<registry, disk, pass, stop, drops, history>>

Dispatching(c, op) == Serving /\ conn[c].pc = "dispatch" /\ conn[c].op = op

(* create_collection: an existing collection is returned as it is, or, with         *)
(* another schema, refused after it was opened and before it has a lock.          *)
CreateCollection(c) ==
  /\ Dispatching(c, "create_collection")
  /\ LET n == conn[c].name
     IN  /\ IF CanGet(n) THEN GetCol(n) ELSE NewObject(n, {})
         /\ SetDefaultLock(n) \/ (CanGet(n) /\ UNCHANGED <<locks, nlocks>>)
         /\ dropped' = dropped \ {n}
  /\ Reply(c)
  /\ UNCHANGED <<disk, pass, stop, drops, acked, due, failed, orphaned>>

(* open_collection: _resolve, which raises when there is no collection.json.      *)
OpenCollection(c) ==
  /\ Dispatching(c, "open_collection")
  /\ LET n == conn[c].name
     IN  \/ /\ CanGet(n) /\ GetCol(n) /\ SetDefaultLock(n)
            /\ dropped' = dropped \ {n}
         \/ ~CanGet(n) /\ UNCHANGED <<registry, dropped>>
  /\ Reply(c)
  /\ UNCHANGED <<disk, pass, stop, drops, acked, due, failed, orphaned>>

InFlight(n) ==
  \/ \E c \in Conn : conn[c].pc \in {"wait", "run"} /\ conn[c].name = n
  \/ \E s \in SaveThread : pass[s].pc \in {"wait", "run"} /\ pass[s].name = n

\* Mutant: drop_collection keeps the lock and the object in the registry.
DropDirectoryOnly(c) ==
  /\ Dispatching(c, "drop_collection")
  /\ LET n == conn[c].name
     IN  /\ disk' = [disk EXCEPT ![n] = [there |-> FALSE, rows |-> {}]]
         /\ acked' = [acked EXCEPT ![n] = {}] /\ due' = [due EXCEPT ![n] = {}]
         /\ dropped' = dropped \cup {n}
         /\ orphaned' = IF InFlight(n) THEN orphaned \cup {n} ELSE orphaned
  /\ Reply(c)
  /\ UNCHANGED <<registry, pass, stop, drops, failed>>

\* Mutant: drop_collection keeps the object but forgets the lock.
DropLockOnly(c) ==
  /\ Dispatching(c, "drop_collection")
  /\ LET n == conn[c].name
     IN  /\ locks' = [locks EXCEPT ![n] = Absent]
         /\ disk' = [disk EXCEPT ![n] = [there |-> FALSE, rows |-> {}]]
         /\ acked' = [acked EXCEPT ![n] = {}] /\ due' = [due EXCEPT ![n] = {}]
         /\ dropped' = dropped \cup {n}
         /\ orphaned' = IF InFlight(n) THEN orphaned \cup {n} ELSE orphaned
  /\ Reply(c)
  /\ UNCHANGED <<objs, cols, nlocks, pass, stop, drops, failed>>

(* drop_collection: registry entry, lock and directory go, whoever still uses them. *)
DropCollection(c) ==
  /\ Dispatching(c, "drop_collection")
  /\ LET n == conn[c].name
     IN  /\ cols'  = [cols  EXCEPT ![n] = Absent]
         /\ locks' = [locks EXCEPT ![n] = Absent]
         /\ disk'  = [disk  EXCEPT ![n] = [there |-> FALSE, rows |-> {}]]
         /\ acked' = [acked EXCEPT ![n] = {}] /\ due' = [due EXCEPT ![n] = {}]
         /\ dropped' = dropped \cup {n}
         /\ orphaned' = IF InFlight(n) THEN orphaned \cup {n} ELSE orphaned
  /\ Reply(c)
  /\ UNCHANGED <<objs, nlocks, pass, stop, drops, failed>>

(* A data operation resolves object and lock in one step ...                      *)
Resolve(c) ==
  /\ Serving /\ conn[c].pc = "dispatch" /\ conn[c].op \in DataOps
  /\ LET n == conn[c].name
     IN  \/ /\ CanGet(n) /\ GetCol(n) /\ SetDefaultLock(n)
            /\ conn' = [conn EXCEPT ![c].pc = "wait", ![c].obj = cols'[n],
                                    ![c].lock = locks'[n]]
            /\ dropped' = dropped \ {n}
         \/ ~CanGet(n) /\ Reply(c) /\ UNCHANGED <<registry, dropped>>
  /\ UNCHANGED <<disk, pass, stop, drops, acked, due, failed, orphaned>>

\* Mutant: every operation takes the read lock.
AcquireShared(c) ==
  /\ Serving /\ conn[c].pc = "wait"
  /\ NoWriter(conn[c].lock)
  /\ conn' = [conn EXCEPT ![c].pc = "run"]
  /\ UNCHANGED <<registry, disk, pass, stop, drops, history>>

(* ... then takes the lock, for writing or for reading ...                        *)
Acquire(c) ==
  /\ Serving /\ conn[c].pc = "wait"
  /\ IF conn[c].op \in WriteOps THEN NoHolder(conn[c].lock) ELSE NoWriter(conn[c].lock)
  /\ conn' = [conn EXCEPT ![c].pc = "run"]
  /\ UNCHANGED <<registry, disk, pass, stop, drops, history>>

Running(c, op) == Serving /\ conn[c].pc = "run" /\ conn[c].op = op

IsCurrent(o) == cols[objs[o].name] = o

(* ... runs on the object it resolved, releases the lock and replies.  Any of      *)
(* them may raise, which changes nothing.                                       *)
RunAdd(c) ==
  /\ Running(c, "add")
  /\ LET o == conn[c].obj  n == conn[c].name  r == conn[c].row
     IN  /\ r \notin objs[o].rows
         /\ objs' = [objs EXCEPT ![o].rows = @ \cup {r}]
         /\ acked' = IF IsCurrent(o) THEN [acked EXCEPT ![n] = @ \cup {r}] ELSE acked
  /\ Reply(c)
  /\ UNCHANGED <<cols, locks, nlocks, disk, pass, stop, drops, due, failed, dropped, orphaned>>

RunDelete(c) ==
  /\ Running(c, "delete")
  /\ LET o == conn[c].obj  n == conn[c].name  r == conn[c].row
     IN  /\ objs' = [objs EXCEPT ![o].rows = @ \ {r}]
         /\ IF IsCurrent(o)
            THEN /\ acked' = [acked EXCEPT ![n] = @ \ {r}]
                 /\ due' = [due EXCEPT ![n] = @ \ {r}]
            ELSE UNCHANGED <<acked, due>>
  /\ Reply(c)
  /\ UNCHANGED <<cols, locks, nlocks, disk, pass, stop, drops, failed, dropped, orphaned>>

(* save: into the directory of the name, whatever the registry says by now.        *)
RunSave(c) ==
  /\ Running(c, "save")
  /\ disk' = [disk EXCEPT ![conn[c].name] =
                [there |-> TRUE, rows |-> objs[conn[c].obj].rows]]
  /\ Reply(c)
  /\ UNCHANGED <<registry, pass, stop, drops, history>>

\* Mutant: an operation that does not return leaves its lock held.
RaiseLeavesLocked(c) ==
  /\ Serving /\ conn[c].pc = "run"
  /\ UNCHANGED vars

RunSearchOrRaise(c) ==
  /\ Serving /\ conn[c].pc = "run"
  /\ Reply(c)
  /\ UNCHANGED <<registry, disk, pass, stop, drops, history>>

-----------------------------------------------------------------------------
(* _save_all_open, by the periodic thread and by the drain.                      *)
OpenNames == {n \in Name : cols[n] # Absent}

BeginPass(s) ==
  pass' = [pass EXCEPT ![s] = [Resting EXCEPT !.pc = "next", !.todo = OpenNames]]

PeriodicSave ==
  /\ Serving /\ pass[Saver].pc = "rest" /\ ~stop
  /\ BeginPass(Saver)
  /\ UNCHANGED <<registry, disk, conn, stop, drops, history>>

(* A signal, stop(), or an accept() that fails.                                  *)
Stop ==
  /\ ~stop
  /\ stop' = TRUE
  /\ UNCHANGED <<registry, disk, conn, pass, drops, history>>

Drain ==
  /\ stop /\ pass[Main].pc = "rest"
  /\ BeginPass(Main)
  /\ due' = acked
  /\ UNCHANGED <<registry, disk, conn, stop, drops, acked, failed, dropped, orphaned>>

\* Mutant: the final pass gives up with the first name.
EndPassEarly(s) ==
  /\ Serving /\ pass[s].pc = "next"
  /\ pass' = [pass EXCEPT ![s] = [Resting EXCEPT !.pc = IF s = Main THEN "exited" ELSE "rest"]]
  /\ UNCHANGED <<registry, disk, conn, stop, drops, history>>

(* All names are done: the saver rests, the process exits.                        *)
EndPass(s) ==
  /\ Serving /\ pass[s].pc = "next" /\ pass[s].todo = {}
  /\ pass' = [pass EXCEPT ![s] = [Resting EXCEPT !.pc = IF s = Main THEN "exited" ELSE "rest"]]
  /\ UNCHANGED <<registry, disk, conn, stop, drops, history>>

(* _lock_for(name), which makes a lock for a name dropped in the meantime.         *)
LockFor(s, n) ==
  /\ Serving /\ pass[s].pc = "next" /\ n \in pass[s].todo
  /\ SetDefaultLock(n)
  /\ pass' = [pass EXCEPT ![s].pc = "wait", ![s].todo = @ \ {n}, ![s].name = n,
                          ![s].lock = locks'[n]]
  /\ UNCHANGED <<objs, cols, disk, conn, stop, drops, history>>

\* Mutant: the pass saves without the lock of the collection.
AcquireSaveUnlocked(s) ==
  /\ Serving /\ pass[s].pc = "wait" /\ cols[pass[s].name] # Absent
  /\ pass' = [pass EXCEPT ![s].pc = "run", ![s].obj = cols[pass[s].name]]
  /\ UNCHANGED <<registry, disk, conn, stop, drops, history>>

(* acquire_write, then self._engine._cols[name], which may be gone (KeyError).      *)
AcquireSave(s) ==
  /\ Serving /\ pass[s].pc = "wait" /\ NoHolder(pass[s].lock)
  /\ LET n == pass[s].name
     IN  \/ /\ cols[n] # Absent
            /\ pass' = [pass EXCEPT ![s].pc = "run", ![s].obj = cols[n]]
         \/ /\ cols[n] = Absent
            /\ pass' = [pass EXCEPT ![s] = [Resting EXCEPT !.pc = "next", !.todo = pass[s].todo]]
  /\ UNCHANGED <<registry, disk, conn, stop, drops, history>>

Saved(s) ==
  /\ pass' = [pass EXCEPT ![s] = [Resting EXCEPT !.pc = "next", !.todo = pass[s].todo]]
  /\ UNCHANGED <<registry, conn, stop, drops, acked, due, dropped, orphaned>>

\* Mutant: a failed save ends the pass.
SaveRaisesOut(s) ==
  /\ Serving /\ pass[s].pc = "run"
  /\ pass' = [pass EXCEPT ![s] = [Resting EXCEPT !.pc = "next"]]
  /\ failed' = IF s = Main THEN failed \cup {pass[s].name} ELSE failed
  /\ UNCHANGED <<registry, disk, conn, stop, drops, acked, due, dropped, orphaned>>

(* The save raises: it is logged and the next name follows.                       *)
SaveRaises(s) ==
  /\ Serving /\ pass[s].pc = "run"
  /\ failed' = IF s = Main THEN failed \cup {pass[s].name} ELSE failed
  /\ UNCHANGED disk
  /\ Saved(s)

SaveReturns(s) ==
  /\ Serving /\ pass[s].pc = "run"
  /\ disk' = [disk EXCEPT ![pass[s].name] =
                [there |-> TRUE, rows |-> objs[pass[s].obj].rows]]
  /\ UNCHANGED failed
  /\ Saved(s)

Next ==
  \/ \E c \in Conn :
       \/ Accept(c) \/ Authenticate(c) \/ Disconnect(c)
       \/ CreateCollection(c) \/ OpenCollection(c) \/ DropCollection(c)
       \/ Resolve(c) \/ Acquire(c)
       \/ RunAdd(c) \/ RunDelete(c) \/ RunSave(c) \/ RunSearchOrRaise(c)
  \/ \E c \in Conn, op \in Ops, n \in Name, r \in Row \cup {Absent} : Request(c, op, n, r)
  \/ PeriodicSave \/ Stop \/ Drain
  \/ \E s \in SaveThread : EndPass(s) \/ AcquireSave(s) \/ SaveRaises(s) \/ SaveReturns(s)
  \/ \E s \in SaveThread, n \in Name : LockFor(s, n)

Spec == Init /\ [][Next]_vars

(* Threads that run are scheduled, and a native call returns.  Nothing makes a     *)
(* client send, a signal arrive or the periodic thread start another pass.        *)
Dispatch(c) == CreateCollection(c) \/ OpenCollection(c) \/ DropCollection(c) \/ Resolve(c)
RunOp(c)    == RunAdd(c) \/ RunDelete(c) \/ RunSave(c) \/ RunSearchOrRaise(c)
SaveStep(s) == \/ EndPass(s) \/ SaveRaises(s) \/ SaveReturns(s)
               \/ \E n \in Name : LockFor(s, n)

Fairness ==
  /\ WF_vars(Drain)
  /\ \A c \in Conn : WF_vars(Dispatch(c)) /\ WF_vars(Acquire(c)) /\ WF_vars(RunOp(c))
  /\ \A s \in SaveThread : WF_vars(SaveStep(s)) /\ WF_vars(AcquireSave(s))

FairSpec == Spec /\ Fairness

-----------------------------------------------------------------------------
(* Properties.                                                                *)
MaybeName == Name \cup {Absent}
MaybeRow  == Row \cup {Absent}
Objects   == DOMAIN objs

(* Every variable has its type: the registry points at objects and locks that     *)
(* exist (_engine._cols, _locks), and every position names an object and a lock   *)
(* exactly when it has resolved them (_dispatch, _save_all_open).               *)
TypeOK ==
  /\ objs \in Seq([name : Name, rows : SUBSET Row])
  /\ nlocks \in Nat
  /\ cols \in [Name -> Objects \cup {Absent}]
  /\ locks \in [Name -> 0..nlocks]
  /\ disk \in [Name -> [there : BOOLEAN, rows : SUBSET Row]]
  /\ conn \in [Conn -> [pc : {"closed", "auth", "recv", "dispatch", "wait", "run"},
                        op : Ops \cup {"none"}, name : MaybeName, row : MaybeRow,
                        obj : Objects \cup {Absent}, lock : 0..nlocks]]
  /\ pass \in [SaveThread -> [pc : {"rest", "next", "wait", "run", "exited"},
                              todo : SUBSET Name, name : MaybeName,
                              obj : Objects \cup {Absent}, lock : 0..nlocks]]
  /\ stop \in BOOLEAN /\ drops \in 0..MaxDrops
  /\ acked \in [Name -> SUBSET Row] /\ due \in [Name -> SUBSET Row]
  /\ failed \subseteq Name /\ dropped \subseteq Name /\ orphaned \subseteq Name

Resolved(c) == conn[c].pc \in {"wait", "run"}

(* Two requests that resolved the same Collection object hold the same lock        *)
(* for it, and it is the registered one while the object is: _resolve takes both    *)
(* under the registry lock, across drops and re-creations (_dispatch).             *)
OneLockPerObject ==
  \A c \in Conn : Resolved(c) =>
    /\ \A d \in Conn : Resolved(d) /\ conn[d].obj = conn[c].obj => conn[d].lock = conn[c].lock
    /\ IsCurrent(conn[c].obj) => conn[c].lock = locks[conn[c].name]

(* While a request that writes runs on an object, no other request runs on it,     *)
(* even when the collection is dropped and created again meanwhile ("a write is    *)
(* exclusive", server.py:15).                                                 *)
ExclusiveAccess ==
  \A c, d \in Conn :
    c # d /\ conn[c].pc = "run" /\ conn[d].pc = "run" /\ conn[c].op \in WriteOps
      => conn[c].obj # conn[d].obj

(* A save thread and a request, or two save threads, never work on one object at a    *)
(* time ("Persist every open collection under its write lock", server.py:104),      *)
(* except where the collection was dropped under one of them: the pass looks up the   *)
(* lock, waits, and only then looks up the collection.                            *)
SaveIsExclusive ==
  \A s \in SaveThread : pass[s].pc = "run" /\ pass[s].name \notin orphaned =>
    /\ \A c \in Conn : conn[c].pc = "run" => conn[c].obj # pass[s].obj
    /\ \A t \in SaveThread \ {s} : pass[t].pc = "run" => pass[t].obj # pass[s].obj

(* Every acknowledged row is in the object the next request will find under the    *)
(* name, even if that was opened from disk: no second object ever un-shares the     *)
(* memory (_get_col, "MUST be called under self._reg_lock").                     *)
SharedMemory ==
  \A n \in Name : cols[n] # Absent => acked[n] \subseteq objs[cols[n]].rows

(* What was acknowledged when the drain began is on disk when the process exits,   *)
(* if the save of that collection succeeded and nobody dropped it: neither a       *)
(* failure on another collection nor a periodic pass in progress aborts it         *)
(* (_save_all_open).                                                         *)
DrainKeepsDue ==
  ~Serving => \A n \in Name \ (failed \cup orphaned \cup dropped) : due[n] \subseteq disk[n].rows

(* A dropped collection stays off the disk until it is created again, unless      *)
(* something was in flight on it when it was dropped (drop_collection).           *)
DropIsFinal == \A n \in dropped \ orphaned : ~disk[n].there

(* After a stop the process drains and exits, whatever clients and the periodic     *)
(* saver are doing (serve_forever's finally).                                   *)
DrainTerminates == stop ~> ~Serving

-----------------------------------------------------------------------------
(* What the comments say and the code does not do.                             *)

(* "persist everything on the way out" (server.py:413): what was acknowledged is    *)
(* on disk when the process exits, if its save succeeded.                        *)
DrainKeepsAcked ==
  ~Serving => \A n \in Name \ (failed \cup orphaned \cup dropped) : acked[n] \subseteq disk[n].rows

(* drop_collection removes the collection "+ delete its on-disk dir"              *)
(* (server.py:215), with no exception for operations in flight.                  *)
DropDeletes == \A n \in dropped : ~disk[n].there
=============================================================================
