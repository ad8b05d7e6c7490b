---------------------------- MODULE McpInstall ----------------------------
(* `telys mcp install` and `uninstall` (mcp_install.py) on the configuration file of one    *)
(* client and its .bak. A client of kind "merge" (Cursor, Claude Desktop, a Claude         *)
(* project) has its JSON merged, "qwen" is checked for strict JSON first, "codex" has a      *)
(* TOML block appended. A run does one command; --client all does the clients one after      *)
(* another, and they share nothing. The client, or the user, writes the file too. Modelled    *)
(* faults: a kill or a failing write between any two steps. Clients with a command line of     *)
(* their own (claude, codex) are changed by that program; a file that is JSON but no object    *)
(* makes the command raise before it writes.                                       *)
EXTENDS Integers

CONSTANTS
  Run,          \* runs of the command
  MaxEdits,     \* bound on writes by the client
  MaxFaults     \* bound on kills and failing writes

ASSUME ConfigAssumption == MaxEdits \in Nat /\ MaxFaults \in Nat

VARIABLES
  kind,         \* of the client
  file, bak,    \* the configuration and its backup
  edits,        \* the client's settings are numbered; the latest is this one
  pc, op, data, \* of a run: its position, its command, what it has read
  faults,
  result,       \* what the last command printed, until something else happens to the file
  raced,        \* history: a run and another writer were under way at a time
  blank         \* history: a run took a file it could not parse for an empty one: "once",
                \* or "again" when another run followed, or nothing was left of the file

rvars == <<pc, op, data>>
mcpVars  == <<kind, file, bak, edits, rvars, faults, result, raced, blank>>

(* loose is JSON with comments; cut is a file that was truncated. part is the head of a       *)
(* block without its end, twice the same block two times, which TOML forbids.              *)
Content == [form  : {"absent", "cut", "strict", "loose"},
            rest  : 0..MaxEdits,
            entry : {"none", "part", "whole", "twice"}]
Empty     == [form |-> "absent", rest |-> 0, entry |-> "none"]
CutFile   == [form |-> "cut", rest |-> 0, entry |-> "none"]
Unparsable == file.form \in {"cut", "loose"}
Active    == {r \in Run : pc[r] \notin {"idle", "done", "broken"}}

McpInit ==
  /\ kind \in {"merge", "qwen", "codex"}
  /\ file = Empty /\ bak = Empty /\ edits = 0
  /\ pc = [r \in Run |-> "idle"] /\ op = [r \in Run |-> "install"]
  /\ data = [r \in Run |-> Empty]
  /\ faults = 0 /\ result = "none" /\ raced = FALSE /\ blank = "no"

Goes(r, p) == pc' = [pc EXCEPT ![r] = p]
Finish(r, what) == Goes(r, "done") /\ result' = what

-----------------------------------------------------------------------------
(* install and uninstall: the codex block is left to the user to remove.               *)
Start(r) ==
  /\ pc[r] = "idle"
  /\ \E o \in {"install", "remove"} :
       /\ op' = [op EXCEPT ![r] = o]
       /\ Goes(r, CASE kind = "codex" /\ o = "remove"  -> "done"
                    [] kind = "codex" /\ o = "install" -> "backup"
                    [] kind = "qwen"  /\ o = "install" -> "check"
                    [] OTHER                           -> "load")
  /\ result' = "none" /\ raced' = (raced \/ Active # {})
  /\ UNCHANGED <<kind, file, bak, edits, data, faults, blank>>

(* _install_qwen: "fail closed".                                                 *)
Check(r) ==
  /\ pc[r] = "check"
  /\ IF Unparsable THEN Finish(r, "refused") ELSE Goes(r, "load") /\ UNCHANGED result
  /\ UNCHANGED <<kind, file, bak, edits, op, data, faults, raced, blank>>

(* _load_json: what does not parse is taken for {}. So is a file that cannot be opened, which *)
(* is not modelled: as a rule the backup of it fails too.                            *)
Loaded == IF file.form = "strict" THEN file ELSE Empty
Load(r) ==
  /\ pc[r] = "load"
  /\ data' = [data EXCEPT ![r] = Loaded]
  /\ \/ /\ op[r] = "remove" /\ Loaded.entry = "none"
        /\ Finish(r, "not present") /\ UNCHANGED blank
     \/ /\ op[r] = "install" \/ Loaded.entry # "none"
        /\ Goes(r, "backup") /\ UNCHANGED result
        /\ blank' = CASE blank # "no" \/ file.form = "cut" -> "again"
                      [] blank = "no" /\ file.form = "loose" -> "once"
                      [] OTHER -> blank
  /\ UNCHANGED <<kind, file, bak, edits, op, faults, raced>>

\* Mutant: only the first backup is made.
BackupOnce(r) ==
  /\ pc[r] = "backup"
  /\ bak' = IF bak.form = "absent" THEN file ELSE bak
  /\ Goes(r, IF kind = "codex" THEN "read" ELSE "open")
  /\ UNCHANGED <<kind, file, edits, op, data, faults, result, raced, blank>>

(* _backup: of the file as it is now, over the backup there was.                     *)
Backup(r) ==
  /\ pc[r] = "backup"
  /\ bak' = IF file.form = "absent" THEN bak ELSE file
  /\ Goes(r, IF kind = "codex" THEN "read" ELSE "open")
  /\ UNCHANGED <<kind, file, edits, op, data, faults, result, raced, blank>>

(* The end of _merge_json_mcp and _remove_json_mcp: open with "w" truncates.           *)
Open(r) ==
  /\ pc[r] = "open" /\ file' = CutFile /\ Goes(r, "write")
  /\ UNCHANGED <<kind, bak, edits, op, data, faults, result, raced, blank>>

Write(r) ==
  /\ pc[r] = "write"
  /\ file' = [form |-> "strict", rest |-> data[r].rest,
              entry |-> IF op[r] = "install" THEN "whole" ELSE "none"]
  /\ Finish(r, IF op[r] = "install" THEN "installed" ELSE "removed")
  /\ UNCHANGED <<kind, bak, edits, op, data, faults, raced, blank>>

\* Mutant: the block is appended whatever the file has.
ReadNothing(r) ==
  /\ pc[r] = "read" /\ Goes(r, "append")
  /\ UNCHANGED <<kind, file, bak, edits, op, data, faults, result, raced, blank>>

(* _install_codex: a file that has the head of the block is left as it is.             *)
Read(r) ==
  /\ pc[r] = "read"
  /\ IF file.entry # "none" THEN Finish(r, "installed") ELSE Goes(r, "append") /\ UNCHANGED result
  /\ UNCHANGED <<kind, file, bak, edits, op, data, faults, raced, blank>>

Append(r) ==
  /\ pc[r] = "append"
  /\ file' = [form |-> "strict", rest |-> file.rest,
              entry |-> IF file.entry = "none" THEN "whole" ELSE "twice"]
  /\ Finish(r, "installed")
  /\ UNCHANGED <<kind, bak, edits, op, data, faults, raced, blank>>

-----------------------------------------------------------------------------
(* A kill, or a write that fails: install catches the error and goes on to the next         *)
(* client. The backup, or the block that was being appended, may be in part.               *)
Break(r) ==
  /\ r \in Active /\ faults < MaxFaults /\ faults' = faults + 1
  /\ Goes(r, "broken") /\ result' = "none"
  /\ bak' = bak \/ (pc[r] = "backup" /\ file.form # "absent" /\ bak' = CutFile)
  /\ file' = file \/ (/\ pc[r] = "append" /\ file.entry = "none"
                      /\ file' = [file EXCEPT !.form = "strict", !.entry = "part"])
  /\ UNCHANGED <<kind, edits, op, data, raced, blank>>

(* The client changes its settings, and keeps the entry it finds.                     *)
Edit ==
  /\ edits < MaxEdits /\ edits' = edits + 1
  /\ \E f \in IF kind = "codex" THEN {"strict"} ELSE {"strict", "loose"} :
       file' = [form |-> f, rest |-> edits + 1, entry |-> file.entry]
  /\ result' = "none" /\ blank' = "no" /\ raced' = (raced \/ Active # {})
  /\ UNCHANGED <<kind, bak, rvars, faults>>

Step(r) == Check(r) \/ Load(r) \/ Backup(r) \/ Open(r) \/ Write(r) \/ Read(r) \/ Append(r)

McpNext == Edit \/ \E r \in Run : Start(r) \/ Step(r) \/ Break(r)

McpSpec == McpInit /\ [][McpNext]_mcpVars

-----------------------------------------------------------------------------
(* Properties.                                                              *)

(* Every variable has its type (install, uninstall).                                *)
McpTypeOK ==
  /\ kind \in {"merge", "qwen", "codex"}
  /\ file \in Content /\ bak \in Content /\ edits \in 0..MaxEdits
  /\ pc \in [Run -> {"idle", "check", "load", "backup", "open", "write", "read", "append",
                     "done", "broken"}]
  /\ op \in [Run -> {"install", "remove"}] /\ data \in [Run -> Content]
  /\ faults \in 0..MaxFaults
  /\ result \in {"none", "installed", "removed", "not present", "refused"}
  /\ raced \in BOOLEAN /\ blank \in {"no", "once", "again"}

Latest(c) == edits = 0 \/ (c.rest = edits /\ c.form # "cut")

(* The client's own settings are not lost: they are in the file, or, while a run is         *)
(* writing, after one was killed in it, and after one that took an unparsable file for        *)
(* empty, in the .bak. Not so for a second such run, except for qwen, which refuses it,       *)
(* nor when two write at a time (_backup, _merge_json_mcp, _install_qwen).                *)
SettingsKept ==
  \/ raced
  \/ blank = "again" /\ kind # "qwen"
  \/ Latest(file)
  \/ Latest(bak) /\ (Active # {} \/ file.form = "cut" \/ (blank = "once" /\ kind # "qwen"))

(* What a command prints is so: after "installed" the client finds one whole entry in a       *)
(* file that parses, after "removed" and "not present" none, but for a block of codex         *)
(* whose append was cut, and an entry in a file with comments (install, uninstall).          *)
ReportIsTrue ==
  \/ raced
  \/ /\ result = "installed" =>
          file.form = "strict" /\ (file.entry = "whole" \/ (kind = "codex" /\ file.entry = "part"))
     /\ result = "removed" => file.form = "strict" /\ file.entry = "none"
     /\ result = "not present" => file.entry = "none" \/ file.form = "loose"

-----------------------------------------------------------------------------
(* What the comments say and the code does not do.                              *)

(* "idempotent, with a .bak backup" (mcp_install.py:8): the settings are in one of the two.     *)
BackupHasThem == raced \/ Latest(file) \/ Latest(bak)

(* "fail closed instead" (mcp_install.py:213), also when the file changes between the two       *)
(* reads.                                                                     *)
QwenFailsClosed == kind = "qwen" => Latest(file) \/ Latest(bak)

(* A codex client that was registered finds a whole block.                               *)
BlockIsWhole == result = "installed" => file.entry = "whole"
=============================================================================
