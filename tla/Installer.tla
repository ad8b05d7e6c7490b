----------------------------- MODULE Installer -----------------------------
(***************************************************************************)
(* The runtime installer (telys/installer.py, install_from_file) and the loader  *)
(* that decides by what is installed (telys/runtime.py, load_runtime).  Several   *)
(* installers and loaders share $TELYS_HOME/runtime; a killed process leaves its   *)
(* directories behind, and its pid may come back.                               *)
(*                                                                         *)
(* A directory is what it holds: of which bundle, with which license, and which    *)
(* parts.  os.replace moves a directory in one step and fails when there is         *)
(* nothing to move or something in the way.  A leftover staging directory is       *)
(* never looked at again.  Downloads and the signatures themselves are left out.   *)
(***************************************************************************)
EXTENDS Naturals

CONSTANTS
  Pid,       \* installers by process id
  Loader,    \* processes that load the runtime
  Bundle,    \* bundles on offer
  Sound,     \* the bundles whose signature, platform and hashes are right
  License,   \* license files on offer
  Granting,  \* the licenses that grant products.telys
  None,      \* no directory
  MaxKills   \* bound on the installers killed in a run

ASSUME SoundAssumption == Sound \subseteq Bundle /\ Granting \subseteq License
ASSUME NoneAssumption == None \notin [bundle : Bundle, license : License,
                                      parts : SUBSET {"artifacts", "metadata", "license", "record"}]
ASSUME KillsAssumption == MaxKills \in Nat

VARIABLES
  target,    \* install_dir(): a directory or None
  staging,   \* per pid, its .install- directory or None
  backup,    \* per pid, target.old-<pid> or None
  inst,      \* per pid, where install_from_file stands
  hadOld,    \* per pid, had_old
  load,      \* per loader, where load_runtime stands
  kills,     \* installers killed so far
  installed, \* some install was promoted (history)
  cut,       \* an installer was killed with the target set aside (history)
  missed     \* loaders that saw a moment without a target, or began so (history)

dirs    == <<target, staging, backup>>
history == <<installed, cut, missed>>
vars    == <<target, staging, backup, inst, hadOld, load, kills, installed, cut, missed>>

Parts == {"artifacts", "metadata", "license", "record"}

Init ==
  /\ target = None
  /\ staging = [p \in Pid |-> None] /\ backup = [p \in Pid |-> None]
  /\ inst = [p \in Pid |-> "idle"] /\ hadOld = [p \in Pid |-> FALSE]
  /\ load = [l \in Loader |-> "idle"]
  /\ kills = 0 /\ installed = FALSE /\ cut = FALSE /\ missed = {}

-----------------------------------------------------------------------------
(* Staging and verification.                                                   *)
Goto(p, step) == inst' = [inst EXCEPT ![p] = step]

Holding(dir, parts) == [bundle |-> dir.bundle, license |-> dir.license, parts |-> parts]

Begin(p, b, l) ==
  /\ inst[p] = "idle"
  /\ staging' = [staging EXCEPT ![p] = [bundle |-> b, license |-> l, parts |-> {}]]
  /\ Goto(p, "extract")
  /\ UNCHANGED <<target, backup, hadOld, load, kills, history>>

Stage(p, parts, next) ==
  /\ staging' = [staging EXCEPT ![p] = Holding(staging[p], staging[p].parts \cup parts)]
  /\ Goto(p, next)
  /\ UNCHANGED <<target, backup, hadOld, load, kills, history>>

(* The signature comes before anything is written; each artifact is hashed.        *)
Extract(p) ==
  /\ inst[p] = "extract" /\ staging[p].bundle \in Sound
  /\ Stage(p, {"artifacts"}, "license")

\* Mutant: the license is stored without being verified.
VerifyLicenseLater(p) ==
  /\ inst[p] = "license"
  /\ Stage(p, {}, "write")

VerifyLicense(p) ==
  /\ inst[p] = "license" /\ staging[p].license \in Granting
  /\ Stage(p, {}, "write")

\* Mutant: the install record is left out.
WriteNoRecord(p) ==
  /\ inst[p] = "write"
  /\ Stage(p, {"metadata", "license"}, "look")

WriteMetadata(p) ==
  /\ inst[p] = "write"
  /\ Stage(p, {"metadata", "license", "record"}, "look")

\* Mutant: a failed install keeps its staging directory.
CleanUpNothing(p) ==
  /\ Goto(p, "idle")
  /\ hadOld' = [hadOld EXCEPT ![p] = FALSE]
  /\ UNCHANGED staging

(* finally: whatever was raised, the staging directory goes.                       *)
CleanUp(p) ==
  /\ staging' = [staging EXCEPT ![p] = None]
  /\ Goto(p, "idle")
  /\ hadOld' = [hadOld EXCEPT ![p] = FALSE]

(* A check fails, or the disk does.                                              *)
Raise(p) ==
  /\ inst[p] \in {"extract", "license", "write", "look", "aside"}
  /\ CleanUp(p)
  /\ UNCHANGED <<target, backup, load, kills, history>>

-----------------------------------------------------------------------------
(* Promotion.                                                                 *)
Look(p) ==
  /\ inst[p] = "look"
  /\ hadOld' = [hadOld EXCEPT ![p] = target # None]
  /\ Goto(p, IF target # None THEN "aside" ELSE "promote")
  /\ UNCHANGED <<dirs, load, kills, history>>

Loading == {l \in Loader : load[l] = "record"}

(* The call that set the install aside has to bring it back or replace it.           *)
SetAsideBy(p) == hadOld[p] /\ inst[p] \in {"promote", "rollback"}

(* os.replace(target, backup), which raises if another installer was faster, or     *)
(* an earlier process of this pid left its backup.                                *)
SetAside(p) ==
  /\ inst[p] = "aside" /\ target # None /\ backup[p] = None
  /\ backup' = [backup EXCEPT ![p] = target]
  /\ target' = None
  /\ missed' = missed \cup Loading
  /\ Goto(p, "promote")
  /\ UNCHANGED <<staging, hadOld, load, kills, installed, cut>>

Promote(p) ==
  /\ inst[p] = "promote" /\ target = None
  /\ target' = staging[p]
  /\ staging' = [staging EXCEPT ![p] = None]
  /\ installed' = TRUE
  /\ Goto(p, IF hadOld[p] THEN "drop" ELSE "idle")
  /\ UNCHANGED <<backup, hadOld, load, kills, cut, missed>>

(* The last rename fails: another installer was faster, or the disk failed.         *)
PromoteFails(p) ==
  /\ inst[p] = "promote"
  /\ IF hadOld[p] THEN Goto(p, "rollback") /\ UNCHANGED <<staging, hadOld>> ELSE CleanUp(p)
  /\ UNCHANGED <<target, backup, load, kills, history>>

\* Mutant: the backup is dropped instead of restored.
RollBackDrops(p) ==
  /\ inst[p] = "rollback"
  /\ backup' = [backup EXCEPT ![p] = None]
  /\ CleanUp(p)
  /\ UNCHANGED <<target, load, kills, history>>

(* os.replace(backup, target): raises when another install is in the way.           *)
RollBack(p) ==
  /\ inst[p] = "rollback"
  /\ IF target = None
     THEN target' = backup[p] /\ backup' = [backup EXCEPT ![p] = None]
     ELSE UNCHANGED <<target, backup>>
  /\ CleanUp(p)
  /\ UNCHANGED <<load, kills, history>>

(* rmtree(backup, ignore_errors=True), which is taken to succeed.                  *)
Drop(p) ==
  /\ inst[p] = "drop"
  /\ backup' = [backup EXCEPT ![p] = None]
  /\ Goto(p, "idle")
  /\ hadOld' = [hadOld EXCEPT ![p] = FALSE]
  /\ UNCHANGED <<target, staging, load, kills, history>>

(* A kill runs no finally; in the middle of the rmtree it leaves some of the backup.  *)
Kill(p) ==
  /\ kills < MaxKills /\ inst[p] # "idle"
  /\ kills' = kills + 1
  /\ cut' = (cut \/ SetAsideBy(p))
  /\ IF inst[p] = "drop"
     THEN \E rest \in SUBSET backup[p].parts :
            backup' = [backup EXCEPT ![p] = IF rest = {} THEN None ELSE Holding(backup[p], rest)]
     ELSE UNCHANGED backup
  /\ CleanUp(p)
  /\ UNCHANGED <<target, load, installed, missed>>

-----------------------------------------------------------------------------
(* load_runtime: _verified_install_present looks for the library, then for the      *)
(* record; without both the in-process runtime is tried instead of the native.     *)
Has(part) == target # None /\ part \in target.parts

BeginLoad(l) ==
  /\ load[l] \in {"idle", "native", "local"}
  /\ load' = [load EXCEPT ![l] = IF Has("artifacts") THEN "record" ELSE "local"]
  /\ missed' = IF target = None THEN missed \cup {l} ELSE missed \ {l}
  /\ UNCHANGED <<dirs, inst, hadOld, kills, installed, cut>>

ReadRecord(l) ==
  /\ load[l] = "record"
  /\ load' = [load EXCEPT ![l] = IF Has("record") THEN "native" ELSE "local"]
  /\ UNCHANGED <<dirs, inst, hadOld, kills, history>>

Next ==
  \/ \E p \in Pid, b \in Bundle, l \in License : Begin(p, b, l)
  \/ \E p \in Pid : \/ Extract(p) \/ VerifyLicense(p) \/ WriteMetadata(p) \/ Raise(p)
                    \/ Look(p) \/ SetAside(p) \/ Promote(p) \/ PromoteFails(p)
                    \/ RollBack(p) \/ Drop(p) \/ Kill(p)
  \/ \E l \in Loader : BeginLoad(l) \/ ReadRecord(l)

Spec == Init /\ [][Next]_vars

-----------------------------------------------------------------------------
(* Properties.                                                                *)
Directory == [bundle : Bundle, license : License, parts : SUBSET Parts]

(* Every variable has its type, and a staging directory belongs to a call that has   *)
(* not ended (install_from_file's finally).                                     *)
TypeOK ==
  /\ target \in Directory \cup {None}
  /\ backup \in [Pid -> Directory \cup {None}]
  /\ \A p \in Pid : IF inst[p] \in {"idle", "drop"} THEN staging[p] = None
                                                     ELSE staging[p] \in Directory
  /\ inst \in [Pid -> {"idle", "extract", "license", "write", "look", "aside",
                       "promote", "rollback", "drop"}]
  /\ hadOld \in [Pid -> BOOLEAN]
  /\ load \in [Loader -> {"idle", "record", "native", "local"}]
  /\ kills \in 0..MaxKills /\ installed \in BOOLEAN /\ cut \in BOOLEAN
  /\ missed \subseteq Loader

(* Nothing is ever half-installed (InstallError, installer.py:34): what lies in the   *)
(* install directory, or would be rolled back to, is a sound bundle, licensed, with   *)
(* all its parts, whoever else installs, fails or is killed meanwhile.             *)
NothingHalfInstalled ==
  \A d \in {target} \cup {backup[p] : p \in {q \in Pid : SetAsideBy(q)}} :
    d # None => d.parts = Parts /\ d.bundle \in Sound /\ d.license \in Granting

(* A failed install does not cost the one that was there: once something was        *)
(* installed and nobody is in the middle, something is installed, unless a kill       *)
(* came between the two renames ("restore the previous install").                 *)
NothingLost ==
  installed /\ ~cut /\ (\A p \in Pid : inst[p] = "idle") => target # None

(* A load falls back on the in-process runtime only if there was a moment without    *)
(* an install since it began (_verified_install_present).                         *)
FallbackHadCause == \A l \in Loader : load[l] = "local" => l \in missed

-----------------------------------------------------------------------------
(* What the comments say and the code does not do.                             *)

(* "The readable-Python LocalRuntime is never a fallback there" (runtime.py:168): a   *)
(* load does not decide for the in-process one after a verified install was made.     *)
NeverLocal ==
  [][\A l \in Loader : installed /\ load'[l] = "local" => load[l] = "local"]_vars

(* "rename the new one into place, then drop the backup. If the final rename fails,  *)
(* restore the previous install" (installer.py:183): no call that ended leaves a      *)
(* backup.                                                                    *)
BackupsDropped == \A p \in Pid : inst[p] = "idle" => backup[p] = None
=============================================================================
