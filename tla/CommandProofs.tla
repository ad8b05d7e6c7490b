--------------------------- MODULE CommandProofs ---------------------------
(***************************************************************************)
(* The commands of an installation: the runtime installer, the supervisor of the    *)
(* server and the registration with MCP clients.                                *)
(*                                                                         *)
(* Installer.  Nothing is half-installed, nothing is lost and no load falls back    *)
(* without cause, for any number of installers, loaders, bundles, licenses and      *)
(* kills.  A staging directory has what the steps behind its installer gave it      *)
(* (Staged), and only complete ones are moved to the target.  A target that was      *)
(* set aside is in the backup of a call that has not ended (Kept).                *)
(*                                                                         *)
(* Supervisor.  Crash loops are capped, and only they are given up on, for every    *)
(* limit and window.  A relaunch is one unit younger than the death it answers,     *)
(* which is remembered as long as it counts.                                   *)
(*                                                                         *)
(* McpInstall.  A client's settings are kept and reports are true for any number    *)
(* of runs, edits and faults.  At each step of the run under way one of the two      *)
(* files, or what the run has read, is known to have the settings.                *)
(***************************************************************************)
EXTENDS Installer, Supervisor, McpInstall, FiniteSetTheorems, TLAPS

Steps == {"idle", "extract", "license", "write", "look", "aside", "promote", "rollback", "drop"}

Complete(d) == d.parts = Parts /\ d.bundle \in Sound /\ d.license \in Granting

DirType ==
  /\ target \in Directory \cup {None}
  /\ staging \in [Pid -> Directory \cup {None}]
  /\ backup \in [Pid -> Directory \cup {None}]
  /\ inst \in [Pid -> Steps]
  /\ hadOld \in [Pid -> BOOLEAN]

(* What has been verified of a staging directory.                                 *)
Staged ==
  \A p \in Pid :
    /\ inst[p] \notin {"idle", "drop"} => staging[p] \in Directory
    /\ inst[p] \in {"idle", "drop"} => staging[p] = None
    /\ inst[p] = "extract" => staging[p].parts = {}
    /\ inst[p] = "license" =>
         staging[p].parts = {"artifacts"} /\ staging[p].bundle \in Sound
    /\ inst[p] = "write" =>
         /\ staging[p].parts = {"artifacts"} /\ staging[p].bundle \in Sound
         /\ staging[p].license \in Granting
    /\ inst[p] \in {"look", "aside", "promote", "rollback"} => Complete(staging[p])

(* What lies in the target, and in the backups that may come back.                  *)
Held ==
  /\ target # None => Complete(target)
  /\ \A p \in Pid : SetAsideBy(p) => backup[p] \in Directory /\ Complete(backup[p])
  /\ \A p \in Pid : inst[p] = "aside" => hadOld[p]
  /\ \A p \in Pid : inst[p] = "drop" => backup[p] \in Directory
  /\ \A p \in Pid : inst[p] = "rollback" => hadOld[p]

(* What was installed is in the target or in one of those backups.                  *)
Kept == installed /\ ~cut => target # None \/ \E p \in Pid : SetAsideBy(p)

(* A loader that found the library missed the install if it is gone by now.          *)
Loads ==
  /\ load \in [Loader -> {"idle", "record", "native", "local"}]
  /\ missed \subseteq Loader
  /\ \A l \in Loader : load[l] = "record" /\ target = None => l \in missed
  /\ FallbackHadCause

IInv == DirType /\ Staged /\ Held /\ Kept /\ Loads

-----------------------------------------------------------------------------
LEMMA InitHolds == Init => IInv
BY DEF Init, IInv, DirType, Staged, Held, Kept, Loads, FallbackHadCause, SetAsideBy, Steps

(* Steps that stage, or that end a call without touching target and backups.          *)
LEMMA StagingSteps ==
  ASSUME IInv, NEW p \in Pid,
         \/ \E b \in Bundle, l \in License : Begin(p, b, l)
         \/ Extract(p) \/ VerifyLicense(p) \/ WriteMetadata(p) \/ Raise(p)
  PROVE  IInv'
<1>1. /\ ~SetAsideBy(p) /\ ~SetAsideBy(p)'
      /\ \A q \in Pid \ {p} : inst'[q] = inst[q] /\ hadOld'[q] = hadOld[q] /\ staging'[q] = staging[q]
      /\ inst'[p] \notin {"aside", "rollback", "drop"} /\ inst' \in [Pid -> Steps]
      /\ hadOld' \in [Pid -> BOOLEAN]
      /\ UNCHANGED <<target, backup, load, installed, cut, missed>>
  BY DEF IInv, DirType, Begin, Extract, VerifyLicense, WriteMetadata, Raise, Stage, Goto, CleanUp,
     SetAsideBy, Steps, history
<1>2. /\ staging' \in [Pid -> Directory \cup {None}]
      /\ inst'[p] # "idle" => staging'[p] \in Directory
      /\ inst'[p] = "idle" => staging'[p] = None
      /\ inst'[p] = "extract" => staging'[p].parts = {}
      /\ inst'[p] = "license" => staging'[p].parts = {"artifacts"} /\ staging'[p].bundle \in Sound
      /\ inst'[p] = "write" =>
           /\ staging'[p].parts = {"artifacts"} /\ staging'[p].bundle \in Sound
           /\ staging'[p].license \in Granting
      /\ inst'[p] \in {"look", "promote"} => Complete(staging'[p])
  <2>1. CASE \E b \in Bundle, l \in License : Begin(p, b, l)
    <3>1. PICK b \in Bundle, l \in License : Begin(p, b, l)
      BY <2>1
    <3>2. [bundle |-> b, license |-> l, parts |-> {}] \in Directory
      BY DEF Directory
    <3>3. staging'[p] \in Directory /\ staging'[p].parts = {} /\ inst'[p] = "extract"
      BY <3>1, <3>2 DEF IInv, DirType, Begin, Goto
    <3>4. staging' \in [Pid -> Directory \cup {None}]
      BY <3>1, <3>2 DEF IInv, DirType, Begin
    <3> QED BY <3>3, <3>4
  <2>2. ASSUME NEW parts \in SUBSET Parts, NEW next, Stage(p, parts, next),
               inst[p] \in {"extract", "license", "write"}
        PROVE  /\ staging' \in [Pid -> Directory \cup {None}] /\ staging'[p] \in Directory
               /\ staging'[p].parts = staging[p].parts \cup parts
               /\ staging'[p].bundle = staging[p].bundle /\ staging'[p].license = staging[p].license
               /\ inst'[p] = next
    <3>1. staging[p] \in Directory
      BY <2>2 DEF IInv, Staged
    <3>2. Holding(staging[p], staging[p].parts \cup parts) \in Directory
      BY <3>1 DEF Directory, Holding
    <3>3. staging'[p] = Holding(staging[p], staging[p].parts \cup parts) /\ inst'[p] = next
      BY <2>2 DEF IInv, DirType, Stage, Goto
    <3>4. staging' \in [Pid -> Directory \cup {None}]
      BY <2>2, <3>2 DEF IInv, DirType, Stage
    <3> QED BY <3>2, <3>3, <3>4 DEF Holding
  <2>3. CASE Extract(p)
    <3>1. staging[p].parts = {}
      BY <2>3 DEF IInv, Staged, Extract
    <3> QED BY <2>2, <2>3, <3>1 DEF Extract, Parts
  <2>4. CASE VerifyLicense(p)
    <3>1. /\ staging[p].parts = {"artifacts"} /\ staging[p].bundle \in Sound
          /\ staging[p].license \in Granting /\ Stage(p, {}, "write") /\ inst[p] = "license"
      BY <2>4 DEF IInv, Staged, VerifyLicense
    <3>2. {} \in SUBSET Parts
      OBVIOUS
    <3>3. inst'[p] = "write" /\ staging'[p] \in Directory /\ staging'[p].parts = staging[p].parts \cup {}
      BY <2>2, <3>1, <3>2
    <3> QED BY <2>2, <3>1, <3>2, <3>3
  <2>5. CASE WriteMetadata(p)
    <3>1. /\ staging[p].parts = {"artifacts"} /\ staging[p].bundle \in Sound
          /\ staging[p].license \in Granting /\ inst[p] = "write"
          /\ Stage(p, {"metadata", "license", "record"}, "look")
      BY <2>5 DEF IInv, Staged, WriteMetadata
    <3>2. {"metadata", "license", "record"} \in SUBSET Parts
      BY DEF Parts
    <3>3. inst'[p] = "look" /\ staging'[p] \in Directory
          /\ staging'[p].parts = staging[p].parts \cup {"metadata", "license", "record"}
      BY <2>2, <3>1, <3>2
    <3>4. Complete(staging'[p])
      BY <2>2, <3>1, <3>2, <3>3 DEF Complete, Parts
    <3> QED BY <2>2, <3>1, <3>2, <3>3, <3>4
  <2>6. CASE Raise(p)
    BY <2>6 DEF IInv, DirType, Raise, CleanUp, Goto, Steps
  <2> QED BY <2>1, <2>3, <2>4, <2>5, <2>6
<1>3. DirType'
  BY <1>1, <1>2 DEF IInv, DirType
<1>4. Staged'
  BY <1>1, <1>2 DEF IInv, Staged, Steps, Complete
<1>5. Held' /\ Kept' /\ Loads'
  BY <1>1 DEF IInv, Held, Kept, Loads, FallbackHadCause, SetAsideBy, Complete
<1> QED BY <1>3, <1>4, <1>5 DEF IInv

(* Steps that promote, roll back or are killed on the way.                          *)
LEMMA PromotionSteps ==
  ASSUME IInv, NEW p \in Pid,
         \/ Look(p) \/ SetAside(p) \/ Promote(p) \/ PromoteFails(p)
         \/ RollBack(p) \/ Drop(p) \/ Kill(p)
  PROVE  IInv'
<1>1. CASE Look(p)
  <2>1. DirType' /\ Staged'
    BY <1>1 DEF IInv, DirType, Staged, Look, Goto, dirs, Steps, Complete
  <2>2. Held' /\ Kept' /\ Loads'
    BY <1>1 DEF IInv, DirType, Held, Kept, Loads, FallbackHadCause, Look, Goto, SetAsideBy, dirs,
       history, Steps, Complete
  <2> QED BY <2>1, <2>2 DEF IInv
<1>2. CASE SetAside(p)
  <2>1. DirType' /\ Staged'
    BY <1>2 DEF IInv, DirType, Staged, SetAside, Goto, Steps, Complete
  <2>2. Held' /\ Kept'
    BY <1>2 DEF IInv, DirType, Held, Kept, SetAside, Goto, SetAsideBy, Steps, Complete
  <2>3. Loads'
    BY <1>2 DEF IInv, Loads, FallbackHadCause, SetAside, Loading
  <2> QED BY <2>1, <2>2, <2>3 DEF IInv
<1>3. CASE Promote(p)
  <2>1. staging[p] \in Directory /\ Complete(staging[p]) /\ staging[p] # None
    BY <1>3, NoneAssumption DEF IInv, Staged, Promote, Directory, Parts
  <2>2. DirType' /\ Staged'
    BY <1>3, <2>1 DEF IInv, DirType, Staged, Promote, Goto, Steps, Complete
  <2>3. Held' /\ Kept'
    BY <1>3, <2>1 DEF IInv, DirType, Held, Kept, Promote, Goto, SetAsideBy, Steps, Complete
  <2>4. Loads'
    BY <1>3, <2>1 DEF IInv, Loads, FallbackHadCause, Promote
  <2> QED BY <2>2, <2>3, <2>4 DEF IInv
<1>4. CASE PromoteFails(p)
  <2>1. /\ UNCHANGED <<target, backup>> /\ inst[p] = "promote"
        /\ \/ inst' = [inst EXCEPT ![p] = "rollback"] /\ UNCHANGED <<staging, hadOld>>
           \/ /\ inst' = [inst EXCEPT ![p] = "idle"] /\ staging' = [staging EXCEPT ![p] = None]
              /\ hadOld' = [hadOld EXCEPT ![p] = FALSE]
    BY <1>4 DEF PromoteFails, Goto, CleanUp
  <2>3. DirType'
    BY <2>1 DEF IInv, DirType, Steps
  <2>4. Staged'
    <3>1. CASE inst' = [inst EXCEPT ![p] = "rollback"] /\ UNCHANGED staging
      BY <2>1, <3>1 DEF IInv, DirType, Staged, Steps, Complete
    <3>2. CASE inst' = [inst EXCEPT ![p] = "idle"] /\ staging' = [staging EXCEPT ![p] = None]
      BY <2>1, <3>2 DEF IInv, DirType, Staged, Steps, Complete
    <3> QED BY <2>1, <3>1, <3>2
  <2>2. Held' /\ Kept' /\ Loads'
    BY <1>4 DEF IInv, DirType, Held, Kept, Loads, FallbackHadCause, PromoteFails, Goto, CleanUp,
       SetAsideBy, history, Steps, Complete
  <2> QED BY <2>2, <2>3, <2>4 DEF IInv
<1>5. CASE RollBack(p)
  <2>1. backup[p] \in Directory /\ Complete(backup[p]) /\ backup[p] # None
    BY <1>5, NoneAssumption DEF IInv, Held, RollBack, SetAsideBy, Directory, Parts
  <2>2. DirType' /\ Staged'
    BY <1>5, <2>1 DEF IInv, DirType, Staged, RollBack, Goto, CleanUp, Steps, Complete
  <2>3. Held' /\ Kept'
    BY <1>5, <2>1 DEF IInv, DirType, Held, Kept, RollBack, Goto, CleanUp, SetAsideBy, history, Steps,
       Complete
  <2>4. Loads'
    BY <1>5, <2>1 DEF IInv, Loads, FallbackHadCause, RollBack, history
  <2> QED BY <2>2, <2>3, <2>4 DEF IInv
<1>6. CASE Drop(p)
  <2>1. DirType' /\ Staged'
    BY <1>6 DEF IInv, DirType, Staged, Drop, Goto, Steps, Complete
  <2>2. Held' /\ Kept' /\ Loads'
    BY <1>6 DEF IInv, DirType, Held, Kept, Loads, FallbackHadCause, Drop, Goto, SetAsideBy, history,
       Steps, Complete
  <2> QED BY <2>1, <2>2 DEF IInv
<1>7. CASE Kill(p)
  <2>1. backup' \in [Pid -> Directory \cup {None}] /\ \A q \in Pid \ {p} : backup'[q] = backup[q]
    <3>1. CASE inst[p] = "drop"
      <4>1. PICK rest \in SUBSET backup[p].parts :
              backup' = [backup EXCEPT ![p] = IF rest = {} THEN None ELSE Holding(backup[p], rest)]
        BY <1>7, <3>1 DEF Kill
      <4>2. backup[p] \in Directory
        BY <3>1 DEF IInv, Held
      <4>3. Holding(backup[p], rest) \in Directory
        BY <4>2 DEF Directory, Holding
      <4> QED BY <4>1, <4>3 DEF IInv, DirType
    <3>2. CASE inst[p] # "drop"
      BY <1>7, <3>2 DEF Kill, IInv, DirType
    <3> QED BY <3>1, <3>2
  <2>2. DirType' /\ Staged'
    BY <1>7, <2>1 DEF IInv, DirType, Staged, Kill, Goto, CleanUp, Steps, Complete
  <2>3. Held' /\ Kept' /\ Loads'
    BY <1>7, <2>1 DEF IInv, DirType, Held, Kept, Loads, FallbackHadCause, Kill, Goto, CleanUp,
       SetAsideBy, Steps, Complete
  <2> QED BY <2>2, <2>3 DEF IInv
<1> QED BY <1>1, <1>2, <1>3, <1>4, <1>5, <1>6, <1>7

(* A loader that finds no library or no record is in a moment without an install,     *)
(* since an install has both.                                                   *)
LEMMA LoadSteps ==
  ASSUME IInv, NEW l \in Loader, BeginLoad(l) \/ ReadRecord(l)
  PROVE  IInv'
<1>1. DirType' /\ Staged' /\ Held' /\ Kept'
  BY DEF IInv, DirType, Staged, Held, Kept, BeginLoad, ReadRecord, dirs, history, SetAsideBy, Complete
<1>2. target # None => Has("artifacts") /\ Has("record")
  BY DEF IInv, Held, Has, Complete, Parts
<1>3. Loads'
  BY <1>2 DEF IInv, Loads, FallbackHadCause, BeginLoad, ReadRecord, dirs, history, Has
<1> QED BY <1>1, <1>3 DEF IInv

LEMMA StepHolds == IInv /\ [Next]_vars => IInv'
<1> SUFFICES ASSUME IInv, [Next]_vars PROVE IInv'
  OBVIOUS
<1>1. CASE UNCHANGED vars
  BY <1>1 DEF vars, IInv, DirType, Staged, Held, Kept, Loads, FallbackHadCause, SetAsideBy, Complete
<1>2. CASE Next
  BY <1>2, StagingSteps, PromotionSteps, LoadSteps DEF Next
<1> QED BY <1>1, <1>2

LEMMA Invariant == Spec => []IInv
BY InitHolds, StepHolds, PTL DEF Spec

(* Nothing is ever half-installed (installer.py:34), whoever installs, fails or is    *)
(* killed meanwhile.                                                            *)
THEOREM InstalledIsWhole == Spec => []NothingHalfInstalled
<1>1. IInv => NothingHalfInstalled
  BY DEF IInv, Held, NothingHalfInstalled, SetAsideBy, Complete
<1> QED BY <1>1, Invariant, PTL

(* A failed upgrade does not cost the install it would have replaced                *)
(* (install_from_file's rollback).                                              *)
THEOREM InstallIsKept == Spec => []NothingLost
<1>1. IInv => NothingLost
  BY DEF IInv, Kept, NothingLost, SetAsideBy
<1> QED BY <1>1, Invariant, PTL

(* A load falls back on the in-process runtime only when it met a moment without an    *)
(* install (load_runtime).                                                      *)
THEOREM FallbacksHadCause == Spec => []FallbackHadCause
<1>1. IInv => FallbackHadCause
  BY DEF IInv, Loads
<1> QED BY <1>1, Invariant, PTL

(* Every variable has its type, and a staging directory belongs to a call that has not   *)
(* ended (install_from_file's finally).                                          *)
THEOREM InstallerTypeCorrect == Spec => []TypeOK
<1> DEFINE Flags == kills \in 0..MaxKills /\ installed \in BOOLEAN /\ cut \in BOOLEAN
<1>1. Init => Flags
  <2>1. 0 \in 0..MaxKills
    BY KillsAssumption
  <2> QED BY <2>1 DEF Init
<1>2. Flags /\ [Next]_vars => Flags'
  <2> SUFFICES ASSUME Flags, [Next]_vars PROVE Flags'
    OBVIOUS
  <2>1. CASE \E p \in Pid : Kill(p)
    <3>1. kills' = kills + 1 /\ kills < MaxKills /\ cut' \in BOOLEAN /\ installed' = installed
      BY <2>1 DEF Kill
    <3> QED BY <3>1, KillsAssumption
  <2>2. CASE (Next /\ ~\E p \in Pid : Kill(p)) \/ UNCHANGED vars
    BY <2>2 DEF Next, vars, Begin, Extract, VerifyLicense, WriteMetadata, Stage, Raise, Look, SetAside,
                Promote, PromoteFails, RollBack, Drop, BeginLoad, ReadRecord, history
  <2> QED BY <2>1, <2>2
<1>3. IInv /\ Flags => TypeOK
  BY DEF IInv, DirType, Staged, Loads, TypeOK, Steps
<1> HIDE DEF Flags
<1> QED BY <1>1, <1>2, <1>3, Invariant, PTL DEF Spec

-----------------------------------------------------------------------------
(* The supervisor.  The restarts it remembers are all the recent deaths, and each relaunch   *)
(* that will still be recent with its death has that death among them.                   *)
SupInv ==
  /\ SupTypeOK
  /\ sup = "sleep" => Cardinality(restarts) <= MaxRestarts
  /\ sup = "done" => child \in {"clean", "failed"}
  /\ \A a \in relaunches : a + 1 < Window => a + 1 \in restarts
  /\ CrashLoopCapped /\ NoEarlyGiveUp

LEMMA AgesFinite ==
  ASSUME NEW S, S \subseteq 0..Window
  PROVE  IsFiniteSet(S) /\ Cardinality(S) \in Nat
<1>1. IsFiniteSet(0..Window)
  BY LimitsAssumption, FS_Interval
<1> QED BY <1>1, FS_Subset, FS_CardinalityType

LEMMA FewerAges ==
  ASSUME NEW S, S \subseteq 0..Window, NEW T, T \subseteq S
  PROVE  Cardinality(T) <= Cardinality(S)
BY AgesFinite, FS_Subset

LEMMA OlderAges ==
  ASSUME NEW S, S \subseteq 0..Window
  PROVE  /\ Older(S) \subseteq 0..Window
         /\ \A a \in S : a < Window => a + 1 \in Older(S)
         /\ \A b \in Older(S) : b < Window => b - 1 \in S /\ b - 1 < Window /\ b \in Nat
BY LimitsAssumption DEF Older

(* Time makes no set of ages larger.                                                    *)
LEMMA FewerRecent ==
  ASSUME NEW S, S \subseteq 0..Window
  PROVE  Cardinality(Recent(Older(S))) <= Cardinality(Recent(S))
<1> DEFINE f == [b \in Recent(Older(S)) |-> b - 1]
<1>1. \A b \in Recent(Older(S)) : b - 1 \in Recent(S) /\ b \in Nat
  BY OlderAges DEF Recent
<1>2. f \in [Recent(Older(S)) -> Recent(S)]
  BY <1>1
<1>3. \A b, d \in Recent(Older(S)) : f[b] = f[d] => b = d
  BY <1>1
<1> HIDE DEF f
<1>4. f \in Injection(Recent(Older(S)), Recent(S))
  BY <1>2, <1>3 DEF Injection, IsInjective
<1>5. IsFiniteSet(Recent(S))
  BY AgesFinite DEF Recent
<1> QED BY <1>4, <1>5, FS_Injection

LEMMA SupInitHolds == SupInit => SupInv
<1>1. Recent({}) = {} /\ Cardinality({}) = 0
  BY FS_EmptySet DEF Recent
<1> SUFFICES ASSUME SupInit PROVE SupInv
  OBVIOUS
<1>2. SupTypeOK /\ relaunches = {} /\ sup = "spawn"
  BY DEF SupInit, SupTypeOK
<1>3. CrashLoopCapped
  BY <1>1, <1>2, LimitsAssumption DEF CrashLoopCapped
<1> QED BY <1>2, <1>3 DEF SupInv, NoEarlyGiveUp

(* Steps that leave what is remembered alone, and do not end in a failure.                  *)
LEMMA SupUntouched ==
  ASSUME SupInv, UNCHANGED <<restarts, deaths, relaunches>>, sup' \in {"spawn", "wait", "done"},
         child' \in {"none", "starting", "serving", "draining", "clean", "failed"},
         stopped' \in BOOLEAN, owed' \in BOOLEAN,
         sup' = "done" => (sup = "done" /\ child' = child) \/ child' = "clean"
  PROVE  SupInv'
BY DEF SupInv, SupTypeOK, CrashLoopCapped, NoEarlyGiveUp

LEMMA SupTick == ASSUME SupInv, Tick PROVE SupInv'
<1>1. /\ sup = "wait" /\ UNCHANGED <<sup, child, stopped, owed>>
      /\ restarts' = Older(restarts) /\ deaths' = Older(deaths) /\ relaunches' = Older(relaunches)
      /\ restarts \subseteq deaths /\ deaths \subseteq 0..Window /\ relaunches \subseteq 0..Window
  BY DEF Tick, SupInv, SupTypeOK
<1>2. restarts' \subseteq deaths'
  BY <1>1 DEF Older
<1>3. deaths' \subseteq 0..Window /\ relaunches' \subseteq 0..Window
  BY <1>1, OlderAges
<1>4. ASSUME NEW b \in relaunches', b + 1 < Window PROVE b + 1 \in restarts'
  <2>1. b \in 0..Window /\ b < Window
    BY <1>3, <1>4, LimitsAssumption
  <2>2. b - 1 \in relaunches /\ b \in Nat
    BY <1>1, <2>1, OlderAges
  <2>3. (b - 1) + 1 = b /\ b < Window
    BY <2>1, <2>2
  <2>4. b \in restarts
    BY <2>2, <2>3 DEF SupInv
  <2> QED BY <1>1, <2>1, <2>4, OlderAges
<1>5. CrashLoopCapped'
  <2>1. /\ Cardinality(Recent(relaunches')) <= Cardinality(Recent(relaunches))
        /\ Cardinality(Recent(relaunches)) <= MaxRestarts
    BY <1>1, FewerRecent DEF SupInv, CrashLoopCapped
  <2>2. Recent(relaunches) \subseteq 0..Window /\ Recent(relaunches') \subseteq 0..Window
    BY <1>1, <1>3 DEF Recent
  <2>3. Cardinality(Recent(relaunches)) \in Nat /\ Cardinality(Recent(relaunches')) \in Nat
    BY <2>2, AgesFinite
  <2> QED BY <2>1, <2>3, LimitsAssumption DEF CrashLoopCapped
<1> QED BY <1>1, <1>2, <1>3, <1>4, <1>5 DEF SupInv, SupTypeOK, NoEarlyGiveUp

LEMMA SupReapFailed == ASSUME SupInv, ReapFailed PROVE SupInv'
<1>1. /\ sup = "wait" /\ child = "failed" /\ UNCHANGED <<child, stopped, owed, relaunches>>
      /\ restarts' = Recent(restarts) \cup {0} /\ deaths' = deaths \cup {0}
      /\ sup' = IF Cardinality(restarts') > MaxRestarts THEN "done" ELSE "sleep"
      /\ restarts \subseteq deaths /\ deaths \subseteq 0..Window /\ relaunches \subseteq 0..Window
  BY DEF ReapFailed, Remembered, SupInv, SupTypeOK
<1>2. restarts' \subseteq Recent(deaths') /\ 0 \in restarts' /\ deaths' \subseteq 0..Window
  <2>1. 0 < Window /\ 0 \in 0..Window
    BY LimitsAssumption
  <2>2. deaths' \subseteq 0..Window
    BY <1>1, <2>1
  <2>3. \A a \in restarts' : a \in Recent(deaths')
    BY <1>1, <2>1 DEF Recent
  <2> QED BY <1>1, <2>2, <2>3
<1>3. Recent(deaths') \subseteq 0..Window
  BY <1>2 DEF Recent
<1>4. /\ Cardinality(restarts') <= Cardinality(Recent(deaths'))
      /\ Cardinality(restarts') \in Nat /\ Cardinality(Recent(deaths')) \in Nat
  BY <1>2, <1>3, FewerAges, AgesFinite
<1>5. sup' = "done" => Cardinality(Recent(deaths')) > MaxRestarts
  BY <1>1, <1>4, LimitsAssumption
<1>6. sup' = "sleep" => Cardinality(restarts') <= MaxRestarts
  BY <1>1, <1>4, LimitsAssumption
<1>7. \A a \in relaunches' : a + 1 < Window => a + 1 \in restarts'
  BY <1>1 DEF SupInv, Recent
<1>8. SupTypeOK'
  BY <1>1, <1>2 DEF SupInv, SupTypeOK, Recent
<1> QED BY <1>1, <1>5, <1>6, <1>7, <1>8 DEF SupInv, CrashLoopCapped, NoEarlyGiveUp

(* The relaunches that are recent after this one are as old as the deaths remembered, which   *)
(* the check at the last death counted.                                                 *)
LEMMA SupSleep == ASSUME SupInv, Sleep PROVE SupInv'
<1>1. /\ sup = "sleep" /\ sup' = "spawn" /\ UNCHANGED <<child, stopped, owed>>
      /\ restarts' = Older(restarts) /\ deaths' = Older(deaths)
      /\ relaunches' = Older(relaunches) \cup {0}
      /\ restarts \subseteq deaths /\ deaths \subseteq 0..Window /\ relaunches \subseteq 0..Window
      /\ 0 \in restarts /\ Cardinality(restarts) <= MaxRestarts
  BY DEF Sleep, SupInv, SupTypeOK
<1>2. restarts' \subseteq deaths'
  BY <1>1 DEF Older
<1>3. deaths' \subseteq 0..Window /\ Older(relaunches) \subseteq 0..Window
  BY <1>1, OlderAges
<1>4. relaunches' \subseteq 0..Window
  BY <1>1, <1>3, LimitsAssumption
<1>5. ASSUME NEW b \in relaunches', b < Window PROVE b \in restarts
  <2>1. CASE b \in Older(relaunches)
    <3>1. b - 1 \in relaunches /\ b \in Nat
      BY <1>1, <1>5, <2>1, OlderAges
    <3>2. (b - 1) + 1 = b
      BY <3>1
    <3> QED BY <1>5, <3>1, <3>2 DEF SupInv
  <2> QED BY <1>1, <2>1
<1>6. ASSUME NEW b \in relaunches', b + 1 < Window PROVE b + 1 \in restarts'
  <2>1. b \in 0..Window /\ b < Window
    BY <1>4, <1>6, LimitsAssumption
  <2>2. b \in restarts
    BY <1>5, <2>1
  <2>3. restarts \subseteq 0..Window
    BY <1>1
  <2> QED BY <1>1, <2>1, <2>2, <2>3, OlderAges
<1>7. CrashLoopCapped'
  <2>1. Recent(relaunches') \subseteq restarts
    BY <1>5 DEF Recent
  <2>2. restarts \subseteq 0..Window /\ Recent(relaunches') \subseteq 0..Window
    BY <1>1, <2>1
  <2>3. /\ Cardinality(Recent(relaunches')) <= Cardinality(restarts)
        /\ Cardinality(restarts) \in Nat /\ Cardinality(Recent(relaunches')) \in Nat
    BY <2>1, <2>2, FewerAges, AgesFinite
  <2> QED BY <1>1, <2>3, LimitsAssumption DEF CrashLoopCapped
<1> QED BY <1>1, <1>2, <1>3, <1>4, <1>6, <1>7 DEF SupInv, SupTypeOK, NoEarlyGiveUp

LEMMA SupStepHolds == SupInv /\ [SupNext]_supVars => SupInv'
<1> SUFFICES ASSUME SupInv, [SupNext]_supVars PROVE SupInv'
  OBVIOUS
<1>1. CASE UNCHANGED supVars
  BY <1>1 DEF supVars, SupInv, SupTypeOK, CrashLoopCapped, NoEarlyGiveUp
<1>2. CASE Spawn \/ Ready \/ ChildCrashes \/ ChildDrains \/ Signal \/ ReapClean
  <2>1. CASE sup = "sleep"
    BY <1>2, <2>1 DEF SupInv, SupTypeOK, CrashLoopCapped, NoEarlyGiveUp, Spawn, Ready, Running,
                      ChildCrashes, ChildDrains, Signal, ReapClean
  <2>2. CASE sup # "sleep"
    BY <1>2, <2>2, SupUntouched DEF SupInv, SupTypeOK, Spawn, Ready, Running, ChildCrashes, ChildDrains,
                                    Signal, ReapClean
  <2> QED BY <2>1, <2>2
<1> QED BY <1>1, <1>2, SupTick, SupReapFailed, SupSleep DEF SupNext

LEMMA SupInvariant == SupSpec => []SupInv
BY SupInitHolds, SupStepHolds, PTL DEF SupSpec

(* No window of time sees more than max_restarts restarts (supervise).                     *)
THEOREM CrashLoopsAreCapped == SupSpec => []CrashLoopCapped
<1>1. SupInv => CrashLoopCapped
  BY DEF SupInv
<1> QED BY <1>1, SupInvariant, PTL

(* The supervisor gives up on a failing child only in a crash loop (supervise).               *)
THEOREM GivesUpInALoopOnly == SupSpec => []NoEarlyGiveUp
<1>1. SupInv => NoEarlyGiveUp
  BY DEF SupInv
<1> QED BY <1>1, SupInvariant, PTL

-----------------------------------------------------------------------------
(* The registration with a client.  Lost: settings may be gone, a second run took a file it    *)
(* could not parse for an empty one.                                                    *)
Lost == blank = "again" /\ kind # "qwen"

(* Which steps a client of each kind has, and what can lie in its file, whoever writes it.      *)
Positions ==
  /\ kind = "codex" => \A r \in Run : pc[r] \in {"idle", "done", "broken", "backup", "read", "append"}
  /\ kind # "codex" => \A r \in Run : pc[r] \notin {"read", "append"}
  /\ file.form = "absent" => edits = 0
  /\ file.form \in {"absent", "cut"} => file.entry = "none"
  /\ kind = "codex" => file.form \in {"absent", "strict"} /\ Latest(file)

Alone == \A r, s \in Active : r = s

(* What the run under way relies on: the settings are in the file until it truncates it, then  *)
(* in the backup and in what it has read.                                                *)
Knows(r) ==
  /\ pc[r] = "load" /\ kind = "qwen" /\ op[r] = "install" => ~Unparsable
  /\ pc[r] \in {"backup", "open"} =>
       /\ data[r] = Loaded
       /\ \/ Lost
          \/ /\ Latest(file)
             /\ file.form \in {"strict", "absent"} \/ (blank = "once" /\ kind # "qwen")
  /\ pc[r] = "open" => Lost \/ Latest(bak)
  /\ pc[r] = "write" =>
       /\ file.form = "cut"
       /\ \/ Lost
          \/ /\ Latest(bak)
             /\ edits = 0 \/ data[r].rest = edits \/ (blank = "once" /\ kind # "qwen")

Quiet ==
  (\A r \in Run : pc[r] \notin {"backup", "open", "write"}) =>
    \/ Lost
    \/ Latest(file)
    \/ Latest(bak) /\ (file.form = "cut" \/ (blank = "once" /\ kind # "qwen"))

Reports ==
  /\ Active # {} => result = "none"
  /\ file.entry # "twice"
  /\ \A r \in Run : pc[r] = "append" => file.entry = "none"

Settings == kind # "codex" => Quiet /\ \A r \in Run : Knows(r)

Unraced == Alone /\ Reports /\ Settings /\ ReportIsTrue

McpInv == McpTypeOK /\ Positions /\ (~raced => Unraced)

LEMMA McpInitHolds == McpInit => McpInv
<1> SUFFICES ASSUME McpInit PROVE McpInv
  OBVIOUS
<1>1. /\ Active = {} /\ edits = 0 /\ file.form = "absent" /\ file.entry = "none" /\ result = "none"
      /\ pc = [r \in Run |-> "idle"]
  BY DEF McpInit, Active, Empty
<1>2. McpTypeOK
  <2>1. 0 \in 0..MaxEdits /\ 0 \in 0..MaxFaults
    BY ConfigAssumption
  <2>2. Empty \in Content
    BY <2>1 DEF Empty, Content
  <2> QED BY <2>1, <2>2 DEF McpInit, McpTypeOK
<1>3. Latest(file) /\ Positions
  BY <1>1 DEF Positions, Latest
<1>4. Alone /\ Reports /\ ReportIsTrue
  BY <1>1 DEF Alone, Reports, ReportIsTrue
<1>5. Settings
  BY <1>1, <1>3 DEF Settings, Quiet, Knows
<1> QED BY <1>2, <1>3, <1>4, <1>5 DEF McpInv, Unraced

-----------------------------------------------------------------------------
(* Types, and what holds whoever writes.                                                 *)
LEMMA Bounds ==
  /\ 0 \in 0..MaxEdits
  /\ \A n \in 0..MaxEdits : n < MaxEdits => n + 1 \in 0..MaxEdits
  /\ \A n \in 0..MaxFaults : n < MaxFaults => n + 1 \in 0..MaxFaults
BY ConfigAssumption

LEMMA McpTypes == McpTypeOK /\ [McpNext]_mcpVars => McpTypeOK'
<1> SUFFICES ASSUME McpTypeOK, [McpNext]_mcpVars PROVE McpTypeOK'
  OBVIOUS
<1> USE DEF McpTypeOK
<1>1. Empty \in Content /\ CutFile \in Content /\ Loaded \in Content
  BY Bounds DEF Empty, CutFile, Content, Loaded
<1>2. CASE UNCHANGED mcpVars
  BY <1>2 DEF mcpVars, rvars
<1>3. CASE Edit
  <2>1. PICK f \in {"strict", "loose"} : file' = [form |-> f, rest |-> edits + 1, entry |-> file.entry]
    BY <1>3 DEF Edit
  <2>2. edits + 1 \in 0..MaxEdits /\ file.entry \in {"none", "part", "whole", "twice"}
    BY <1>3, Bounds DEF Edit, Content
  <2>3. file' \in Content
    BY <2>1, <2>2 DEF Content
  <2> QED BY <1>3, <2>2, <2>3 DEF Edit, rvars
<1>4. ASSUME NEW r \in Run, Start(r) \/ Check(r) \/ Load(r) \/ Backup(r) PROVE McpTypeOK'
  <2>1. CASE Start(r)
    BY <2>1 DEF Start, Goes
  <2>2. CASE Check(r)
    BY <2>2 DEF Check, Goes, Finish
  <2>3. CASE Load(r)
    BY <1>1, <2>3 DEF Load, Goes, Finish
  <2>4. CASE Backup(r)
    BY <2>4 DEF Backup, Goes
  <2> QED BY <1>4, <2>1, <2>2, <2>3, <2>4
<1>5. ASSUME NEW r \in Run, Open(r) \/ Read(r) PROVE McpTypeOK'
  BY <1>1, <1>5 DEF Open, Read, Goes, Finish
<1>6. ASSUME NEW r \in Run, Write(r) PROVE McpTypeOK'
  <2>1. data[r].rest \in 0..MaxEdits
    BY DEF Content
  <2>2. file' \in Content
    BY <1>6, <2>1 DEF Write, Content
  <2> QED BY <1>6, <2>2 DEF Write, Goes, Finish
<1>7. ASSUME NEW r \in Run, Append(r) PROVE McpTypeOK'
  <2>1. file.rest \in 0..MaxEdits
    BY DEF Content
  <2>2. file' \in Content
    BY <1>7, <2>1 DEF Append, Content
  <2> QED BY <1>7, <2>2 DEF Append, Goes, Finish
<1>8. ASSUME NEW r \in Run, Break(r) PROVE McpTypeOK'
  <2>1. [file EXCEPT !.form = "strict", !.entry = "part"] \in Content
    BY DEF Content
  <2>2. file' \in Content /\ bak' \in Content
    BY <1>1, <1>8, <2>1 DEF Break
  <2>3. faults' \in 0..MaxFaults
    BY <1>8, Bounds DEF Break
  <2> QED BY <1>8, <2>2, <2>3 DEF Break, Goes
<1> QED BY <1>2, <1>3, <1>4, <1>5, <1>6, <1>7, <1>8 DEF McpNext, Step

(* Where a command starts.                                                              *)
LEMMA StartGoes ==
  ASSUME NEW r \in Run, Start(r), kind \in {"merge", "qwen", "codex"}
  PROVE  \E p, o : /\ pc' = [pc EXCEPT ![r] = p] /\ op' = [op EXCEPT ![r] = o]
                   /\ kind = "codex" => p \in {"done", "backup"}
                   /\ kind # "codex" => p \in {"check", "load"}
                   /\ p = "load" => ~(kind = "qwen" /\ o = "install")
<1> DEFINE p(o) == CASE kind = "codex" /\ o = "remove"  -> "done"
                     [] kind = "codex" /\ o = "install" -> "backup"
                     [] kind = "qwen"  /\ o = "install" -> "check"
                     [] OTHER                           -> "load"
<1>1. PICK o \in {"install", "remove"} : pc' = [pc EXCEPT ![r] = p(o)] /\ op' = [op EXCEPT ![r] = o]
  BY DEF Start, Goes
<1>2. /\ kind = "codex" => p(o) \in {"done", "backup"}
      /\ kind # "codex" => p(o) \in {"check", "load"}
      /\ p(o) = "load" => ~(kind = "qwen" /\ o = "install")
  <2>1. CASE kind = "codex" /\ o = "remove"
    BY <2>1
  <2>2. CASE kind = "codex" /\ o = "install"
    BY <2>2
  <2>3. CASE kind = "qwen" /\ o = "install"
    BY <2>3
  <2>4. CASE kind # "codex" /\ (kind # "qwen" \/ o # "install")
    BY <2>4
  <2> QED BY <1>1, <2>1, <2>2, <2>3, <2>4
<1> HIDE DEF p
<1> QED BY <1>1, <1>2

LEMMA McpPositions == McpTypeOK /\ Positions /\ [McpNext]_mcpVars => Positions'
<1> SUFFICES ASSUME McpTypeOK, Positions, [McpNext]_mcpVars PROVE Positions'
  OBVIOUS
<1> USE DEF Positions, Latest
<1>1. CASE UNCHANGED mcpVars
  BY <1>1 DEF mcpVars, rvars
<1>2. CASE Edit
  <2>1. PICK f \in IF kind = "codex" THEN {"strict"} ELSE {"strict", "loose"} :
          file' = [form |-> f, rest |-> edits + 1, entry |-> file.entry]
    BY <1>2 DEF Edit
  <2>2. file'.form \in {"strict", "loose"} /\ file'.rest = edits' /\ (kind = "codex" => file'.form = "strict")
    BY <1>2, <2>1 DEF Edit
  <2> QED BY <1>2, <2>2 DEF Edit, rvars
<1>3. ASSUME NEW r \in Run, Start(r) \/ Check(r) \/ Load(r) \/ Backup(r) \/ Read(r) PROVE Positions'
  <2>1. UNCHANGED <<file, edits, kind>>
    BY <1>3 DEF Start, Check, Load, Backup, Read
  <2>2. \E p : /\ pc' = [pc EXCEPT ![r] = p]
               /\ kind = "codex" => p \in {"done", "backup", "read", "append"}
               /\ kind # "codex" => p \notin {"read", "append"}
    <3>1. CASE Start(r)
      BY <3>1, StartGoes DEF McpTypeOK
    <3>2. CASE Check(r) \/ Load(r)
      BY <3>2 DEF Check, Load, Goes, Finish
    <3>3. CASE Backup(r) \/ Read(r)
      BY <3>3 DEF Backup, Read, Goes, Finish
    <3> QED BY <1>3, <3>1, <3>2, <3>3
  <2> QED BY <2>1, <2>2 DEF McpTypeOK
<1>4. ASSUME NEW r \in Run, Open(r) \/ Write(r) PROVE Positions'
  <2>1. /\ UNCHANGED <<edits, kind>> /\ kind # "codex"
        /\ pc' = [pc EXCEPT ![r] = "write"] \/ pc' = [pc EXCEPT ![r] = "done"]
    BY <1>4 DEF Open, Write, Goes, Finish
  <2>2. file'.form = "strict" \/ (file'.form = "cut" /\ file'.entry = "none")
    BY <1>4 DEF Open, Write, CutFile
  <2> QED BY <2>1, <2>2 DEF McpTypeOK
<1>5. ASSUME NEW r \in Run, Append(r) PROVE Positions'
  <2>1. /\ UNCHANGED <<edits, kind>> /\ kind = "codex" /\ pc' = [pc EXCEPT ![r] = "done"]
        /\ file'.form = "strict" /\ file'.rest = file.rest
    BY <1>5 DEF Append, Goes, Finish
  <2> QED BY <2>1 DEF McpTypeOK
<1>6. ASSUME NEW r \in Run, Break(r) PROVE Positions'
  <2>1. UNCHANGED <<edits, kind>> /\ pc' = [pc EXCEPT ![r] = "broken"]
    BY <1>6 DEF Break, Goes
  <2>2. \/ file' = file
        \/ kind = "codex" /\ file'.form = "strict" /\ file'.rest = file.rest
    BY <1>6 DEF Break, McpTypeOK, Content
  <2> QED BY <2>1, <2>2 DEF McpTypeOK
<1> QED BY <1>1, <1>2, <1>3, <1>4, <1>5, <1>6 DEF McpNext, Step

-----------------------------------------------------------------------------
(* Steps without a second writer.                                                       *)
Resting == {"idle", "done", "broken"}

LEMMA Moved ==
  ASSUME McpTypeOK, Alone, NEW r \in Active, NEW p, pc' = [pc EXCEPT ![r] = p]
  PROVE  /\ r \in Run /\ pc'[r] = p /\ Alone'
         /\ \A q \in Run \ {r} : pc'[q] \in Resting
         /\ p \in Resting => Active' = {}
<1>1. r \in Run /\ pc'[r] = p /\ \A q \in Run \ {r} : pc'[q] = pc[q]
  BY DEF McpTypeOK, Active
<1>2. \A q \in Run \ {r} : pc[q] \in Resting
  BY DEF Alone, Active, Resting
<1> QED BY <1>1, <1>2 DEF Alone, Active, Resting

(* Only the run that moved has to know something.                                       *)
LEMMA SettingsOf ==
  ASSUME NEW r \in Run, \A q \in Run \ {r} : pc'[q] \in Resting,
         kind' # "codex" => Knows(r)' /\ (pc'[r] \notin {"backup", "open", "write"} => Quiet')
  PROVE  Settings'
<1> SUFFICES ASSUME kind' # "codex" PROVE Quiet' /\ \A q \in Run : Knows(q)'
  BY DEF Settings
<1>1. \A q \in Run \ {r} : Knows(q)'
  BY DEF Knows, Resting
<1>2. Quiet'
  BY DEF Quiet
<1> QED BY <1>1, <1>2

LEMMA ReadsUnraced ==
  ASSUME McpInv, ~raced, NEW r \in Run, Check(r) \/ Load(r)
  PROVE  Unraced'
<1>1. /\ UNCHANGED <<kind, file, bak, edits, op, raced>> /\ pc[r] \in {"check", "load"} /\ kind # "codex"
      /\ kind \in {"merge", "qwen", "codex"} /\ file \in Content /\ data' \in [Run -> Content]
  BY McpTypes DEF Check, Load, McpInv, McpTypeOK, Positions, McpNext, Step
<1>2. r \in Active /\ McpTypeOK /\ Alone /\ Reports /\ Knows(r) /\ Quiet /\ result = "none"
  BY <1>1 DEF Active, McpInv, Unraced, Settings, Reports
<1>3. \A q \in Run \ {r} : pc[q] \in Resting
  BY <1>2 DEF Alone, Active, Resting
<1>4. Lost \/ Latest(file) \/ (Latest(bak) /\ (file.form = "cut" \/ (blank = "once" /\ kind # "qwen")))
  BY <1>1, <1>2, <1>3 DEF Quiet, Resting
<1>5. file.form \in {"absent", "cut"} => file.entry = "none"
  BY DEF McpInv, Positions
<1>6. CASE Check(r)
  <2>1. \E p : /\ pc' = [pc EXCEPT ![r] = p] /\ p \in {"done", "load"}
               /\ p = "load" => ~Unparsable /\ result' = "none"
               /\ p = "done" => result' = "refused"
    BY <1>2, <1>6 DEF Check, Goes, Finish
  <2>2. UNCHANGED <<data, blank>>
    BY <1>6 DEF Check
  <2>3. PICK p : /\ pc' = [pc EXCEPT ![r] = p] /\ p \in {"done", "load"}
                 /\ p = "load" => ~Unparsable /\ result' = "none"
                 /\ p = "done" => result' = "refused"
    BY <2>1
  <2>4. /\ pc'[r] = p /\ Alone' /\ \A q \in Run \ {r} : pc'[q] \in Resting
        /\ p \in Resting => Active' = {}
    BY <1>2, <2>3, Moved
  <2>5. Knows(r)'
    BY <1>1, <2>3, <2>4 DEF Knows, Unparsable
  <2>6. Quiet'
    BY <1>1, <1>4, <2>2 DEF Quiet, Lost, Latest
  <2>7. Settings'
    BY <2>4, <2>5, <2>6, SettingsOf
  <2>8. Reports' /\ ReportIsTrue'
    BY <1>1, <1>2, <2>3, <2>4 DEF Reports, ReportIsTrue, Resting
  <2> QED BY <2>4, <2>7, <2>8 DEF Unraced
<1>7. CASE Load(r) /\ op[r] = "remove" /\ Loaded.entry = "none" /\ Finish(r, "not present") /\ UNCHANGED blank
  <2>1. pc' = [pc EXCEPT ![r] = "done"] /\ result' = "not present"
    BY <1>7 DEF Finish, Goes
  <2>2. /\ pc'[r] = "done" /\ Alone' /\ (\A q \in Run \ {r} : pc'[q] \in Resting) /\ Active' = {}
    BY <1>2, <2>1, Moved DEF Resting
  <2>3. Knows(r)' /\ Quiet'
    BY <1>1, <1>4, <1>7, <2>2 DEF Knows, Quiet, Lost, Latest
  <2>4. Settings'
    BY <2>2, <2>3, SettingsOf
  <2>5. file.entry = "none" \/ file.form = "loose"
    BY <1>1, <1>5, <1>7 DEF Loaded, Content
  <2>6. Reports'
    BY <1>1, <1>2, <2>1, <2>2 DEF Reports, Resting
  <2>7. ReportIsTrue'
    BY <1>1, <2>1, <2>5 DEF ReportIsTrue
  <2> QED BY <2>2, <2>4, <2>6, <2>7 DEF Unraced
<1>8. CASE /\ Load(r) /\ (op[r] = "install" \/ Loaded.entry # "none")
           /\ Goes(r, "backup") /\ UNCHANGED result
           /\ blank' = CASE blank # "no" \/ file.form = "cut" -> "again"
                         [] blank = "no" /\ file.form = "loose" -> "once"
                         [] OTHER -> blank
  <2>1. pc' = [pc EXCEPT ![r] = "backup"] /\ result' = "none" /\ data'[r] = Loaded
    BY <1>2, <1>8 DEF Goes, Load, McpTypeOK
  <2>2. /\ pc'[r] = "backup" /\ Alone' /\ (\A q \in Run \ {r} : pc'[q] \in Resting)
    BY <1>2, <2>1, Moved
  <2>3. \/ blank' = "again" /\ (blank # "no" \/ file.form = "cut")
        \/ blank' = "once" /\ blank = "no" /\ file.form = "loose"
        \/ blank' = "no" /\ blank = "no" /\ file.form \in {"strict", "absent"}
    <3>1. CASE blank # "no" \/ file.form = "cut"
      BY <1>8, <3>1
    <3>2. CASE blank = "no" /\ file.form = "loose"
      BY <1>8, <3>2
    <3>3. CASE blank = "no" /\ file.form \in {"strict", "absent"}
      BY <1>8, <3>3
    <3> QED BY <1>1, <3>1, <3>2, <3>3 DEF Content
  <2>4. kind = "qwen" => file.form \in {"strict", "absent"}
    <3>1. CASE op[r] = "install"
      BY <1>1, <1>2, <1>8, <3>1 DEF Knows, Unparsable, Content, Load
    <3>2. CASE Loaded.entry # "none"
      BY <3>2 DEF Loaded, Empty
    <3> QED BY <1>8, <3>1, <3>2
  <2>7. Reports' /\ ReportIsTrue'
    BY <1>1, <1>2, <2>1, <2>2 DEF Reports, ReportIsTrue, Resting
  <2>5. CASE kind = "qwen"
    <3>1. Latest(file)
      BY <1>4, <2>4, <2>5 DEF Lost
    <3>2. Knows(r)'
      BY <1>1, <2>1, <2>2, <2>4, <2>5, <3>1 DEF Knows, Latest, Loaded
    <3> QED BY <1>1, <1>2, <2>1, <2>2, <3>2, <2>7, SettingsOf DEF Unraced
  <2>6. CASE kind # "qwen"
    <3>1. \/ blank' = "again"
          \/ Latest(file) /\ (file.form \in {"strict", "absent"} \/ blank' = "once")
      BY <1>4, <2>3 DEF Lost
    <3>2. Knows(r)'
      BY <1>1, <2>1, <2>2, <2>6, <3>1 DEF Knows, Lost, Latest, Loaded
    <3> QED BY <1>1, <1>2, <2>1, <2>2, <3>2, <2>7, SettingsOf DEF Unraced
  <2> QED BY <2>5, <2>6
<1> QED BY <1>6, <1>7, <1>8 DEF Load

(* What is known of the run that takes a step.                                          *)
LEMMA Underway ==
  ASSUME McpInv, ~raced, NEW r \in Run, pc[r] \notin Resting
  PROVE  /\ r \in Active /\ McpTypeOK /\ Alone /\ Reports /\ Positions /\ result = "none"
         /\ kind # "codex" => Knows(r) /\ Quiet
         /\ \A q \in Run \ {r} : pc[q] \in Resting
<1>1. r \in Active
  BY DEF Active, Resting
<1>2. Alone /\ Reports /\ McpTypeOK /\ Positions /\ (kind # "codex" => Knows(r) /\ Quiet)
  BY DEF McpInv, Unraced, Settings
<1> QED BY <1>1, <1>2 DEF Alone, Active, Resting, Reports

LEMMA BackupUnraced ==
  ASSUME McpInv, ~raced, NEW r \in Run, Backup(r)
  PROVE  Unraced'
<1>1. /\ UNCHANGED <<kind, file, edits, op, data, result, raced, blank>> /\ pc[r] = "backup"
      /\ bak' = IF file.form = "absent" THEN bak ELSE file
  BY DEF Backup
<1>2. /\ r \in Active /\ McpTypeOK /\ Alone /\ Reports /\ Positions /\ result = "none"
      /\ kind # "codex" => Knows(r)
  BY <1>1, Underway DEF Resting
<1>3. PICK p \in {"read", "open"} : pc' = [pc EXCEPT ![r] = p] /\ (kind # "codex" => p = "open")
  BY DEF Backup, Goes
<1>4. /\ pc'[r] = p /\ Alone' /\ (\A q \in Run \ {r} : pc'[q] \in Resting)
  BY <1>2, <1>3, Moved
<1>5. Reports' /\ ReportIsTrue'
  BY <1>1, <1>2, <1>3, <1>4 DEF Reports, ReportIsTrue, Resting
<1>6. ASSUME kind' # "codex" PROVE Knows(r)'
  <2>1. p = "open" /\ Knows(r) /\ kind # "codex"
    BY <1>1, <1>2, <1>3, <1>6
  <2>2. file.form = "absent" => edits = 0
    BY <1>2 DEF Positions
  <2>3. Lost \/ Latest(bak)'
    BY <1>1, <2>1, <2>2 DEF Knows, Latest
  <2>4. /\ data'[r] = Loaded' /\ Loaded' = Loaded
        /\ Lost' \/ (/\ Latest(file)'
                     /\ file'.form \in {"strict", "absent"} \/ (blank' = "once" /\ kind' # "qwen"))
    BY <1>1, <2>1 DEF Knows, Latest, Lost, Loaded
  <2> QED BY <1>1, <1>4, <2>1, <2>3, <2>4 DEF Knows, Lost
<1>7. kind' # "codex" => pc'[r] = "open"
  BY <1>1, <1>3, <1>4
<1>8. Settings'
  BY <1>4, <1>6, <1>7, SettingsOf
<1> QED BY <1>4, <1>5, <1>8 DEF Unraced

LEMMA OpenUnraced ==
  ASSUME McpInv, ~raced, NEW r \in Run, Open(r)
  PROVE  Unraced'
<1>1. /\ UNCHANGED <<kind, bak, edits, op, data, result, raced, blank>> /\ pc[r] = "open"
      /\ file' = CutFile /\ pc' = [pc EXCEPT ![r] = "write"]
  BY DEF Open, Goes
<1>2. /\ r \in Active /\ McpTypeOK /\ Alone /\ Reports /\ Positions /\ result = "none"
      /\ kind # "codex" => Knows(r)
  BY <1>1, Underway DEF Resting
<1>3. /\ pc'[r] = "write" /\ Alone' /\ (\A q \in Run \ {r} : pc'[q] \in Resting)
  BY <1>1, <1>2, Moved
<1>4. Reports' /\ ReportIsTrue'
  BY <1>1, <1>2, <1>3 DEF Reports, ReportIsTrue, Resting, CutFile
<1>5. ASSUME kind' # "codex" PROVE Knows(r)'
  <2>1. Knows(r) /\ (file.form = "absent" => edits = 0)
    BY <1>1, <1>2, <1>5 DEF Positions
  <2>2. CASE Lost
    BY <1>1, <1>3, <2>2 DEF Knows, Lost, CutFile
  <2>3. CASE ~Lost
    <3>1. /\ data[r] = Loaded /\ Latest(file) /\ Latest(bak)
          /\ file.form \in {"strict", "absent"} \/ (blank = "once" /\ kind # "qwen")
      BY <1>1, <2>1, <2>3 DEF Knows
    <3>2. edits = 0 \/ data[r].rest = edits \/ (blank = "once" /\ kind # "qwen")
      BY <2>1, <3>1 DEF Loaded, Latest
    <3>3. Latest(bak)' /\ file'.form = "cut"
      BY <1>1, <3>1 DEF Latest, CutFile
    <3> QED BY <1>1, <1>3, <3>2, <3>3 DEF Knows
  <2> QED BY <2>2, <2>3
<1>6. Settings'
  BY <1>3, <1>5, SettingsOf
<1> QED BY <1>3, <1>4, <1>6 DEF Unraced

LEMMA WriteUnraced ==
  ASSUME McpInv, ~raced, NEW r \in Run, Write(r)
  PROVE  Unraced'
<1>1. /\ UNCHANGED <<kind, bak, edits, op, data, raced, blank>> /\ pc[r] = "write"
      /\ file' = [form |-> "strict", rest |-> data[r].rest,
                  entry |-> IF op[r] = "install" THEN "whole" ELSE "none"]
      /\ pc' = [pc EXCEPT ![r] = "done"]
      /\ result' = IF op[r] = "install" THEN "installed" ELSE "removed"
  BY DEF Write, Goes, Finish
<1>2. /\ r \in Active /\ McpTypeOK /\ Alone /\ Reports /\ (kind # "codex" => Knows(r))
  BY <1>1, Underway DEF Resting
<1>3. /\ pc'[r] = "done" /\ Alone' /\ (\A q \in Run \ {r} : pc'[q] \in Resting) /\ Active' = {}
  BY <1>1, <1>2, Moved DEF Resting
<1>4. Reports' /\ ReportIsTrue'
  BY <1>1, <1>2, <1>3 DEF Reports, ReportIsTrue, Resting
<1>5. ASSUME kind' # "codex" PROVE Knows(r)' /\ Quiet'
  <2>1. \/ Lost
        \/ /\ Latest(bak)
           /\ edits = 0 \/ data[r].rest = edits \/ (blank = "once" /\ kind # "qwen")
    BY <1>1, <1>2, <1>5 DEF Knows
  <2>2. file'.form = "strict" /\ file'.rest = data[r].rest
    BY <1>1
  <2>3. Quiet'
    BY <1>1, <2>1, <2>2 DEF Quiet, Lost, Latest
  <2> QED BY <1>3, <2>3 DEF Knows
<1>6. Settings'
  BY <1>3, <1>5, SettingsOf
<1> QED BY <1>3, <1>4, <1>6 DEF Unraced

(* The two steps of codex, whose file is changed in place.                                 *)
LEMMA CodexUnraced ==
  ASSUME McpInv, ~raced, NEW r \in Run, Read(r) \/ Append(r)
  PROVE  Unraced'
<1>1. /\ UNCHANGED <<kind, raced>> /\ pc[r] \in {"read", "append"}
  BY DEF Read, Append
<1>2. /\ r \in Active /\ McpTypeOK /\ Alone /\ Reports /\ Positions /\ result = "none"
  BY <1>1, Underway DEF Resting
<1>3. kind = "codex"
  BY <1>1, <1>2 DEF Positions
<1>4. Settings'
  BY <1>1, <1>3 DEF Settings
<1>5. \E p \in {"done", "append"} :
         /\ pc' = [pc EXCEPT ![r] = p] /\ file'.entry # "twice"
         /\ p = "done" => /\ result' = "installed" /\ file'.form = "strict"
                          /\ file'.entry \in {"whole", "part"}
         /\ p = "append" => result' = "none" /\ file'.entry = "none"
  <2>1. CASE Read(r) /\ file.entry # "none"
    <3>1. file.form = "strict" /\ file.entry \in {"whole", "part"}
      BY <1>2, <1>3, <2>1 DEF Positions, Reports, McpTypeOK, Content
    <3> QED BY <2>1, <3>1 DEF Read, Finish, Goes
  <2>2. CASE Read(r) /\ file.entry = "none"
    BY <1>2, <2>2 DEF Read, Goes
  <2>3. CASE Append(r)
    <3>1. file.entry = "none"
      BY <1>2, <2>3 DEF Append, Reports
    <3> QED BY <2>3, <3>1 DEF Append, Finish, Goes
  <2> QED BY <2>1, <2>2, <2>3
<1>6. PICK p \in {"done", "append"} :
         /\ pc' = [pc EXCEPT ![r] = p] /\ file'.entry # "twice"
         /\ p = "done" => /\ result' = "installed" /\ file'.form = "strict"
                          /\ file'.entry \in {"whole", "part"}
         /\ p = "append" => result' = "none" /\ file'.entry = "none"
  BY <1>5
<1>7. /\ pc'[r] = p /\ Alone' /\ (\A q \in Run \ {r} : pc'[q] \in Resting)
      /\ p \in Resting => Active' = {}
  BY <1>2, <1>6, Moved
<1>8. Reports'
  BY <1>6, <1>7 DEF Reports, Resting
<1>9. ReportIsTrue'
  BY <1>1, <1>3, <1>6 DEF ReportIsTrue
<1> QED BY <1>4, <1>7, <1>8, <1>9 DEF Unraced

LEMMA BreakUnraced ==
  ASSUME McpInv, ~raced, NEW r \in Run, Break(r)
  PROVE  Unraced'
<1>1. /\ UNCHANGED <<kind, edits, op, data, raced, blank>> /\ r \in Active /\ result' = "none"
      /\ pc' = [pc EXCEPT ![r] = "broken"]
      /\ bak' = bak \/ pc[r] = "backup"
      /\ file' = file \/ (pc[r] = "append" /\ file'.entry = "part")
  BY DEF Break, Goes, McpInv, McpTypeOK, Content
<1>2. /\ pc[r] \notin Resting
      /\ pc[r] \in {"check", "load", "backup", "open", "write", "read", "append"}
  BY <1>1 DEF Active, Resting, McpInv, McpTypeOK
<1>3. /\ McpTypeOK /\ Alone /\ Reports /\ Positions /\ (kind # "codex" => Knows(r) /\ Quiet)
      /\ \A q \in Run \ {r} : pc[q] \in Resting
  BY <1>2, Underway
<1>4. /\ pc'[r] = "broken" /\ Alone' /\ (\A q \in Run \ {r} : pc'[q] \in Resting) /\ Active' = {}
  BY <1>1, <1>3, Moved DEF Resting
<1>5. Reports'
  BY <1>1, <1>3, <1>4 DEF Reports, Resting
<1>6. ReportIsTrue'
  BY <1>1 DEF ReportIsTrue
<1>7. ASSUME kind' # "codex" PROVE Knows(r)' /\ Quiet'
  <2>1. Knows(r) /\ Quiet /\ file' = file /\ pc[r] \in {"check", "load", "backup", "open", "write"}
    BY <1>1, <1>2, <1>3, <1>7 DEF Positions
  <2>2. Lost \/ Latest(file) \/ (Latest(bak) /\ bak' = bak /\ (file.form = "cut" \/ (blank = "once" /\ kind # "qwen")))
    <3>1. CASE pc[r] \in {"check", "load"}
      BY <1>1, <1>3, <2>1, <3>1 DEF Quiet, Resting
    <3>2. CASE pc[r] \in {"backup", "open"}
      BY <2>1, <3>2 DEF Knows
    <3>3. CASE pc[r] = "write"
      BY <1>1, <2>1, <3>3 DEF Knows
    <3> QED BY <2>1, <3>1, <3>2, <3>3
  <2>3. Quiet'
    BY <1>1, <2>1, <2>2 DEF Quiet, Lost, Latest
  <2> QED BY <1>4, <2>3 DEF Knows
<1>8. Settings'
  BY <1>4, <1>7, SettingsOf
<1> QED BY <1>4, <1>5, <1>6, <1>8 DEF Unraced

(* A command that starts, and an edit, alone.                                           *)
LEMMA StartUnraced ==
  ASSUME McpInv, ~raced, NEW r \in Run, Start(r), ~raced'
  PROVE  Unraced'
<1>1. /\ UNCHANGED <<kind, file, bak, edits, data, blank>> /\ result' = "none" /\ Active = {}
  BY DEF Start
<1>2. /\ McpTypeOK /\ Reports /\ Positions /\ (kind # "codex" => Quiet)
  BY DEF McpInv, Unraced, Settings
<1>3. \A q \in Run : pc[q] \in Resting
  BY <1>1 DEF Active, Resting
<1>4. PICK p, o : /\ pc' = [pc EXCEPT ![r] = p] /\ op' = [op EXCEPT ![r] = o]
                  /\ kind = "codex" => p \in {"done", "backup"}
                  /\ kind # "codex" => p \in {"check", "load"}
                  /\ p = "load" => ~(kind = "qwen" /\ o = "install")
  BY <1>2, StartGoes DEF McpTypeOK
<1>5. /\ pc'[r] = p /\ op'[r] = o /\ \A q \in Run \ {r} : pc'[q] \in Resting
  BY <1>2, <1>3, <1>4 DEF McpTypeOK
<1>6. Alone' /\ Reports' /\ ReportIsTrue'
  <2>1. Alone'
    BY <1>5 DEF Alone, Active, Resting
  <2>2. Reports'
    BY <1>1, <1>2, <1>4, <1>5 DEF Reports, Resting
  <2> QED BY <1>1, <2>1, <2>2 DEF ReportIsTrue
<1>7. ASSUME kind' # "codex" PROVE Knows(r)' /\ Quiet'
  <2>1. kind # "codex" /\ p \in {"check", "load"}
    BY <1>1, <1>4, <1>7
  <2>2. Knows(r)'
    BY <1>1, <1>4, <1>5, <2>1 DEF Knows
  <2>3. Quiet'
    BY <1>1, <1>2, <1>3, <2>1 DEF Quiet, Resting, Lost, Latest
  <2> QED BY <2>2, <2>3
<1>8. Settings'
  BY <1>5, <1>7, SettingsOf
<1> QED BY <1>6, <1>8 DEF Unraced

LEMMA EditUnraced ==
  ASSUME McpInv, ~raced, Edit, ~raced'
  PROVE  Unraced'
<1>1. /\ UNCHANGED <<kind, bak, pc, op, data>> /\ result' = "none" /\ Active = {}
      /\ edits' = edits + 1
  BY DEF Edit, rvars
<1>2. PICK f \in {"strict", "loose"} : file' = [form |-> f, rest |-> edits + 1, entry |-> file.entry]
  BY DEF Edit
<1>3. /\ file'.form # "cut" /\ file'.rest = edits' /\ file'.entry = file.entry
  BY <1>1, <1>2
<1>4. Reports /\ \A q \in Run : pc'[q] \in Resting
  BY <1>1 DEF McpInv, Unraced, Active, Resting
<1>5. Alone' /\ Reports' /\ ReportIsTrue'
  BY <1>1, <1>3, <1>4 DEF Alone, Active, Resting, Reports, ReportIsTrue
<1>6. Settings'
  BY <1>3, <1>4 DEF Settings, Quiet, Knows, Resting, Latest
<1> QED BY <1>5, <1>6 DEF Unraced

LEMMA McpStepHolds == McpInv /\ [McpNext]_mcpVars => McpInv'
<1> SUFFICES ASSUME McpInv, [McpNext]_mcpVars PROVE McpInv'
  OBVIOUS
<1>1. McpTypeOK' /\ Positions'
  BY McpTypes, McpPositions DEF McpInv
<1>2. ASSUME ~raced' PROVE Unraced'
  <2>1. CASE UNCHANGED mcpVars
    <3>1. Unraced
      BY <1>2, <2>1 DEF McpInv, mcpVars
    <3> QED BY <2>1, <3>1 DEF mcpVars, rvars, Unraced, Alone, Active, Reports, ReportIsTrue,
                              Settings, Quiet, Knows, Lost, Latest, Loaded, Unparsable
  <2>2. CASE McpNext
    <3>1. ~raced
      BY <1>2, <2>2 DEF McpNext, Step, Edit, Start, Check, Load, Backup, Open, Write, Read,
                        Append, Break
    <3>2. CASE Edit
      BY <1>2, <3>1, <3>2, EditUnraced
    <3>3. ASSUME NEW r \in Run, Start(r) \/ Step(r) \/ Break(r) PROVE Unraced'
      BY <1>2, <3>1, <3>3, StartUnraced, BreakUnraced, ReadsUnraced, BackupUnraced, OpenUnraced,
         WriteUnraced, CodexUnraced DEF Step
    <3> QED BY <2>2, <3>2, <3>3 DEF McpNext
  <2> QED BY <2>1, <2>2
<1> QED BY <1>1, <1>2 DEF McpInv

LEMMA McpInvariant == McpSpec => []McpInv
BY McpInitHolds, McpStepHolds, PTL DEF McpSpec

(* The settings a client has are in its file, or, while a run is writing, after one was killed  *)
(* in it and after one that could not parse the file, in the .bak, as long as no two write at   *)
(* a time and no second such run follows (_backup, _merge_json_mcp, _install_qwen).           *)
THEOREM SettingsAreKept == McpSpec => []SettingsKept
<1>1. ASSUME McpInv PROVE SettingsKept
  <2> SUFFICES ASSUME ~raced, ~Lost
               PROVE  \/ Latest(file)
                      \/ Latest(bak) /\ (Active # {} \/ file.form = "cut" \/ (blank = "once" /\ kind # "qwen"))
    BY DEF SettingsKept, Lost
  <2>1. CASE kind = "codex"
    BY <1>1, <2>1 DEF McpInv, Positions
  <2>2. CASE kind # "codex" /\ \E r \in Run : pc[r] \in {"backup", "open", "write"}
    <3>1. PICK r \in Run : pc[r] \in {"backup", "open", "write"} /\ Knows(r)
      BY <1>1, <2>2 DEF McpInv, Unraced, Settings
    <3>2. CASE pc[r] \in {"backup", "open"}
      BY <3>1, <3>2 DEF Knows
    <3>3. CASE pc[r] = "write"
      BY <3>1, <3>3 DEF Knows, Active
    <3> QED BY <3>1, <3>2, <3>3
  <2>3. CASE kind # "codex" /\ ~\E r \in Run : pc[r] \in {"backup", "open", "write"}
    BY <1>1, <2>3 DEF McpInv, Unraced, Settings, Quiet
  <2> QED BY <2>1, <2>2, <2>3
<1> QED BY <1>1, McpInvariant, PTL

(* What a command prints is so, as long as no two write at a time: the entry is there, whole    *)
(* but for a cut append, after "installed", and gone after "removed" (install, uninstall).     *)
THEOREM ReportsAreTrue == McpSpec => []ReportIsTrue
<1>1. McpInv => ReportIsTrue
  BY DEF McpInv, Unraced, ReportIsTrue
<1> QED BY <1>1, McpInvariant, PTL
=============================================================================
