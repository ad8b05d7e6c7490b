----------------------------- MODULE Supervisor -----------------------------
(***************************************************************************)
(* The supervisor of the server (telys/_supervisor.py, supervise): it restarts   *)
(* a child that exits abnormally, gives up on a crash loop and forwards signals.  *)
(* The time a restart is held back is the unit of time, so two deaths never        *)
(* have the same age; an age that reaches the window stays there.                *)
(***************************************************************************)
EXTENDS Naturals, FiniteSets

CONSTANTS
  MaxRestarts,  \* max_restarts
  Window        \* window_s, in units of backoff_s

ASSUME LimitsAssumption == MaxRestarts \in Nat /\ Window \in Nat \ {0}

VARIABLES
  sup,       \* where the loop stands
  child,     \* the child: proc and what it does
  restarts,  \* the ages of the restarts remembered
  stopped,   \* SIGTERM or SIGINT was sent (history)
  owed,      \* a child that can drain was told to and has not crashed (history)
  deaths,    \* the ages of all abnormal exits (history)
  relaunches \* the ages of all relaunches (history)

supVars == <<sup, child, restarts, stopped, owed, deaths, relaunches>>

Older(ages) == {IF a < Window THEN a + 1 ELSE a : a \in ages}
Recent(ages) == {a \in ages : a < Window}

SupInit ==
  /\ sup = "spawn" /\ child = "none" /\ restarts = {}
  /\ stopped = FALSE /\ owed = FALSE /\ deaths = {} /\ relaunches = {}

Spawn ==
  /\ sup = "spawn"
  /\ sup' = "wait" /\ child' = "starting"
  /\ UNCHANGED <<restarts, stopped, owed, deaths, relaunches>>

(* The child: until it has its handlers a signal kills it.                        *)
Ready ==
  /\ child = "starting" /\ child' = "serving"
  /\ UNCHANGED <<sup, restarts, stopped, owed, deaths, relaunches>>

Running == child \in {"starting", "serving", "draining"}

ChildCrashes ==
  /\ Running /\ child' = "failed" /\ owed' = FALSE
  /\ UNCHANGED <<sup, restarts, stopped, deaths, relaunches>>

ChildDrains ==
  /\ child = "draining" /\ child' = "clean"
  /\ UNCHANGED <<sup, restarts, stopped, owed, deaths, relaunches>>

(* _forward: to the child that runs, if any.                                     *)
Signal ==
  /\ sup # "done"
  /\ stopped' = TRUE
  /\ child' = CASE child = "starting" -> "failed"
                [] child = "serving"  -> "draining"
                [] OTHER              -> child
  /\ owed' = (owed \/ child = "serving")
  /\ UNCHANGED <<sup, restarts, deaths, relaunches>>

Tick ==
  /\ sup = "wait"
  /\ restarts' = Older(restarts) /\ deaths' = Older(deaths) /\ relaunches' = Older(relaunches)
  /\ UNCHANGED <<sup, child, stopped, owed>>

\* Mutant: a clean exit is restarted like any other.
ReapCleanRestarts ==
  /\ sup = "wait" /\ child = "clean"
  /\ sup' = "sleep"
  /\ UNCHANGED <<child, restarts, stopped, owed, deaths, relaunches>>

ReapClean ==
  /\ sup = "wait" /\ child = "clean"
  /\ sup' = "done"
  /\ UNCHANGED <<child, restarts, stopped, owed, deaths, relaunches>>

\* Mutant: the exit at hand is not counted.
RememberedBefore == Recent(restarts)

\* Mutant: a restart is forgotten one unit too early.
RememberedTooShort == {a \in restarts : a + 1 < Window} \cup {0}

\* Mutant: restarts are never forgotten.
RememberedAll == restarts \cup {0}

Remembered == Recent(restarts) \cup {0}

ReapFailed ==
  /\ sup = "wait" /\ child = "failed"
  /\ restarts' = Remembered
  /\ deaths' = deaths \cup {0}
  /\ sup' = IF Cardinality(Remembered) > MaxRestarts THEN "done" ELSE "sleep"
  /\ UNCHANGED <<child, stopped, owed, relaunches>>

(* time.sleep(backoff_s), which a handled signal does not cut short.               *)
Sleep ==
  /\ sup = "sleep" /\ sup' = "spawn"
  /\ restarts' = Older(restarts) /\ deaths' = Older(deaths)
  /\ relaunches' = Older(relaunches) \cup {0}
  /\ UNCHANGED <<child, stopped, owed>>

SupNext ==
  \/ Spawn \/ Ready \/ ChildCrashes \/ ChildDrains \/ Signal \/ Tick
  \/ ReapClean \/ ReapFailed \/ Sleep

(* The supervisor runs, and a child that was told to drain ends.                   *)
Fairness == /\ WF_supVars(Spawn) /\ WF_supVars(Ready) /\ WF_supVars(ChildDrains)
            /\ WF_supVars(ReapClean) /\ WF_supVars(ReapFailed) /\ WF_supVars(Sleep)

SupSpec == SupInit /\ [][SupNext]_supVars /\ Fairness

-----------------------------------------------------------------------------
(* Every variable has its type, and the restarts remembered are deaths, the one at    *)
(* hand among them (supervise).                                                  *)
SupTypeOK ==
  /\ sup \in {"spawn", "wait", "sleep", "done"}
  /\ child \in {"none", "starting", "serving", "draining", "clean", "failed"}
  /\ sup = "sleep" => 0 \in restarts
  /\ restarts \subseteq deaths /\ deaths \subseteq 0..Window /\ relaunches \subseteq 0..Window
  /\ stopped \in BOOLEAN /\ owed \in BOOLEAN

(* A crash loop is bounded: no window of time sees more than max_restarts restarts    *)
(* ("capped at max_restarts within window_s").                                   *)
CrashLoopCapped == Cardinality(Recent(relaunches)) <= MaxRestarts

(* The supervisor gives up on a failing child only in such a loop: deaths that lie    *)
(* far apart, however many, are all restarted.                                   *)
NoEarlyGiveUp ==
  sup = "done" /\ child = "failed" => Cardinality(Recent(deaths)) > MaxRestarts

(* A server that was told to stop while it could drain is not started again, and the  *)
(* supervisor ends, unless the server crashed on the way ("a clean exit (code 0,      *)
(* e.g. a SIGTERM-drained shutdown) is NOT restarted").                          *)
StopObeyed == owed ~> (sup = "done" \/ ~owed)

-----------------------------------------------------------------------------
(* What the comments say and the code does not do.                             *)

(* "SIGTERM/SIGINT are forwarded to the child for a graceful drain"                *)
(* (_supervisor.py:26): after a signal the supervisor ends.                       *)
SignalStops == stopped ~> (sup = "done")
=============================================================================
