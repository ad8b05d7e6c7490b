------------------------------- MODULE Login -------------------------------
(* `telys login` (login.py) and `telys runtime install` (cli.py, installer.py): what   *)
(* they do to the files of ~/.telys that Python and the installed runtime read later.   *)
(* A session is one run of `telys login`; a file, a key or a license is named by the    *)
(* session that made it. The three hosts are external: they may refuse, or not answer,  *)
(* any request. Modelled faults: a kill between any two steps, also between the open     *)
(* that truncates a file and the write; a write or an unlink that fails; logins and       *)
(* installs that overlap. install_from_file is one step: Installer has its steps.         *)
EXTENDS Integers

CONSTANTS
  Session,
  NoSession,       \* nothing: a file that is not there, a request without a bearer
  Cut,             \* a file that was truncated and not written
  Interval,        \* seconds between two polls
  MaxWait,         \* seconds until device_authorize gives up
  MaxKills,        \* bound on kills
  MaxReinstalls    \* bound on `telys runtime install`

ASSUME LoginAssumption ==
  /\ NoSession \notin Session /\ Cut \notin Session /\ NoSession # Cut
  /\ Interval \in Nat \ {0} /\ MaxWait \in Nat /\ MaxKills \in Nat /\ MaxReinstalls \in Nat

VARIABLES
  pc,          \* of a session: the next thing login() does
  half,        \* of a session: it has decided to write the file it is at, or truncated it
  waited,      \* of a session: seconds since device_authorize started to poll
  grant,       \* of a session: what the user did in the browser
  bound,       \* of a session: the device id and key it registers with
  file,        \* what each file holds
  installed,   \* the license of the installed runtime, and the login that downloaded it
  reinstall,   \* position of `telys runtime install`
  bearer,      \* its token
  kills, reinstalls,
  overlapped, locked, between   \* history: two commands ran at a time; an unlink failed;
                                \* a login was killed between the token and the unlinks

svars   == <<pc, half, waited, grant, bound>>
rvars   == <<installed, reinstall, bearer, reinstalls>>
history == <<kills, overlapped, locked, between>>
loginVars == <<svars, file, rvars, history>>

Secrets == {"token", "key", "license"}
Files   == Secrets \cup {"id", "device"}
Ended   == {"done", "failed", "killed"}
Active  == {s \in Session : pc[s] \notin Ended \cup {"idle"}}
Whole(f) == file[f] \in Session

(* The order of login(). The second device_id() is the one of its return value.      *)
After(p) == CASE p = "token"         -> "stale_key"
              [] p = "stale_key"     -> "stale_license"
              [] p = "stale_license" -> "onboard"
              [] p = "onboard"       -> "key"
              [] p = "key"           -> "id"
              [] p = "id"            -> "device"
              [] p = "device"        -> "register"
              [] p = "register"      -> "license"
              [] p = "license"       -> "install"
              [] p = "install"       -> "last"
              [] p = "last"          -> "done"

(* The file a session is at.                                                   *)
At(s) == IF pc[s] = "last" THEN "id" ELSE pc[s]

LoginInit ==
  /\ pc = [s \in Session |-> "idle"] /\ half = [s \in Session |-> "no"]
  /\ waited = [s \in Session |-> 0] /\ grant = [s \in Session |-> "none"]
  /\ bound = [s \in Session |-> [id |-> NoSession, device |-> NoSession]]
  /\ file = [f \in Files |-> NoSession]
  /\ installed = [license |-> NoSession, bearer |-> NoSession]
  /\ reinstall = "idle" /\ bearer = NoSession /\ reinstalls = 0
  /\ kills = 0 /\ overlapped = FALSE /\ locked = FALSE /\ between = FALSE

Goto(s, p) == pc' = [pc EXCEPT ![s] = p]
Drop(s)    == half' = [half EXCEPT ![s] = "no"] /\ waited' = [waited EXCEPT ![s] = 0]
              /\ grant' = [grant EXCEPT ![s] = "none"]       \* the locals that end with it
Fail(s)    == Goto(s, "failed") /\ Drop(s) /\ UNCHANGED <<bound, file, rvars, history>>

-----------------------------------------------------------------------------
(* device_authorize.                                                        *)

(* A token that was supplied (--token, TELYS_TOKEN), or a device code.              *)
Start(s) ==
  /\ pc[s] = "idle" /\ \E p \in {"token", "poll"} : Goto(s, p)
  /\ overlapped' = (overlapped \/ Active # {} \/ reinstall # "idle")
  /\ UNCHANGED <<half, waited, grant, bound, file, rvars, kills, locked, between>>

Browse(s) ==
  /\ pc[s] = "poll" /\ grant[s] = "none"
  /\ \E g \in {"approved", "denied"} : grant' = [grant EXCEPT ![s] = g]
  /\ UNCHANGED <<pc, half, waited, bound, file, rvars, history>>

\* Mutant: slow_down starts the wait again.
PollAnew(s) ==
  /\ pc[s] = "poll" /\ waited[s] < MaxWait
  /\ \/ grant[s] = "approved" /\ Goto(s, "token") /\ Drop(s)
     \/ waited' = [waited EXCEPT ![s] = 0] /\ UNCHANGED <<pc, half, grant>>
  /\ UNCHANGED <<bound, file, rvars, history>>

(* Sleep and ask. authorization_pending, slow_down and every answer with status 400,     *)
(* a denial too, poll again at the same interval.                                  *)
Poll(s) ==
  /\ pc[s] = "poll" /\ waited[s] < MaxWait
  /\ \/ grant[s] = "approved" /\ Goto(s, "token") /\ Drop(s)
     \/ waited' = [waited EXCEPT ![s] = @ + Interval] /\ UNCHANGED <<pc, half, grant>>
  /\ UNCHANGED <<bound, file, rvars, history>>

TimeOut(s) == pc[s] = "poll" /\ waited[s] >= MaxWait /\ Fail(s)

(* The host cannot be reached, or refuses with another status: LoginError, also in        *)
(* create_api_key and register_device; a failed download or verification in the install.   *)
Refused(s) == pc[s] \in {"poll", "onboard", "register", "install"} /\ Fail(s)

-----------------------------------------------------------------------------
(* The files.                                                              *)

\* Mutant: each login makes a new device key.
KeepsIdOnly(s) == At(s) = "id" /\ Whole("id")

(* device_id keeps an id that can be read, device_thumbprint a key file that exists.       *)
Keeps(s) ==
  \/ At(s) = "id" /\ Whole("id")
  \/ At(s) = "device" /\ file.device # NoSession

(* Otherwise each makes a new one, whatever is there by the time it is written.            *)
Decide(s) ==
  /\ At(s) \in {"id", "device"} /\ half[s] = "no" /\ ~Keeps(s)
  /\ half' = [half EXCEPT ![s] = "decided"]
  /\ UNCHANGED <<pc, waited, grant, bound, file, rvars, history>>

(* _cache and the key file: open with "w" truncates.                                *)
Open(s) ==
  /\ half[s] = IF pc[s] \in Secrets THEN "no" ELSE "decided"
  /\ At(s) \in Files
  /\ half' = [half EXCEPT ![s] = "truncated"] /\ file' = [file EXCEPT ![At(s)] = Cut]
  /\ UNCHANGED <<pc, waited, grant, bound, rvars, history>>

Binds(s, owner) ==
  bound' = CASE pc[s] = "id"     -> [bound EXCEPT ![s] = [id |-> owner, device |-> @.device]]
             [] pc[s] = "device" -> [bound EXCEPT ![s] = [id |-> @.id, device |-> owner]]
             [] OTHER            -> bound

(* A chmod that fails after it ends the login with the file written, as a kill does.       *)
Write(s) ==
  /\ half[s] = "truncated" /\ half' = [half EXCEPT ![s] = "no"]
  /\ file' = [file EXCEPT ![At(s)] = s] /\ Binds(s, s)
  /\ Goto(s, After(pc[s]))
  /\ UNCHANGED <<waited, grant, rvars, history>>

(* A key file that was cut does not load: login raises, and does so ever after.           *)
Keep(s) ==
  /\ Keeps(s) /\ half[s] = "no"
  /\ IF Whole(At(s))
     THEN Binds(s, file[At(s)]) /\ Goto(s, After(pc[s]))
     ELSE Goto(s, "failed") /\ UNCHANGED bound
  /\ UNCHANGED <<half, waited, grant, file, rvars, history>>

(* OSError in open or in write.                                                  *)
WriteFails(s) == At(s) \in Files /\ Fail(s)

\* Mutant: the license of the session before stays.
UnlinkKey(s) ==
  \E f \in {"key", "license"} :
    /\ pc[s] = IF f = "key" THEN "stale_key" ELSE "stale_license"
    /\ \/ file' = (IF f = "key" THEN [file EXCEPT ![f] = NoSession] ELSE file) /\ UNCHANGED locked
       \/ file[f] # NoSession /\ locked' = TRUE /\ UNCHANGED file
    /\ Goto(s, After(pc[s]))
    /\ UNCHANGED <<half, waited, grant, bound, rvars, kills, overlapped, between>>

(* The credentials of the session before go; an unlink that fails is passed over.         *)
Unlink(s) ==
  \E f \in {"key", "license"} :
    /\ pc[s] = IF f = "key" THEN "stale_key" ELSE "stale_license"
    /\ \/ file' = [file EXCEPT ![f] = NoSession] /\ UNCHANGED locked
       \/ file[f] # NoSession /\ locked' = TRUE /\ UNCHANGED file
    /\ Goto(s, After(pc[s]))
    /\ UNCHANGED <<half, waited, grant, bound, rvars, kills, overlapped, between>>

-----------------------------------------------------------------------------
(* The control plane and the installer.                                        *)

(* create_api_key and register_device: the answer is a local until it is cached.          *)
Answered(s) ==
  /\ pc[s] \in {"onboard", "register"} /\ Goto(s, After(pc[s]))
  /\ UNCHANGED <<half, waited, grant, bound, file, rvars, history>>

(* install_from_host with the API key of this login and the path of the cached license:    *)
(* what is at that path by then is what is verified and installed.                     *)
Install(s) ==
  /\ pc[s] = "install" /\ Whole("license")
  /\ installed' = [license |-> file.license, bearer |-> s] /\ Goto(s, After(pc[s]))
  /\ UNCHANGED <<half, waited, grant, bound, file, reinstall, bearer, reinstalls, history>>

(* --no-install.                                                               *)
SkipInstall(s) ==
  /\ pc[s] = "install" /\ Goto(s, After(pc[s]))
  /\ UNCHANGED <<half, waited, grant, bound, file, rvars, history>>

(* read_token: the cached token, else the API key; what was cut reads as none.             *)
ReadToken == IF Whole("token") THEN file.token ELSE IF Whole("key") THEN file.key ELSE NoSession

(* telys runtime install: the download, with the token.                             *)
Reinstall ==
  /\ reinstall = "idle" /\ reinstalls < MaxReinstalls
  /\ reinstall' = "download" /\ bearer' = ReadToken /\ reinstalls' = reinstalls + 1
  /\ overlapped' = (overlapped \/ Active # {})
  /\ UNCHANGED <<svars, file, installed, kills, locked, between>>

(* The license: the cached one when the file is there, else the host's for that token.      *)
ReinstallEnds ==
  /\ reinstall = "download" /\ reinstall' = "idle" /\ bearer' = NoSession
  /\ \/ UNCHANGED installed
     \/ /\ bearer \in Session /\ file.license # Cut
        /\ installed' = [bearer  |-> bearer,
                          license |-> IF Whole("license") THEN file.license ELSE bearer]
  /\ UNCHANGED <<svars, file, reinstalls, history>>

-----------------------------------------------------------------------------
Kill(s) ==
  /\ s \in Active /\ kills < MaxKills /\ kills' = kills + 1 /\ Goto(s, "killed")
  /\ between' = (between \/ pc[s] \in {"stale_key", "stale_license"})
  /\ Drop(s) /\ UNCHANGED <<bound, file, rvars, overlapped, locked>>

(* What login() does unless something fails.                                       *)
Advance(s) == Decide(s) \/ Open(s) \/ Write(s) \/ Keep(s) \/ Unlink(s) \/ Answered(s) \/ Install(s) \/ SkipInstall(s)

Step(s) == Poll(s) \/ TimeOut(s) \/ Refused(s) \/ Decide(s) \/ Open(s) \/ Write(s) \/ Keep(s) \/ WriteFails(s)
           \/ Unlink(s) \/ Answered(s) \/ Install(s) \/ SkipInstall(s)

LoginNext ==
  \/ \E s \in Session : Start(s) \/ Browse(s) \/ Step(s) \/ Kill(s)
  \/ Reinstall \/ ReinstallEnds

LoginSpec == LoginInit /\ [][LoginNext]_loginVars

(* The process runs: a sleep ends, and a request is answered or fails (timeout=30), which      *)
(* ends the login. Nobody owes a failure, a login or an approval.                      *)
LoginFairSpec == LoginSpec /\ \A s \in Session : WF_loginVars(Poll(s) \/ TimeOut(s)) /\ WF_loginVars(Advance(s))

-----------------------------------------------------------------------------
(* Properties.                                                              *)

(* Every variable has its type (login).                                            *)
LoginTypeOK ==
  LET Owner == Session \cup {NoSession} IN
  /\ pc \in [Session -> {"idle", "poll", "stale_key", "stale_license", "onboard", "register",
                          "install", "last"} \cup Files \cup Ended]
  /\ half \in [Session -> {"no", "decided", "truncated"}] /\ waited \in [Session -> Nat]
  /\ grant \in [Session -> {"none", "approved", "denied"}]
  /\ bound \in [Session -> [id : Owner, device : Owner]]
  /\ file \in [Files -> Owner \cup {Cut}]
  /\ installed \in [license : Owner, bearer : Owner] /\ bearer \in Owner /\ reinstall \in {"idle", "download"}
  /\ kills \in 0..MaxKills /\ reinstalls \in 0..MaxReinstalls
  /\ overlapped \in BOOLEAN /\ locked \in BOOLEAN /\ between \in BOOLEAN

OneLogin == \A f, g \in Secrets : Whole(f) /\ Whole(g) => file[f] = file[g]

(* The token, the API key and the license that can be read are of one login, whatever       *)
(* logins came and failed before, and so are the license of the installed runtime and        *)
(* the bearer it was downloaded with, unless two commands ran at a time, a stale file         *)
(* could not be removed, or a login was killed between caching its token and removing        *)
(* them (login, read_token, install_from_host).                                     *)
NoMixture ==
  \/ overlapped \/ locked \/ between
  \/ /\ OneLogin \/ \E s \in Session : pc[s] \in {"stale_key", "stale_license"}
     /\ installed.license = installed.bearer

(* The cached license is bound to the device id and the device key on disk, unless two       *)
(* logins ran at a time: no later login makes new ones (device_id, device_thumbprint).       *)
BoundToDevice ==
  overlapped \/ (Whole("license") =>
    bound[file.license] = [id |-> file.id, device |-> file.device])

(* Every login comes to an end, also when the user denies it or never answers, and           *)
(* whatever the hosts reply to a poll (device_authorize).                               *)
LoginEnds == \A s \in Session : pc[s] # "idle" ~> pc[s] \in Ended

-----------------------------------------------------------------------------
(* What the comments say and the code does not do.                              *)

(* "a mid-flow failure never leaves the CLI pointing at a stale key + license"               *)
(* (login.py:235), for failures that are kills.                                      *)
NeverStale ==
  overlapped \/ locked \/ Active # {} \/ OneLogin

(* "Generated once on first login" (paths.py:97): the device key can be read whenever        *)
(* no login is under way.                                                        *)
DeviceKeyReadable == Active = {} => file.device # Cut

(* One license for one machine (paths.py:97), also when two logins overlap.                 *)
AlwaysBound ==
  Active = {} /\ Whole("license") /\ Whole("device") => bound[file.license].device = file.device
=============================================================================
