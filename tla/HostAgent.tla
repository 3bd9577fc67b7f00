------------------------------ MODULE HostAgent ------------------------------
(***************************************************************************)
(* The supervisor of a host (commands/host-agent.ts) and its sessions: the *)
(* child process of each deploy, its recovery when it dies (back-off       *)
(* timers, then a slow re-probe on the heartbeat), the replacement of a    *)
(* daemon an earlier supervisor left behind, the refresh of a token before *)
(* a resume, and the file of live children that the next boot reads.       *)
(* Handlers run to their end except deploy(), which awaits before it       *)
(* spawns.  A killed child that nobody tracks any more matters only if it  *)
(* is a resume child that still exits with a failure.  Ages (1 min, 10     *)
(* min) and intervals are abstracted to steps.  Not modelled: fleet        *)
(* operations and self-update, a spawn that throws, a deploy into the      *)
(* wrapper checkout itself, and the single-session fallback for a host     *)
(* that has no file yet.                                                   *)
(***************************************************************************)
EXTENDS FiniteSets, Naturals

CONSTANTS
  Deploys,
  Retries,      \* RESUME_RETRY_BACKOFF_MS.length
  MaxResume,    \* resolveMaxResumeSessions()
  MaxCommands,  \* bound: commands of the app
  MaxDeaths     \* bound: restarts and crashes of the supervisor

ASSUME HostAssumption ==
  /\ IsFiniteSet(Deploys) /\ Retries \in Nat /\ MaxResume \in Nat \ {0}
  /\ MaxCommands \in Nat /\ MaxDeaths \in Nat

VARIABLES
  h,            \* what the supervisor knows of each deploy
  store,        \* host-agent-sessions.json: the deploys with a live child
  paired,       \* deploys with a saved pairing
  workspace,    \* deploys whose workspace is on disk
  orphan,       \* deploys whose session daemon outlived its supervisor
  wrapper,      \* the supervisor's own directory is the codespace wrapper checkout
  host,         \* "up", "down", or "gone" after self_hosted_wipe
  commands, deaths,
  (* history *)
  stop,         \* the user stopped it: "clean" if nothing was pending then, else "dirty"
  need,         \* its child died and was to be brought back
  fails,        \* failures since a child of it was last healthy
  alive         \* deploys with a child when the supervisor died

env == <<paired, workspace, orphan, wrapper>>
bounds == <<commands, deaths>>
hist == <<stop, need, fails, alive>>
vars == <<h, store, env, host, bounds, hist>>

Deploy0 == [child |-> "none", age |-> "young",        \* children.get(d)
            att |-> 0, armed |-> FALSE,               \* attempts, timer # null
            exh |-> FALSE, posted |-> FALSE,          \* exhausted, failurePosted
            timers |-> 0,                             \* retry timers that will fire
            repl |-> FALSE, refr |-> FALSE,           \* replacingOrphanFor, refreshingProxyFor
            depl |-> FALSE,                           \* deploy() has not spawned yet
            lost |-> 0, told |-> 0]                   \* untracked: never killed; killed resume children

TypeOK ==
  /\ h \in [Deploys ->
       [child : {"none", "deploy", "resume"}, age : {"young", "up", "healthy"},
        att : 0..Retries, armed : BOOLEAN, exh : BOOLEAN, posted : BOOLEAN, timers : Nat,
        repl : BOOLEAN, refr : BOOLEAN, depl : BOOLEAN, lost : Nat, told : Nat]]
  /\ store \subseteq Deploys /\ paired \subseteq Deploys /\ workspace \subseteq Deploys
  /\ orphan \subseteq Deploys /\ alive \subseteq Deploys /\ wrapper \in BOOLEAN
  /\ host \in {"up", "down", "gone"}
  /\ commands \in 0..MaxCommands /\ deaths \in 0..MaxDeaths
  /\ stop \in [Deploys -> {"no", "clean", "dirty"}] /\ need \in [Deploys -> BOOLEAN]
  /\ fails \in [Deploys -> 0..Retries + 1]

Init ==
  /\ h = [d \in Deploys |-> Deploy0]
  /\ store = {} /\ paired = {} /\ workspace = {} /\ orphan = {} /\ wrapper \in BOOLEAN
  /\ host = "up" /\ commands = 0 /\ deaths = 0
  /\ stop = [d \in Deploys |-> "no"] /\ need = [d \in Deploys |-> FALSE]
  /\ fails = [d \in Deploys |-> 0] /\ alive = {}

-----------------------------------------------------------------------------
Live(f) == {d \in Deploys : f[d].child # "none"}

(* trackChild() and untrackChild() mirror the children to disk; nothing else does. *)
NotMirrored(f) == store \cap Live(f)             \* fault: only removals are written
Mirrored(f) == IF [d \in Deploys |-> f[d].child] = [d \in Deploys |-> h[d].child]
               THEN store ELSE Live(f)

Becomes(f) == h' = f /\ store' = Mirrored(f)
With(d, r) == [h EXCEPT ![d] = r]

(* trackChild(): the map entry is overwritten, whatever it held. *)
Tracked(r, kind) ==
  [r EXCEPT !.child = kind, !.age = "young",
            !.lost = IF r.child = "none" THEN @ ELSE @ + 1]

Untracked(r) == [r EXCEPT !.child = "none", !.age = "young"]

(* SIGTERM, then untrackChild(). *)
Killed(r) ==
  [Untracked(r) EXCEPT !.told = IF r.child = "resume" THEN @ + 1 ELSE @]

(* A session whose directory is gone runs in the supervisor's, but never in the
   wrapper checkout. *)
Homeless(d) == wrapper /\ d \notin workspace

(* spawnResumeNow(), spawnResume(), resumeOne(); `stale` says that the proxy token
   is refreshed first.  A homeless session is skipped: no child, and no timer. *)
SpawnNow(d, r) == IF r.child # "none" \/ Homeless(d) THEN r ELSE Tracked(r, "resume")

SpawnResume(d, r, stale) ==
  IF r.child # "none" \/ r.refr THEN r
  ELSE IF stale THEN [r EXCEPT !.refr = TRUE]
  ELSE SpawnNow(d, r)

ResumeOne(d, r, stale) ==
  IF r.child # "none" \/ r.repl \/ r.refr THEN r
  ELSE IF d \in orphan THEN [r EXCEPT !.repl = TRUE]
  ELSE SpawnResume(d, r, stale)

(* onResumeChildExit(): a retry timer, or the slow re-probe and the failure bubble,
   whose POST may fail unheard and is skipped for a pairing without its token. *)
FailsQuietly(r) == [r EXCEPT !.exh = r.posted, !.posted = TRUE]   \* fault: flags swapped
FailsLoudly(r) == [r EXCEPT !.exh = TRUE, !.posted = TRUE]

ChildDied(r) ==
  IF r.att < Retries
  THEN [r EXCEPT !.att = @ + 1, !.armed = TRUE, !.timers = @ + 1]
  ELSE FailsLoudly(r)

(* What can still bring the session of d back without a command. *)
Recovering(r) == r.timers > 0 \/ r.exh \/ r.repl \/ r.refr

Pending(r) == Recovering(r) \/ r.depl \/ r.told > 0 \/ r.lost > 0

-----------------------------------------------------------------------------
Command == host = "up" /\ commands < MaxCommands /\ commands' = commands + 1

(* self_hosted_deploy: clone, credentials and install come first; then the child,
   or a failure that takes down whatever child the deploy has. *)
Deploy(d) ==
  /\ Command /\ ~h[d].depl
  /\ Becomes(With(d, [h[d] EXCEPT !.depl = TRUE]))
  /\ stop' = [stop EXCEPT ![d] = "no"]
  /\ UNCHANGED <<env, host, deaths, need, fails, alive>>

DeploySpawns(d) ==
  /\ host = "up" /\ h[d].depl
  /\ Becomes(With(d, Tracked([h[d] EXCEPT !.depl = FALSE], "deploy")))
  /\ workspace' = workspace \cup {d}
  /\ need' = [need EXCEPT ![d] = FALSE]
  /\ UNCHANGED <<paired, orphan, wrapper, host, bounds, stop, fails, alive>>

DeployFails(d) ==
  /\ host = "up" /\ h[d].depl
  /\ Becomes(With(d, Killed([h[d] EXCEPT !.depl = FALSE])))
  /\ need' = [need EXCEPT ![d] = FALSE]
  /\ UNCHANGED <<env, host, bounds, stop, fails, alive>>

Pairs(d) ==
  /\ host = "up" /\ h[d].child = "deploy" /\ d \notin paired
  /\ paired' = paired \cup {d}
  /\ UNCHANGED <<h, store, workspace, orphan, wrapper, host, bounds, hist>>

Ages(d) ==
  /\ host = "up" /\ h[d].child # "none" /\ h[d].age # "healthy"
  /\ h' = [h EXCEPT ![d].age = IF @ = "young" THEN "up" ELSE "healthy"]
  /\ fails' = [fails EXCEPT ![d] = IF h[d].age = "up" THEN 0 ELSE @]
  /\ UNCHANGED <<store, env, host, bounds, stop, need, alive>>

StoppedAs(d) == stop' = [stop EXCEPT ![d] = IF Pending(h[d]) THEN "dirty" ELSE "clean"]

(* self_hosted_stop: no child, nothing to do. *)
StopChild(d) ==
  /\ Command
  /\ Becomes(With(d, Killed(h[d])))
  /\ StoppedAs(d) /\ need' = [need EXCEPT ![d] = FALSE]
  /\ UNCHANGED <<env, host, deaths, fails, alive>>

(* self_hosted_cleanup: the workspace goes too. *)
CleanupWorkspace(d) ==
  /\ Command
  /\ Becomes(With(d, Killed(h[d])))
  /\ workspace' = workspace \ {d}
  /\ StoppedAs(d) /\ need' = [need EXCEPT ![d] = FALSE]
  /\ UNCHANGED <<paired, orphan, wrapper, host, deaths, fails, alive>>

(* self_hosted_resume of a session that is saved and has its workspace. *)
ResumeSaved(d, stale) ==
  /\ Command /\ d \in paired \cap workspace
  /\ Becomes(With(d, ResumeOne(d, h[d], stale)))
  /\ stop' = [stop EXCEPT ![d] = "no"]
  /\ UNCHANGED <<env, host, deaths, need, fails, alive>>

(* self_hosted_refresh_credentials with a key that lives in the environment: the
   children S of that agent are replaced, if their session is saved. *)
RefreshCredentials(S, stale) ==
  /\ Command /\ S # {} /\ S \subseteq Live(h)
  /\ Becomes([d \in Deploys |->
       IF d \in S \cap paired THEN ResumeOne(d, Killed(h[d]), d \in stale) ELSE h[d]])
  /\ UNCHANGED <<env, host, deaths, hist>>

-----------------------------------------------------------------------------
(* The exit of a child.  Recovery of a deploy child is for one that was up and has
   its pairing; of a resume child, for a failure or a signal nobody sent. *)
CountFailure(d) == fails' = [fails EXCEPT ![d] = IF @ > Retries THEN @ ELSE @ + 1]

DiesForGood(d) ==
  /\ Becomes(With(d, Untracked(h[d])))
  /\ need' = [need EXCEPT ![d] = FALSE]
  /\ UNCHANGED fails

DiesToReturn(d) ==
  /\ Becomes(With(d, ChildDied(Untracked(h[d]))))
  /\ need' = [need EXCEPT ![d] = TRUE]
  /\ CountFailure(d)

DeployChildExits(d) ==
  /\ host = "up" /\ h[d].child = "deploy"
  /\ IF h[d].age # "young" /\ d \in paired THEN DiesToReturn(d) ELSE DiesForGood(d)
  /\ UNCHANGED <<env, host, bounds, stop, alive>>

ResumeChildExits(d, how) ==
  /\ host = "up" /\ h[d].child = "resume"
  /\ IF how \in {"fails", "signal"} THEN DiesToReturn(d) ELSE DiesForGood(d)
  /\ UNCHANGED <<env, host, bounds, stop, alive>>

(* A killed resume child: only a failing exit code still counts. *)
AnyExit(how) == TRUE                             \* fault: the signal we sent is a crash
FailingExit(how) == how = "fails"

ToldChildExits(d, how) ==
  /\ host = "up" /\ h[d].told > 0
  /\ LET r == [h[d] EXCEPT !.told = @ - 1] IN
       IF FailingExit(how)
       THEN Becomes(With(d, ChildDied(r)))
            /\ need' = [need EXCEPT ![d] = TRUE]
            /\ IF r.child = "none" THEN CountFailure(d) ELSE UNCHANGED fails
       ELSE Becomes(With(d, r)) /\ UNCHANGED <<need, fails>>
  /\ stop' = [stop EXCEPT ![d] = IF @ = "clean" /\ how = "fails" THEN "dirty" ELSE @]
  /\ UNCHANGED <<env, host, bounds, alive>>

(* The app's "Stop session" or "Delete session" reaches the child itself, which
   exits with code 0; a deleted session takes its pairing along. *)
AppStops(d, deleted) ==
  /\ Command /\ h[d].child # "none"
  /\ paired' = IF deleted THEN paired \ {d} ELSE paired
  /\ IF h[d].child = "deploy" /\ h[d].age # "young" /\ d \in paired'
     THEN DiesToReturn(d) /\ stop' = [stop EXCEPT ![d] = "dirty"]
     ELSE DiesForGood(d) /\ StoppedAs(d)
  /\ UNCHANGED <<workspace, orphan, wrapper, host, deaths, alive>>

-----------------------------------------------------------------------------
StaysArmed(r) == [r EXCEPT !.timers = @ - 1]     \* fault: the handle is not cleared
Fired(r) == [r EXCEPT !.timers = @ - 1, !.armed = FALSE]

RetryTimer(d, stale) ==
  /\ host = "up" /\ h[d].timers > 0
  /\ Becomes(With(d, ResumeOne(d, Fired(h[d]), stale)))
  /\ UNCHANGED <<env, host, bounds, hist>>

(* The orphan is dead and reaped. *)
Replaced(d, stale) ==
  /\ host = "up" /\ h[d].repl
  /\ orphan' = orphan \ {d}
  /\ Becomes(With(d, SpawnResume(d, [h[d] EXCEPT !.repl = FALSE], stale)))
  /\ UNCHANGED <<paired, workspace, wrapper, host, bounds, hist>>

(* The token was refreshed, or was not. *)
Refreshed(d) ==
  /\ host = "up" /\ h[d].refr
  /\ Becomes(With(d, SpawnNow(d, [h[d] EXCEPT !.refr = FALSE])))
  /\ UNCHANGED <<env, host, bounds, hist>>

(* resumeRecoveryTick(), per session. *)
SurvivedATick(d) == TRUE                         \* fault: no age gate
Healthy(d) == h[d].age = "healthy"

RecoveryReset(d) ==
  /\ host = "up" /\ h[d].child # "none" /\ Healthy(d) /\ (h[d].att > 0 \/ h[d].exh)
  /\ h' = [h EXCEPT ![d].att = 0, ![d].exh = FALSE, ![d].posted = FALSE]
  /\ UNCHANGED <<store, env, host, bounds, hist>>

Reprobe(d, stale) ==
  /\ host = "up" /\ h[d].child = "none" /\ h[d].exh /\ ~h[d].armed
  /\ Becomes(With(d, ResumeOne(d, h[d], stale)))
  /\ UNCHANGED <<env, host, bounds, hist>>

-----------------------------------------------------------------------------
(* The supervisor stops (its children are killed, the file stays) or dies; without
   systemd some session daemons outlive it. *)
HostDies(S) ==
  /\ host = "up" /\ deaths < MaxDeaths
  /\ S \subseteq {d \in Deploys : h[d].child # "none" \/ h[d].lost > 0}
  /\ deaths' = deaths + 1 /\ host' = "down"
  /\ orphan' = orphan \cup S
  /\ alive' = Live(h)
  /\ h' = [d \in Deploys |-> Deploy0]
  /\ stop' = [d \in Deploys |-> "no"] /\ need' = [d \in Deploys |-> FALSE]
  /\ fails' = [d \in Deploys |-> 0]
  /\ UNCHANGED <<store, paired, workspace, wrapper, commands>>

(* self_hosted_wipe: stop(), and nothing is left to resume. *)
Wipe ==
  /\ Command
  /\ host' = "gone" /\ store' = {}
  /\ h' = [d \in Deploys |-> Deploy0]
  /\ stop' = [d \in Deploys |-> "no"] /\ need' = [d \in Deploys |-> FALSE]
  /\ fails' = [d \in Deploys |-> 0] /\ alive' = {}
  /\ UNCHANGED <<env, deaths>>

LeastOf(a, b) == IF a < b THEN a ELSE b

(* start() and resumePersistedSessions(): at most MaxResume of the file's sessions
   that are still paired; a file that promises what did not come back is emptied. *)
Boot(R, stale) ==
  /\ host = "down"
  /\ R \subseteq store /\ Cardinality(R) = LeastOf(MaxResume, Cardinality(store))
  /\ host' = "up"
  /\ h' = [d \in Deploys |->
            IF d \in R \cap paired THEN ResumeOne(d, Deploy0, d \in stale) ELSE Deploy0]
  /\ store' = IF Live(h') # {} THEN Live(h')
              ELSE IF \E d \in Deploys : h'[d].repl THEN store
              ELSE {}
  /\ UNCHANGED <<env, bounds, hist>>

DeployStep(d) ==
  \/ Deploy(d) \/ DeploySpawns(d) \/ DeployFails(d) \/ Pairs(d) \/ Ages(d)
  \/ StopChild(d) \/ CleanupWorkspace(d)
  \/ \E deleted \in BOOLEAN : AppStops(d, deleted)
  \/ \E stale \in BOOLEAN : ResumeSaved(d, stale)

ExitStep(d) ==
  \/ DeployChildExits(d)
  \/ \E how \in {"clean", "fails", "signal"} : ResumeChildExits(d, how) \/ ToldChildExits(d, how)

RecoveryStep(d) ==
  \/ \E stale \in BOOLEAN : RetryTimer(d, stale) \/ Replaced(d, stale) \/ Reprobe(d, stale)
  \/ Refreshed(d) \/ RecoveryReset(d)

BootStep == \E R \in SUBSET store, stale \in SUBSET Deploys : Boot(R, stale)

Next ==
  \/ \E d \in Deploys : DeployStep(d) \/ ExitStep(d) \/ RecoveryStep(d)
  \/ \E S, stale \in SUBSET Deploys : RefreshCredentials(S, stale)
  \/ \E S \in SUBSET Deploys : HostDies(S)
  \/ Wipe \/ BootStep

(* Timers fire, awaited calls settle, the heartbeat ticks, and whoever runs the
   host starts the supervisor again. *)
Fairness == WF_vars(BootStep) /\ \A d \in Deploys : WF_vars(RecoveryStep(d))

Spec == Init /\ [][Next]_vars /\ Fairness

-----------------------------------------------------------------------------
(* A session whose child crashed is running again or something still works on it,
   in whatever order timers, orphans, token refreshes and commands come, unless its
   workspace was cleaned up and the supervisor has only the wrapper checkout. *)
NeverAbandoned ==
  \A d \in Deploys : host = "up" /\ need[d] =>
    h[d].child # "none" \/ Recovering(h[d]) \/ Homeless(d)

(* A crash loop gets as far as its failure bubble, sent or attempted (`failurePosted`):
   the retry budget is not refilled by a child that merely survives for a while. *)
CrashLoopIsTold == \A d \in Deploys : fails[d] > Retries => h[d].posted

(* A session that was stopped with nothing pending stays down until it is asked for. *)
StoppedStaysDown == \A d \in Deploys : stop[d] = "clean" => h[d].child = "none"

(* The sessions that were live when the supervisor went down come back at its next
   boot, as far as they are still paired and within the bound. *)
LiveComesBack ==
  [][host = "down" /\ host' = "up" /\ Cardinality(store) <= MaxResume =>
       \A d \in alive \cap paired : h'[d].child # "none" \/ h'[d].repl \/ h'[d].refr]_vars

(* What is being recovered gets a child again, if there is a directory to run it in. *)
Recovers ==
  \A d \in Deploys : host = "up" /\ Recovering(h[d]) ~>
    h[d].child # "none" \/ Homeless(d) \/ host # "up"

-----------------------------------------------------------------------------
(* "Stop session", from the app or through the supervisor, lasts. *)
StopLasts == \A d \in Deploys : stop[d] # "no" => h[d].child = "none"

(* The file lists what "a restart must bring back". *)
RecoveryIsPersisted ==
  \A d \in Deploys : host = "up" /\ need[d] /\ d \in paired => d \in store

(* One process per deploy. *)
OneProcess == \A d \in Deploys : h[d].lost = 0
=============================================================================
