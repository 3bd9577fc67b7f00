--------------------------- MODULE BatonController ---------------------------
(***************************************************************************)
(* The baton: who drives a paired session, the native TUI in the terminal  *)
(* or the phone through an ACP adapter (baton/baton-controller.ts with the *)
(* lifecycle of its two drivers, baton/native-tui-driver.ts and            *)
(* baton/acp-driver.ts).                                                   *)
(*                                                                         *)
(* A switchDriver() call runs a hand-off (yield, stop the current driver,  *)
(* start the next one) and waits for it against a deadline.  The hand-off  *)
(* is not cancelled when the deadline fires: it is a job of its own here,  *)
(* and goes on behind the controller's back.  The same holds for the two   *)
(* bounded calls of the recovery.  One step of the model is one await.     *)
(***************************************************************************)
EXTENDS Naturals, FiniteSets

CONSTANTS
  Convs,        \* conversation ids
  None,         \* no conversation id yet
  MaxSwitches   \* bound: accepted take-control / hand-back requests

ASSUME BatonAssumption == None \notin Convs /\ MaxSwitches \in Nat

VARIABLES
  state, active, conv,  \* _state, _active, _conversationId
  published,            \* arguments of the last publishState, None before it
  njobs,                \* hand-offs started so far; job k is the k-th one
  hand,                 \* where the hand-off of job k is
  from, prior,          \* state and conversation job k switches away from
  call,                 \* the switchDriver() call in progress
  lateStop, lateStart,  \* recovery calls still open after their deadline
  up,                   \* the driver's process runs its session
  driving,              \* the conversation that process is in
  turned,               \* conversations with a transcript on disk
  used,                 \* ids minted so far
  probes,               \* ids background discovery has still to report
  (* history *)
  late,                 \* a call nobody waits for any more touched a driver
  lost,                 \* a recovery gave up on reviving the stopped driver
  missed                \* the controller ignored a conversation switch

ctl  == <<state, active, conv, published>>
jobs == <<njobs, hand, from, prior, call, lateStop, lateStart>>
drv  == <<up, driving, turned, used, probes>>
vars == <<ctl, jobs, drv, late, lost, missed>>

Drivers == {"local_tui", "mobile_acp"}
Steady  == {"LOCAL_DRIVE", "MOBILE_DRIVE"}
Jobs    == 1..MaxSwitches
MaybeConv == Convs \cup {None}

KindOf(s) == IF s = "LOCAL_DRIVE" THEN "local_tui" ELSE "mobile_acp"
Opposite(s) == IF s = "LOCAL_DRIVE" THEN "MOBILE_DRIVE" ELSE "LOCAL_DRIVE"
CurrentOf(k) == KindOf(from[k])
NextOf(k) == KindOf(Opposite(from[k]))

Calls == [pc : {"idle", "race", "recStop", "recStart"}, job : Nat, stopped : BOOLEAN]
NoCall == [pc |-> "idle", job |-> 0, stopped |-> FALSE]

TypeOK ==
  /\ state \in Steady \cup {"STARTING", "SWITCHING"}
  /\ active \in Drivers /\ conv \in MaybeConv
  /\ published \in {None} \cup ((Steady \cup {"SWITCHING"}) \X Drivers \X MaybeConv)
  /\ njobs \in 0..MaxSwitches
  /\ hand \in [Jobs -> {"none", "yield", "stop", "start", "end"}]
  /\ from \in [Jobs -> Steady] /\ prior \in [Jobs -> MaybeConv]
  /\ call \in Calls /\ call.job <= njobs
  /\ lateStop \in SUBSET Jobs /\ lateStart \in SUBSET Jobs
  /\ up \in [Drivers -> BOOLEAN] /\ driving \in [Drivers -> MaybeConv]
  /\ turned \in SUBSET Convs /\ used \in SUBSET Convs /\ probes \in SUBSET Convs
  /\ late \in BOOLEAN /\ lost \in BOOLEAN /\ missed \in BOOLEAN

Init ==
  /\ state = "STARTING" /\ active = "local_tui" /\ conv = None /\ published = None
  /\ njobs = 0 /\ call = NoCall /\ lateStop = {} /\ lateStart = {}
  /\ hand = [k \in Jobs |-> "none"]
  /\ from = [k \in Jobs |-> "LOCAL_DRIVE"] /\ prior = [k \in Jobs |-> None]
  /\ up = [d \in Drivers |-> FALSE] /\ driving = [d \in Drivers |-> None]
  /\ turned = {} /\ used = {} /\ probes = {}
  /\ late = FALSE /\ lost = FALSE /\ missed = FALSE

-----------------------------------------------------------------------------
(* setState(s): assign and publish with the given driver and conversation.  *)
SetState(s, a, c) ==
  /\ state' = s /\ active' = a /\ conv' = c
  /\ published' = <<s, a, c>>

(* start(resumeId) of a driver resolves: the process is up in conversation c
   and the call resolves with id.  The native TUI resumes c; without an id it
   spawns a new conversation, whose id is known at once, or reported later by
   background discovery (id None).  The ACP adapter loads a conversation that
   has a transcript, and otherwise mints one (the zero-turn guard).  It refuses
   to start twice. *)
AlwaysFresh(c) == FALSE                          \* fault: never session/load
Resumable(c) == c \in turned

StartResumes(d, c) ==
  /\ c # None /\ (d = "mobile_acp" => ~up[d] /\ Resumable(c))
  /\ up' = [up EXCEPT ![d] = TRUE]
  /\ driving' = [driving EXCEPT ![d] = c]
  /\ UNCHANGED <<turned, used, probes>>

StartMints(d, c, new, id) ==
  /\ new \in Convs \ used /\ id \in {new, None}
  /\ d = "mobile_acp" => ~up[d] /\ ~Resumable(c) /\ id = new
  /\ d = "local_tui" => c = None
  /\ up' = [up EXCEPT ![d] = TRUE]
  /\ driving' = [driving EXCEPT ![d] = new]
  /\ used' = used \cup {new}
  /\ probes' = IF id = None THEN probes \cup {new} ELSE probes
  /\ UNCHANGED turned

StartResolves(d, c, id) ==
  \/ StartResumes(d, c) /\ id = c
  \/ \E new \in Convs : StartMints(d, c, new, id)

(* start() rejects: whatever ran is stopped (AcpDriver's catch; restart() has
   killed the old PTY before the new one fails to spawn). *)
StartRejects(d) == up' = [up EXCEPT ![d] = FALSE] /\ UNCHANGED <<driving, turned, used, probes>>

Stops(d) == StartRejects(d)

(* begin(): the native TUI comes up and the controller publishes. *)
Begin ==
  /\ state = "STARTING"
  /\ \E id \in MaybeConv : /\ StartResolves("local_tui", None, id)
                           /\ SetState("LOCAL_DRIVE", "local_tui", id)
  /\ UNCHANGED <<jobs, late, lost, missed>>

-----------------------------------------------------------------------------
(* What the native TUI reports.                                             *)

(* A turn in the terminal or on the phone writes the transcript. *)
Turn(d) ==
  /\ state # "STARTING" /\ up[d] /\ driving[d] \notin turned
  /\ turned' = turned \cup {driving[d]}
  /\ UNCHANGED <<ctl, jobs, up, driving, used, probes, late, lost, missed>>

(* rebindConversation: discovery found the id of a transcript. *)
RebindAllowed == conv = None /\ state = "LOCAL_DRIVE"

RebindConversation(c) ==
  /\ c \in probes \cap turned
  /\ probes' = probes \ {c}
  /\ IF RebindAllowed THEN SetState("LOCAL_DRIVE", active, c) ELSE UNCHANGED ctl
  /\ UNCHANGED <<jobs, up, driving, turned, used, late, lost, missed>>

(* Discovery runs out (no first turn within its four minutes). *)
DiscoveryGivesUp(c) ==
  /\ c \in probes \ turned
  /\ probes' = probes \ {c}
  /\ UNCHANGED <<ctl, jobs, up, driving, turned, used, late, lost, missed>>

(* switchConversation: /clear minted an id, or /resume opened another one; the
   watcher lives from the TUI's start to its stop. *)
SwitchConversation(c) ==
  /\ up["local_tui"] /\ state # "STARTING" /\ c # driving["local_tui"]
  /\ c \in turned \/ c \notin used
  /\ driving' = [driving EXCEPT !["local_tui"] = c]
  /\ used' = used \cup {c}
  /\ IF state = "LOCAL_DRIVE" /\ conv # c
     THEN SetState("LOCAL_DRIVE", active, c) /\ UNCHANGED missed
     ELSE UNCHANGED ctl /\ missed' = TRUE
  /\ UNCHANGED <<jobs, up, turned, probes, late, lost>>

-----------------------------------------------------------------------------
(* switchDriver(): takeControl from LOCAL_DRIVE, handback from MOBILE_DRIVE.
   In any other state the request returns at once. *)
SwitchDriver(s) ==
  /\ state = s /\ s \in Steady /\ njobs < MaxSwitches
  /\ SetState("SWITCHING", active, conv)
  /\ njobs' = njobs + 1
  /\ from' = [from EXCEPT ![njobs'] = s]
  /\ prior' = [prior EXCEPT ![njobs'] = conv]
  /\ hand' = [hand EXCEPT ![njobs'] = "yield"]
  /\ call' = [pc |-> "race", job |-> njobs', stopped |-> FALSE]
  /\ UNCHANGED <<lateStop, lateStart, drv, late, lost, missed>>

Awaited(k) == call.pc = "race" /\ call.job = k

(* The hand-off's own steps; late when its deadline has passed. *)
Yielded(k) ==
  /\ hand[k] = "yield"
  /\ hand' = [hand EXCEPT ![k] = "stop"]
  /\ UNCHANGED <<ctl, njobs, from, prior, call, lateStop, lateStart, drv, late, lost, missed>>

(* The TUI yields after 750 ms without output and discovery polls every 500 ms,
   so a transcript is reported before the TUI that wrote it is stopped. *)
CurrentStopped(k) ==
  /\ hand[k] = "stop"
  /\ CurrentOf(k) = "local_tui" => probes \cap turned = {}
  /\ hand' = [hand EXCEPT ![k] = "start"]
  /\ Stops(CurrentOf(k))
  /\ late' = (late \/ ~Awaited(k))
  /\ UNCHANGED <<ctl, njobs, from, prior, call, lateStop, lateStart, lost, missed>>

NextStarted(k) ==
  /\ hand[k] = "start"
  /\ hand' = [hand EXCEPT ![k] = "end"]
  /\ \E id \in MaybeConv :
       /\ StartResolves(NextOf(k), prior[k], id)
       /\ IF Awaited(k)
          THEN SetState(Opposite(from[k]), NextOf(k), id) /\ call' = NoCall
          ELSE UNCHANGED <<ctl, call>>
  /\ late' = (late \/ ~Awaited(k))
  /\ UNCHANGED <<njobs, from, prior, lateStop, lateStart, lost, missed>>

(* The catch of switchDriver: enter recoverFromFailedSwitch, which knows
   whether the hand-off had stopped the current driver by then. *)
NeverStopped(k) == FALSE                         \* fault: never revives
StoppedCurrent(k) == hand[k] = "start"

Recover(k) ==
  call' = [pc |-> "recStop", job |-> k, stopped |-> StoppedCurrent(k)]

NextFailed(k) ==
  /\ hand[k] = "start"
  /\ hand' = [hand EXCEPT ![k] = "end"]
  /\ StartRejects(NextOf(k))
  /\ IF Awaited(k) THEN Recover(k) ELSE UNCHANGED call
  /\ late' = (late \/ ~Awaited(k))
  /\ UNCHANGED <<ctl, njobs, from, prior, lateStop, lateStart, lost, missed>>

NoDeadline == FALSE                              \* fault: the pre-incident code
SwitchTimeout ==
  /\ call.pc = "race"
  /\ Recover(call.job)
  /\ UNCHANGED <<ctl, njobs, hand, from, prior, lateStop, lateStart, drv, late, lost, missed>>

-----------------------------------------------------------------------------
(* recoverFromFailedSwitch: stop next, revive current if it was stopped, then
   revert to the steady state the switch came from. *)
RevertToTarget(c) ==                             \* fault: reverts to the wrong side
  SetState(Opposite(from[call.job]), NextOf(call.job), c) /\ call' = NoCall
Revert(c) == SetState(from[call.job], KindOf(from[call.job]), c) /\ call' = NoCall

AfterRecStop ==
  IF call.stopped
  THEN call' = [call EXCEPT !.pc = "recStart"] /\ UNCHANGED ctl
  ELSE Revert(prior[call.job])

RecNextStopped ==
  /\ call.pc = "recStop"
  /\ Stops(NextOf(call.job))
  /\ AfterRecStop
  /\ UNCHANGED <<njobs, hand, from, prior, lateStop, lateStart, late, lost, missed>>

RecStopTimeout ==
  /\ call.pc = "recStop"
  /\ AfterRecStop
  /\ lateStop' = lateStop \cup {call.job}
  /\ UNCHANGED <<njobs, hand, from, prior, lateStart, drv, late, lost, missed>>

RecCurrentStarted ==
  /\ call.pc = "recStart"
  /\ \E id \in MaybeConv :
       /\ StartResolves(CurrentOf(call.job), prior[call.job], id)
       /\ Revert(IF id # None THEN id ELSE prior[call.job])
  /\ UNCHANGED <<njobs, hand, from, prior, lateStop, lateStart, late, lost, missed>>

RecCurrentFailed ==
  /\ call.pc = "recStart"
  /\ StartRejects(CurrentOf(call.job))
  /\ Revert(prior[call.job])
  /\ lost' = TRUE
  /\ UNCHANGED <<njobs, hand, from, prior, lateStop, lateStart, late, missed>>

RecStartTimeout ==
  /\ call.pc = "recStart"
  /\ Revert(prior[call.job])
  /\ lateStart' = lateStart \cup {call.job}
  /\ lost' = TRUE
  /\ UNCHANGED <<njobs, hand, from, prior, lateStop, drv, late, missed>>

(* A recovery call resolves after its deadline. *)
LateStopDone(k) ==
  /\ k \in lateStop
  /\ lateStop' = lateStop \ {k}
  /\ Stops(NextOf(k))
  /\ late' = TRUE
  /\ UNCHANGED <<ctl, njobs, hand, from, prior, call, lateStart, lost, missed>>

LateStartDone(k) ==
  /\ k \in lateStart
  /\ lateStart' = lateStart \ {k}
  /\ \/ \E id \in MaybeConv : StartResolves(CurrentOf(k), prior[k], id)
     \/ StartRejects(CurrentOf(k))
  /\ late' = TRUE
  /\ UNCHANGED <<ctl, njobs, hand, from, prior, call, lateStop, lost, missed>>

-----------------------------------------------------------------------------
Handoff(k) == Yielded(k) \/ CurrentStopped(k) \/ NextStarted(k) \/ NextFailed(k)

Timeouts == SwitchTimeout \/ RecStopTimeout \/ RecStartTimeout

Next ==
  \/ Begin
  \/ \E d \in Drivers : Turn(d)
  \/ \E c \in Convs : RebindConversation(c) \/ DiscoveryGivesUp(c) \/ SwitchConversation(c)
  \/ \E s \in Steady : SwitchDriver(s)
  \/ \E k \in Jobs : Handoff(k) \/ LateStopDone(k) \/ LateStartDone(k)
  \/ SwitchTimeout
  \/ RecNextStopped \/ RecStopTimeout
  \/ RecCurrentStarted \/ RecCurrentFailed \/ RecStartTimeout

(* Only the deadlines are certain to fire: a driver may never answer. *)
Spec == Init /\ [][Next]_vars /\ WF_vars(Timeouts)

-----------------------------------------------------------------------------
(* In a steady state, as long as no abandoned call has touched a driver, the
   driver of that state runs, unless its revival was given up, and the other
   one does not ("Owns exactly one active driver"). *)
TimelySingleDriver ==
  state \in Steady /\ ~late =>
    /\ active = KindOf(state)
    /\ ~up[KindOf(Opposite(state))] \/ lateStop # {}
    /\ up[active] \/ lost

(* The class comment's "single-driver invariant" and the recovery's "so a second
   adapter/PTY can't race the revived one", once no recovery call is open. *)
SingleDriver ==
  state \in Steady /\ lateStop = {} /\ lateStart = {} => \E d \in Drivers : ~up[d]

(* currentState(), which the heartbeat re-posts, is what was last published. *)
ReaffirmsPublished == published # None => published = <<state, active, conv>>

(* A conversation that has turns survives every switch, done or failed. *)
ConversationKept ==
  [][state = "SWITCHING" /\ state' # "SWITCHING" /\ conv \in turned => conv' = conv]_vars

(* The baton passes only to a driver that runs, as the switch completes, so
   until then commands go to the driver that had it. *)
BatonPassesToRunning ==
  [][active' # active => state = "SWITCHING" /\ state' = Opposite(from[call.job]) /\ up'[active']]_vars

(* The driver with the baton is in the conversation the controller publishes
   and resumes at the next switch, as long as no abandoned call moved it and no
   conversation switch was ignored. *)
DrivesPublished ==
  state \in Steady /\ ~late /\ ~missed /\ up[active] /\ conv # None => driving[active] = conv

(* The comment of switchConversation: the guard loses nothing, since "during a
   hand-off / MOBILE_DRIVE the native watcher is torn down anyway". *)
NoSwitchMissed == ~late => ~missed

(* The comment of start(): without an id "a failed background poll just leaves
   take-control off", so taking control never abandons the conversation that
   the terminal is in. *)
TakeControlKeepsConversation ==
  [][state = "SWITCHING" /\ state' = "MOBILE_DRIVE" /\ ~late /\ ~missed
       /\ driving["local_tui"] \in turned
     => conv' = driving["local_tui"]]_vars

(* Whatever the drivers do, a switch ends: mobile never stays on "Switching"
   (the incident the deadline is for). *)
SwitchEnds == state = "SWITCHING" ~> state \in Steady
=============================================================================
