---------------------------- MODULE RelayPresence ----------------------------
(***************************************************************************)
(* What the backend is told about a running session                        *)
(* (services/command-relay.service.ts): AgentAnnounce, the agent that      *)
(* runs, and RelayHeartbeat, that it runs at all, in one process.  They    *)
(* share the relay's _running: start() sends a first beat and a first      *)
(* announcement, whatever stops the beats stops the announcement's timer,  *)
(* and a switch that ends after the relay has stopped still announces.     *)
(***************************************************************************)
EXTENDS AgentAnnounce

CONSTANT Beats

VARIABLES gone, invalid, leaving, exited, beat, retry, retries, goodbye, paired, late

HB == INSTANCE RelayHeartbeat

announceVars == <<agent, registered, post, landed, backend, overtaken>>
beatVars == <<gone, invalid, leaving, exited, beat, retry, retries, goodbye, paired, late>>
presence == <<running, announceVars, beatVars>>

PresenceInit == Init /\ HB!Init

-----------------------------------------------------------------------------
StartRelay == \E p \in Posts, b \in Beats : Start(p) /\ HB!Start(b)

(* A process that has exited reads no answers and posts nothing, while what it
   has posted may still land. *)
Announce(p) ==
  /\ \/ HB!Started /\ ~exited /\ Switch(p)
     \/ TimerFires(p) \/ Lands(p)
     \/ ~exited /\ (Succeeds(p) \/ Fails(p))
  /\ UNCHANGED beatVars

Beat(b) ==
  HB!Tick(b) \/ HB!RetryFires(b) \/ HB!Reaches(b) \/ HB!BeatFails(b) \/ HB!BeatAnswered(b)

Stopping ==
  \/ \E b \in Beats : HB!SessionGone(b)
  \/ HB!PairingInvalid \/ HB!Shutdown \/ HB!Exit \/ HB!Goodbye

PresenceNext ==
  \/ StartRelay
  \/ \E p \in Posts : Announce(p)
  \/ (\/ \E b \in Beats : Beat(b)
      \/ Stopping \/ HB!Unpair) /\ UNCHANGED announceVars

(* The timer of the announcement fires as long as the relay runs, and a backend
   that is tried for ever answers. *)
TimerFiresAlone(p) == TimerFires(p) /\ UNCHANGED beatVars
LandsAlone(p) == Lands(p) /\ UNCHANGED beatVars
SucceedsAlone(p) == ~exited /\ Succeeds(p) /\ UNCHANGED beatVars

PresenceSpec ==
  /\ PresenceInit /\ [][PresenceNext]_presence
  /\ WF_presence(\E p \in Posts : TimerFiresAlone(p))
  /\ \A p \in Posts : SF_presence(LandsAlone(p)) /\ SF_presence(SucceedsAlone(p))

-----------------------------------------------------------------------------
(* As long as the relay runs, the backend comes to show the agent that runs,
   unless a POST of an earlier agent overlapped the switch. *)
AnnouncedWhileRunning ==
  \A a \in Agents :
    running /\ agent = a ~> backend = a \/ agent # a \/ overtaken \/ ~running

(* Second attempts are bounded, and the only beats after a stop. *)
BeatsBounded == HB!BeatsBounded
=============================================================================
