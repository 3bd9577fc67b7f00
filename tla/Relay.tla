-------------------------------- MODULE Relay --------------------------------
(***************************************************************************)
(* What links a session to the backend: the channel that commands come by  *)
(* (RelayChannel), what the backend is told of the process                 *)
(* (RelayPresence), and of the conversation in the terminal                *)
(* (TranscriptMirror, which the heartbeats poke).  None reads what another *)
(* writes, except _running, which only a start and a stop set, for both    *)
(* that have it; so a behaviour follows one of them: interleaving two      *)
(* would show nothing that neither shows alone.                            *)
(***************************************************************************)
EXTENDS RelayPresence

CONSTANTS
  Conns, NoConn,                                     \* RelayChannel
  Convs, NoConv, MaxTurns, MaxMirrors, MaxHandoffs   \* TranscriptMirror

ASSUME LinkAssumption ==
  /\ NoConn \notin Conns /\ NoConv \notin Convs /\ IsFiniteSet(Beats)
  /\ MaxTurns \in Nat /\ MaxMirrors \in Nat \ {0} /\ MaxHandoffs \in Nat

VARIABLES
  part,       \* the component that the behaviour follows
  streaming,  \* _running, for the channel
  conn, onStream, delivered, current, failures, timer, watchdog, fellBack, loops, pollTimer,
  refused, heard, doubled,
  state, conv, handoffs, up, at, seen, disk, turns, m, changed, chain, live, snaps,
  overlooked, unread

Channel == INSTANCE RelayChannel WITH running <- streaming
Mirror == INSTANCE TranscriptMirror

channelVars == <<streaming, conn, onStream, delivered, current, failures, timer, watchdog,
                 fellBack, loops, pollTimer, refused, heard, doubled>>
mirrorVars == <<state, conv, handoffs, up, at, seen, disk, turns, m, changed, chain, live,
                snaps, overlooked, unread>>
relayVars == <<part, presence, channelVars, mirrorVars>>

RelayInit ==
  /\ part \in {"channel", "presence", "mirror"}
  /\ PresenceInit /\ Channel!Init /\ Mirror!Init
  /\ part # "channel" => ~fellBack /\ current = CHOOSE i \in Conns : TRUE
  /\ part # "mirror" => conv = NoConv /\ at = CHOOSE c \in Convs : TRUE

ChannelMoves == part = "channel" /\ Channel!Next /\ UNCHANGED <<part, presence, mirrorVars>>
PresenceMoves == part = "presence" /\ PresenceNext /\ UNCHANGED <<part, channelVars, mirrorVars>>
MirrorMoves == part = "mirror" /\ Mirror!Next /\ UNCHANGED <<part, presence, channelVars>>

RelayNext == ChannelMoves \/ PresenceMoves \/ MirrorMoves

(* Timers fire, a request without an answer is over within the timeout of its
   socket, a backend that is tried for ever answers, heartbeats and callbacks go on. *)
RelaySpec ==
  /\ RelayInit /\ [][RelayNext]_relayVars
  /\ WF_channelVars(part = "channel" /\ Channel!TimerFires)
  /\ \A i \in Conns :
       WF_channelVars(/\ part = "channel" /\ conn[i] \in {"connecting", "refused", "reset"}
                      /\ Channel!Request(i))
  /\ WF_presence(part = "presence" /\ \E p \in Posts : TimerFiresAlone(p))
  /\ \A p \in Posts :
       /\ SF_presence(part = "presence" /\ LandsAlone(p))
       /\ SF_presence(part = "presence" /\ SucceedsAlone(p))
  /\ WF_mirrorVars(part = "mirror" /\ Mirror!Poke)
  /\ WF_mirrorVars(part = "mirror" /\ Mirror!WatchBegins)
  /\ WF_mirrorVars(part = "mirror" /\ Mirror!OnChange)

-----------------------------------------------------------------------------
(* One way back to the backend at a time, with the watchdog on the stream that is
   open and stop() able to reach it, as long as no request reports its failure
   twice. *)
SingleChannel == Channel!SingleChannel

(* However requests fail, the relay is time and again on an open stream, or it is
   polling. *)
ChannelReturns == part = "channel" => Channel!ChannelReturns

(* No turn is shown live twice, by two mirrors or by a mirror and the adapter. *)
ShownOnce == Mirror!ShownOnce

(* Whenever the transcript of the terminal's conversation appears, its turns reach
   the mirror. *)
EveryTurnIsRead == Mirror!EveryTurnIsRead

(* The parts' type invariants, with the bounds of the beats, what the latch of the
   announcement means, and what the ladder of the channel never leaves out. *)
RelayTypeOK ==
  /\ TypeOK /\ HB!TypeOK /\ Channel!TypeOK /\ Mirror!TypeOK
  /\ BeatsBounded /\ LatchedMeansKnown
  /\ Channel!AlwaysAWayBack /\ Channel!PollsOnlyAfterApi
=============================================================================
