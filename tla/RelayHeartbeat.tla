--------------------------- MODULE RelayHeartbeat ---------------------------
(***************************************************************************)
(* The relay's heartbeats (sendHeartbeat, stopAndFlush, handleSessionGone, *)
(* sendResult and stopRelayWithGoodbye in                                  *)
(* services/command-relay.service.ts).  A beat that fails is tried once    *)
(* more 3 s later; stopping sends one offline beat, the goodbye.  A result *)
(* refused with 401/403 stops the relay but leaves the process running; a  *)
(* shutdown stops it and exits, waiting for the goodbye but not for ever;  *)
(* a beat answered paired:false does the same.  The backend is external.   *)
(***************************************************************************)
EXTENDS Naturals, FiniteSets

CONSTANTS
  Beats        \* bound: online beats the relay sends

VARIABLES
  running,     \* _running
  gone,        \* sessionGone
  invalid,     \* pairingInvalid
  leaving,     \* a shutdown awaits the goodbye
  exited,
  beat,        \* where each online beat is
  retry,       \* the beat is a second attempt
  retries,     \* armed 3 s retry timers
  goodbye,     \* "no", "sent" or "over"
  paired,      \* the backend still has the session
  (* history *)
  late         \* online beats sent after the relay stopped

vars == <<running, gone, invalid, leaving, exited, beat, retry, retries, goodbye, paired, late>>
cli == <<running, gone, invalid, leaving, exited>>

Unused == {b \in Beats : beat[b] = "unused"}

TypeOK ==
  /\ running \in BOOLEAN /\ gone \in BOOLEAN /\ invalid \in BOOLEAN
  /\ leaving \in BOOLEAN /\ exited \in BOOLEAN
  /\ beat \in [Beats -> {"unused", "sent", "taken", "refused", "over"}]
  /\ retry \in [Beats -> BOOLEAN] /\ retries \in 0..Cardinality(Beats)
  /\ goodbye \in {"no", "sent", "over"}
  /\ paired \in BOOLEAN /\ late \in SUBSET Beats

Init ==
  /\ running = FALSE /\ gone = FALSE /\ invalid = FALSE /\ leaving = FALSE /\ exited = FALSE
  /\ beat = [b \in Beats |-> "unused"] /\ retry = [b \in Beats |-> FALSE] /\ retries = 0
  /\ goodbye = "no" /\ paired = TRUE /\ late = {}

-----------------------------------------------------------------------------
(* sendHeartbeat(true, attempt). *)
Send(b, again) ==
  /\ beat[b] = "unused"
  /\ beat' = [beat EXCEPT ![b] = "sent"] /\ retry' = [retry EXCEPT ![b] = again]
  /\ late' = IF running' THEN late ELSE late \cup {b}

(* start(): once in the relay's life, with a first beat. *)
Started == running \/ goodbye # "no"

Start(b) ==
  /\ ~Started /\ ~leaving
  /\ running' = TRUE
  /\ Send(b, FALSE)
  /\ UNCHANGED <<gone, invalid, leaving, exited, retries, goodbye, paired>>

Beating == running

Tick(b) ==
  /\ Started /\ Beating /\ ~gone
  /\ UNCHANGED <<cli, retries, goodbye, paired>>
  /\ Send(b, FALSE)

MayBeat == ~gone

(* The retry timer looks at sessionGone, not at _running. *)
RetryFires(b) ==
  /\ ~exited /\ retries > 0
  /\ retries' = retries - 1
  /\ UNCHANGED <<cli, goodbye, paired>>
  /\ IF MayBeat THEN Send(b, TRUE) ELSE UNCHANGED <<beat, retry, late>>

Reaches(b) ==
  /\ beat[b] = "sent"
  /\ beat' = [beat EXCEPT ![b] = IF paired THEN "taken" ELSE "refused"]
  /\ UNCHANGED <<cli, retry, retries, goodbye, paired, late>>

TriesAgain(b) == ~retry[b] /\ running

Armed(b) ==
  IF TriesAgain(b) /\ ~exited THEN retries + 1 ELSE retries

(* Lost on the way there or back. *)
BeatFails(b) ==
  /\ beat[b] \in {"sent", "taken", "refused"}
  /\ beat' = [beat EXCEPT ![b] = "over"]
  /\ retries' = Armed(b)
  /\ UNCHANGED <<cli, retry, goodbye, paired, late>>

BeatAnswered(b) ==
  /\ beat[b] = "taken"
  /\ beat' = [beat EXCEPT ![b] = "over"]
  /\ UNCHANGED <<cli, retry, retries, goodbye, paired, late>>

-----------------------------------------------------------------------------
(* stopAndFlush: only a running relay says goodbye. *)
StopAndFlush ==
  goodbye' = IF running THEN "sent" ELSE goodbye

(* handleSessionGone; the owner's callback shuts the process down. *)
SessionGone(b) ==
  /\ beat[b] = "refused" /\ ~exited
  /\ beat' = [beat EXCEPT ![b] = "over"]
  /\ gone' = TRUE /\ leaving' = TRUE /\ running' = FALSE
  /\ StopAndFlush
  /\ UNCHANGED <<invalid, exited, retry, retries, paired, late>>

(* sendResult is refused. *)
PairingInvalid ==
  /\ Started /\ ~invalid /\ ~exited
  /\ invalid' = TRUE /\ running' = FALSE
  /\ StopAndFlush
  /\ UNCHANGED <<gone, leaving, exited, beat, retry, retries, paired, late>>

Shutdown ==
  /\ ~leaving /\ ~exited
  /\ leaving' = TRUE /\ running' = FALSE
  /\ StopAndFlush
  /\ UNCHANGED <<gone, invalid, exited, beat, retry, retries, paired, late>>

(* The goodbye has settled, or the 1.5 s are over. *)
Exit ==
  /\ leaving /\ ~exited
  /\ exited' = TRUE /\ retries' = 0
  /\ UNCHANGED <<running, gone, invalid, leaving, beat, retry, goodbye, paired, late>>

Goodbye ==
  /\ goodbye = "sent"
  /\ goodbye' = "over"
  /\ UNCHANGED <<cli, beat, retry, retries, paired, late>>

-----------------------------------------------------------------------------
(* The session is deleted in the app. *)
Unpair ==
  /\ paired
  /\ paired' = FALSE
  /\ UNCHANGED <<cli, beat, retry, retries, goodbye, late>>

Next ==
  \/ \E b \in Beats :
       Start(b) \/ Tick(b) \/ RetryFires(b) \/ Reaches(b) \/ BeatFails(b) \/ BeatAnswered(b) \/ SessionGone(b)
  \/ PairingInvalid \/ Shutdown \/ Exit \/ Goodbye \/ Unpair

Spec == Init /\ [][Next]_vars

-----------------------------------------------------------------------------
(* Second attempts are bounded: there are never more of them, made or due, than
   first attempts that failed, and whatever stops the relay, no other beat goes
   out after it. *)
BeatsBounded ==
  /\ retries + Cardinality({b \in Beats : retry[b]})
       <= Cardinality({b \in Beats : beat[b] = "over" /\ ~retry[b]})
  /\ \A b \in late : retry[b]

(* "Latch + stop the relay so heartbeats/polling die too". *)
SilentOnceStopped == late = {}
=============================================================================
