----------------------------- MODULE RelayChannel -----------------------------
(***************************************************************************)
(* How CommandRelayService (services/command-relay.service.ts) keeps a way *)
(* open for commands: a stream to the stream host, once and for all moved  *)
(* to the api host when that host fails (services/stream-base-url.ts), a   *)
(* reconnect timer, and polling after two failures in a row.               *)
(*                                                                         *)
(* The HTTP requests are external, as Node reports them: a request that is *)
(* reset after its response has begun reports an error of its own ("reset" *)
(* below, or late after a refusal), and then its response may report one.  *)
(***************************************************************************)
EXTENDS Naturals, FiniteSets

CONSTANTS
  Conns,      \* bound: requests alive at once
  NoConn

VARIABLES
  running,    \* _running
  conn,       \* where each request is
  onStream,   \* requests to the stream host
  delivered,  \* requests that brought a byte
  current,    \* sseRequest
  failures,   \* sseFailures, 2 for two and more
  timer,      \* reconnect timers armed, 2 for two and more
  watchdog,   \* sseWatchdog is armed
  fellBack,   \* StreamHostSelector.fellBackToApi, or there is one host only
  loops,      \* poll loops, 2 for two and more
  pollTimer,  \* pollTimer is set: a poll loop has made its first round
  (* history *)
  refused,    \* the stream host has answered with a 4xx
  heard,      \* the stream host has brought a byte
  doubled     \* a request reported its failure again after it was acted upon

ladder == <<failures, timer, fellBack, loops>>
vars == <<running, conn, onStream, delivered, current, ladder, watchdog, pollTimer, refused, heard, doubled>>

Talking == {i \in Conns : conn[i] \in {"connecting", "open"}}

TypeOK ==
  /\ running \in BOOLEAN /\ watchdog \in BOOLEAN /\ fellBack \in BOOLEAN /\ pollTimer \in BOOLEAN
  /\ conn \in [Conns -> {"free", "connecting", "open", "refused", "reset"}]
  /\ onStream \in SUBSET Conns /\ delivered \in SUBSET Conns
  /\ current \in Conns \cup {NoConn}
  /\ failures \in 0..2 /\ timer \in 0..1 /\ loops \in 0..2
  /\ refused \in BOOLEAN /\ heard \in BOOLEAN /\ doubled \in BOOLEAN

(* start() has made the first request; a pairing may have fallen back before. *)
Init ==
  /\ running = TRUE /\ fellBack \in BOOLEAN
  /\ current \in Conns /\ conn = [i \in Conns |-> IF i = current THEN "connecting" ELSE "free"]
  /\ onStream = IF fellBack THEN {} ELSE {current}
  /\ delivered = {} /\ failures = 0 /\ timer = 0 /\ watchdog = FALSE
  /\ loops = 0 /\ pollTimer = FALSE
  /\ refused = FALSE /\ heard = FALSE /\ doubled = FALSE

-----------------------------------------------------------------------------
(* connectSSE: a new request, to the host of the moment; f is where the others
   are by then. *)
Stay(f) == conn' = f /\ UNCHANGED <<onStream, delivered, current>>

ConnectSSE(f) ==
  IF running
  THEN \E j \in Conns :
         /\ f[j] = "free" /\ conn' = [f EXCEPT ![j] = "connecting"]
         /\ onStream' = IF fellBack' THEN onStream \ {j} ELSE onStream \cup {j}
         /\ delivered' = delivered \ {j} /\ current' = j
  ELSE Stay(f)

Armed == 1
ScheduleSseReconnect == timer' = Armed /\ UNCHANGED <<failures, fellBack, loops>>

(* startPollingFallback, whose guard is the timer that a loop sets only after its
   first round. *)
PollLoops == IF pollTimer \/ ~running THEN loops ELSE IF loops = 0 THEN 1 ELSE 2

(* A failure that counts: a reconnect after the first, polling from the second. *)
NeverPolls(n) == 0                               \* fault: each reconnect starts afresh
Strikes(n) == IF n = 0 THEN 1 ELSE 2

Strike ==
  /\ failures' = Strikes(failures)
  /\ UNCHANGED fellBack
  /\ IF failures' = 2 THEN loops' = PollLoops /\ UNCHANGED timer
                      ELSE timer' = Armed /\ UNCHANGED loops

(* shouldFallBackToApiHost, on the host the process uses now. *)
FallsBack(i, why) == ~fellBack /\ i \notin delivered /\ why \in {"network", "5xx"}

FallBackToApiHost(f) ==
  /\ fellBack' = TRUE
  /\ ConnectSSE(f) /\ UNCHANGED <<failures, timer, loops>>

-----------------------------------------------------------------------------
(* A response: 200, or anything else. *)
Answers(i) ==
  /\ conn[i] = "connecting" /\ Stay([conn EXCEPT ![i] = "open"])
  /\ failures' = 0 /\ watchdog' = TRUE
  /\ UNCHANGED <<running, timer, fellBack, loops, pollTimer, refused, heard, doubled>>

FallsThrough(i, f) ==                            \* fault: strikes after falling back, too
  fellBack' = TRUE /\ ConnectSSE(f) /\ failures' = 1 /\ timer' = Armed /\ UNCHANGED loops
MovesOn(i, f) == FallBackToApiHost(f)

Refuses(i, why) ==
  LET f == [conn EXCEPT ![i] = "refused"] IN
  /\ conn[i] = "connecting" /\ why \in {"4xx", "5xx"}
  /\ IF FallsBack(i, why) THEN MovesOn(i, f) ELSE Strike /\ Stay(f)
  /\ refused' = (refused \/ (why = "4xx" /\ i \in onStream))
  /\ UNCHANGED <<running, watchdog, pollTimer, heard, doubled>>

RefusalEnds(i) ==
  /\ conn[i] = "refused" /\ Stay([conn EXCEPT ![i] = "free"])
  /\ UNCHANGED <<running, ladder, watchdog, pollTimer, refused, heard, doubled>>

Brings(i) ==
  /\ conn[i] = "open" /\ delivered' = delivered \cup {i}
  /\ heard' = (heard \/ i \in onStream)
  /\ UNCHANGED <<running, conn, onStream, current, ladder, watchdog, pollTimer, refused, doubled>>

(* The stream ends. *)
Ends(i) ==
  /\ conn[i] = "open" /\ Stay([conn EXCEPT ![i] = "free"])
  /\ watchdog' = FALSE
  /\ IF running THEN ScheduleSseReconnect ELSE UNCHANGED ladder
  /\ UNCHANGED <<running, pollTimer, refused, heard, doubled>>

(* The request reports an error: no answer (in 35 s), or reset after one. *)
RequestFails(i) ==
  LET f == [conn EXCEPT ![i] = IF @ = "open" THEN "reset" ELSE "free"] IN
  /\ conn[i] \in {"connecting", "open", "refused"}
  /\ watchdog' = FALSE
  /\ IF running /\ FallsBack(i, "network") THEN FallBackToApiHost(f) ELSE Strike /\ Stay(f)
  /\ doubled' = (doubled \/ conn[i] = "refused")
  /\ UNCHANGED <<running, pollTimer, refused, heard>>

(* The response reports one: cut off, or destroyed by a watchdog, or after the
   request did. *)
Reconnects == ScheduleSseReconnect

ResponseFails(i) ==
  LET f == [conn EXCEPT ![i] = "free"] IN
  /\ conn[i] \in {"open", "reset"}
  /\ watchdog' = FALSE
  /\ IF running /\ FallsBack(i, "network") THEN FallBackToApiHost(f)
     ELSE Stay(f) /\ IF running THEN Reconnects ELSE UNCHANGED ladder
  /\ doubled' = (doubled \/ (conn[i] = "reset" /\ timer = 0))
  /\ UNCHANGED <<running, pollTimer, refused, heard>>

(* The reconnect timer, a second at least after it was armed: the response of a
   request that was reset has reported by then. *)
TimerFires ==
  /\ timer > 0 /\ \A i \in Conns : conn[i] # "reset"
  /\ timer' = timer - 1
  /\ UNCHANGED fellBack /\ ConnectSSE(conn)
  /\ UNCHANGED <<running, failures, watchdog, loops, pollTimer, refused, heard, doubled>>

(* The first round of a poll loop ends: from then on one more loop is refused. *)
FirstRoundEnds ==
  /\ loops > 0 /\ ~pollTimer
  /\ pollTimer' = TRUE
  /\ UNCHANGED <<running, conn, onStream, delivered, current, ladder, watchdog, refused, heard, doubled>>

(* stop(): the timers and the current request go, the poll loops find out. *)
Stop ==
  /\ running
  /\ running' = FALSE /\ timer' = 0 /\ watchdog' = FALSE /\ loops' = 0 /\ pollTimer' = FALSE
  /\ current' = NoConn
  /\ UNCHANGED <<conn, onStream, delivered, failures, fellBack, refused, heard, doubled>>

Request(i) ==
  \/ Answers(i) \/ (\E why \in {"4xx", "5xx"} : Refuses(i, why)) \/ RefusalEnds(i)
  \/ Brings(i) \/ Ends(i) \/ RequestFails(i) \/ ResponseFails(i)

Next == (\E i \in Conns : Request(i)) \/ TimerFires \/ FirstRoundEnds \/ Stop

(* Timers fire, and a request without an answer, or a response that is through,
   is over within the 35 s of its socket's timeout. *)
Spec ==
  /\ Init /\ [][Next]_vars /\ WF_vars(TimerFires)
  /\ \A i \in Conns : WF_vars(conn[i] \in {"connecting", "refused", "reset"} /\ Request(i))

-----------------------------------------------------------------------------
(* The relay always has a way back: a request on its way or open, a timer that
   makes one, or a poll loop.  None of its failure paths leaves it deaf. *)
AlwaysAWayBack == running => Talking # {} \/ timer # 0 \/ loops # 0

(* ... and one way only, with the watchdog on the stream that is open and stop()
   able to reach it, as long as no request reported its failure again after the
   relay had acted upon it. *)
SingleChannel ==
  running /\ ~doubled =>
    /\ Talking \subseteq {current}
    /\ Cardinality(Talking) + timer + loops <= 1
    /\ (\E i \in Conns : conn[i] = "open") => watchdog

(* "the ladder is: stream host -> api host -> polling", but for a stream host that
   answers 4xx, which never moves the process. *)
PollsOnlyAfterApi == loops # 0 => fellBack \/ refused

(* However requests fail, the relay is time and again on an open stream, or it is
   polling. *)
ChannelReturns == []<>(~running \/ loops # 0 \/ \E i \in Conns : conn[i] = "open")

(* "So if the FIRST contact with the stream host fails": a process that the stream
   host has served stays with it. *)
FallsBackOnFirstContact == [][~fellBack /\ fellBack' => ~heard]_vars

(* "Switch to polling fallback for this session": a relay that polls has no stream
   and makes none. *)
PollingReplacesStream == loops # 0 => Talking = {} /\ timer = 0
=============================================================================
