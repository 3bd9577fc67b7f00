------------------------------ MODULE AcpTurns ------------------------------
(***************************************************************************)
(* Commands running on the mobile driver (baton/acp-driver.ts): user turns *)
(* sent by start_task go through the TurnQueue (agents/acp/turn-queue.ts), *)
(* turns of the other handlers (group_mention_task, provide_input,         *)
(* summarize, select_option's reprompt) do not, and every prompt goes      *)
(* through AcpClient's promptChain.  dispatch() brackets each command, and *)
(* a hand-off waits for the bracket to close.  The adapter is external:    *)
(* modelled from the calls AcpClient makes and the outcomes it handles.    *)
(***************************************************************************)
EXTENDS Naturals, Sequences

CONSTANTS
  Tasks,      \* start_task commands
  Mentions,   \* commands that run a turn outside the TurnQueue
  Stops,      \* stop_task commands
  Queries     \* commands that are no turn (list_models, ...)

KindsDisjoint ==
  /\ Tasks \cap (Mentions \cup Stops \cup Queries) = {}
  /\ Mentions \cap (Stops \cup Queries) = {} /\ Stops \cap Queries = {}

Turns == Tasks \cup Mentions
Cmds == Turns \cup Stops \cup Queries

VARIABLES
  pc,          \* where each command's handler is
  queue,       \* TurnQueue.tail: the turn that runs and those behind it
  chain,       \* promptChain: the prompt that runs and those behind it
  adapter,     \* turns the adapter is working on
  held,        \* it holds the watchdog off: a tool call or a permission request is
               \* open, or an update has just come
  turnActive,  \* AcpDriver.turnActive
  handoff,     \* "no", "waiting" on whenSafeToYield, or "released"
  (* history *)
  hits,        \* <<c, d>>: the cancel that cleans up after c reached d's turn
  cutOff       \* turns still open when the hand-off was let through

vars == <<pc, queue, chain, adapter, held, turnActive, handoff, hits, cutOff>>

Opened == {"open", "chained", "sent", "abandoned", "replied", "failed", "closing"}
IsOpen(c) == c \in Turns /\ pc[c] \in Opened
InFlight(c) == pc[c] \in {"sent", "abandoned"}

TypeOK ==
  /\ pc \in [Cmds -> Opened \cup {"new", "received", "ack", "done"}]
  /\ queue \in Seq(Tasks) /\ chain \in Seq(Turns) /\ adapter \in SUBSET Turns
  /\ held \in BOOLEAN /\ turnActive \in BOOLEAN /\ handoff \in {"no", "waiting", "released"}
  /\ hits \in SUBSET (Turns \X Turns) /\ cutOff \in SUBSET Turns

Init ==
  /\ pc = [c \in Cmds |-> "new"]
  /\ queue = <<>> /\ chain = <<>> /\ adapter = {} /\ held = FALSE
  /\ turnActive = FALSE /\ handoff = "no" /\ hits = {} /\ cutOff = {}

Goes(c, from, to) == pc[c] = from /\ pc' = [pc EXCEPT ![c] = to]

-----------------------------------------------------------------------------
JumpsTheLine(c) ==                               \* fault: the newest turn goes first
  IF c \in Tasks THEN <<c>> \o queue ELSE queue
Enqueued(c) == IF c \in Tasks THEN Append(queue, c) ELSE queue

(* dispatch: once a hand-off has begun the controller routes nothing here. *)
Receive(c) ==
  /\ handoff = "no"
  /\ Goes(c, "new", IF c \in Queries THEN "ack" ELSE "received")
  /\ turnActive' = TRUE
  /\ queue' = Enqueued(c)
  /\ UNCHANGED <<chain, adapter, held, handoff, hits, cutOff>>

(* beginTurn: the turn opens on the phone. *)
OpensAtOnce(c) == TRUE                           \* fault: no TurnQueue
MayOpen(c) == c \in Tasks => queue # <<>> /\ Head(queue) = c

OpenTurn(c) ==
  /\ c \in Turns /\ Goes(c, "received", "open") /\ MayOpen(c)
  /\ UNCHANGED <<queue, chain, adapter, held, turnActive, handoff, hits, cutOff>>

Prompt(c) ==
  /\ Goes(c, "open", "chained")
  /\ chain' = Append(chain, c)
  /\ UNCHANGED <<queue, adapter, held, turnActive, handoff, hits, cutOff>>

SendsAtOnce(c) == TRUE                           \* fault: prompts not chained
MaySend(c) == chain # <<>> /\ Head(chain) = c

(* The watchdog is armed, and the tool ledger is a fresh one. *)
Send(c) ==
  /\ Goes(c, "chained", "sent") /\ MaySend(c)
  /\ adapter' = adapter \cup {c} /\ held' = FALSE
  /\ UNCHANGED <<queue, chain, turnActive, handoff, hits, cutOff>>

Unchain == Tail(chain)

(* The adapter answers (a cancelled turn is an answer too) ... *)
Reply(c) ==
  /\ Goes(c, "sent", "replied")
  /\ adapter' = adapter \ {c} /\ chain' = Tail(chain) /\ held' = FALSE
  /\ UNCHANGED <<queue, turnActive, handoff, hits, cutOff>>

(* ... or rejects the prompt ... *)
Reject(c) ==
  /\ Goes(c, "sent", "failed")
  /\ adapter' = adapter \ {c} /\ chain' = Unchain /\ held' = FALSE
  /\ UNCHANGED <<queue, turnActive, handoff, hits, cutOff>>

(* ... or shows that it works on, which holds the watchdog off for as long as a tool
   or the user takes, and no longer than until the prompt has settled ... *)
HoldOff ==
  /\ ~held /\ \E c \in Turns : pc[c] = "sent"
  /\ held' = TRUE
  /\ UNCHANGED <<pc, queue, chain, adapter, turnActive, handoff, hits, cutOff>>

LetGo ==
  /\ held
  /\ held' = FALSE
  /\ UNCHANGED <<pc, queue, chain, adapter, turnActive, handoff, hits, cutOff>>

(* ... or goes silent, or logs an error that ends the turn: the turn is cancelled
   while the chain still holds the next prompt, and its answer awaited, but not for
   ever. *)
GivesUp(c) ==
  /\ Goes(c, "sent", "abandoned")
  /\ held' = FALSE
  /\ UNCHANGED <<queue, chain, adapter, turnActive, handoff, hits, cutOff>>

IdleTrip(c) == ~held /\ GivesUp(c)
FatalError(c) == GivesUp(c)

AbandonedSettles(c) ==
  /\ Goes(c, "abandoned", "failed")
  /\ adapter' \in {adapter, adapter \ {c}} /\ chain' = Unchain
  /\ UNCHANGED <<queue, held, turnActive, handoff, hits, cutOff>>

AdapterDropsAbandoned(c) ==
  /\ c \in adapter /\ ~InFlight(c)
  /\ adapter' = adapter \ {c}
  /\ UNCHANGED <<pc, queue, chain, held, turnActive, handoff, hits, cutOff>>

(* cancelStuckTurn: a cancel names the session, not the turn. *)
Cleanup(c) ==
  /\ Goes(c, "failed", "closing")
  /\ hits' = hits \cup {<<c, d>> : d \in {e \in adapter : InFlight(e)}}
  /\ UNCHANGED <<queue, chain, adapter, held, turnActive, handoff, cutOff>>

(* The last frame of the turn; after it only the ack is left. *)
Close(c) ==
  /\ pc[c] \in {"replied", "closing"}
  /\ pc' = [pc EXCEPT ![c] = "ack"]
  /\ UNCHANGED <<queue, chain, adapter, held, turnActive, handoff, hits, cutOff>>

(* stop_task cancels whatever runs and closes what the phone shows. *)
Stop(c) ==
  /\ c \in Stops /\ Goes(c, "received", "ack")
  /\ UNCHANGED <<queue, chain, adapter, held, turnActive, handoff, hits, cutOff>>

-----------------------------------------------------------------------------
(* endTurn lets every waiter through. *)
Release ==
  IF handoff = "waiting"
  THEN handoff' = "released" /\ cutOff' = {d \in Turns : IsOpen(d)}
  ELSE UNCHANGED <<handoff, cutOff>>

(* The ack: the handler returns, its turn leaves the queue, the bracket closes. *)
Ack(c) ==
  /\ Goes(c, "ack", "done")
  /\ queue' = IF c \in Tasks THEN Tail(queue) ELSE queue
  /\ turnActive' = FALSE
  /\ Release
  /\ UNCHANGED <<chain, adapter, held, hits>>

(* whenSafeToYield. *)
HandOff ==
  /\ handoff = "no"
  /\ IF turnActive
     THEN handoff' = "waiting" /\ UNCHANGED cutOff
     ELSE handoff' = "released" /\ cutOff' = {d \in Turns : IsOpen(d)}
  /\ UNCHANGED <<pc, queue, chain, adapter, held, turnActive, hits>>

Running == handoff # "released"     \* then the controller stops the driver

HandlerStep(c) ==
  /\ Running
  /\ \/ OpenTurn(c) \/ Prompt(c) \/ Send(c) \/ Stop(c)
     \/ IdleTrip(c) \/ AbandonedSettles(c) \/ Cleanup(c) \/ Close(c) \/ Ack(c)

AdapterStep ==
  /\ Running
  /\ \/ \E c \in Turns : Reply(c) \/ Reject(c) \/ FatalError(c) \/ AdapterDropsAbandoned(c)
     \/ HoldOff \/ LetGo

Next ==
  \/ \E c \in Cmds : Receive(c) \/ HandlerStep(c)
  \/ AdapterStep
  \/ HandOff

(* Handlers are awaited code, and the watchdog and the wait for a cancelled prompt
   are timers.  The adapter, its tools and its user need not do anything. *)
Spec == Init /\ [][Next]_vars /\ \A c \in Cmds : WF_vars(HandlerStep(c))

-----------------------------------------------------------------------------
(* "One user turn at a time, from the moment it opens on the phone until its
   last frame is published": the TurnQueue keeps this among start_task turns. *)
OneTaskTurn == \A c, d \in Tasks : IsOpen(c) /\ IsOpen(d) => c = d

(* start_task turns behave as TurnLine says: opened in the order they arrived, one
   at a time, and gone from the queue only after their last frame. *)
Line == INSTANCE TurnLine WITH
  line <- queue,
  open <- {c \in Tasks : IsOpen(c)},
  closed <- \E c \in Tasks : pc[c] = "ack"
FirstComeFirstServed == Line!Spec

(* The same over every turn. *)
OneTurn == \A c, d \in Turns : IsOpen(c) /\ IsOpen(d) => c = d

(* AcpClient's watchdog and tool ledger are single fields: two prompts are never
   in flight, whichever handlers sent them. *)
OnePrompt == \A c, d \in Turns : InFlight(c) /\ InFlight(d) => c = d

(* The cancel that cleans up after a failed start_task never reaches the turn of
   another start_task. *)
CleanupSparesTasks == hits \cap (Tasks \X Tasks) = {}

(* "so a hand-off (whenSafeToYield) never interrupts a live turn". *)
YieldsBetweenTurns == cutOff = {}

=============================================================================
