----------------------------- MODULE StreamedTurn -----------------------------
(***************************************************************************)
(* The text of a turn on its way to the chat: StreamingState               *)
(* (agents/acp/runner.ts) gathers what the agent says and publishes it in  *)
(* throttled partial frames and one terminal frame; AcpPublisher           *)
(* (agents/acp/publisher.ts) posts the frames, side by side, and renews a  *)
(* stale token.  The turns are those of start_task, one at a time; a       *)
(* stop_task may end one under its feet.                                   *)
(* The adapter and the backend are external.  A request that times out is  *)
(* taken as lost.  Not modelled: the feed of chunks but for what is open   *)
(* on it (ChunkCoalescer), the options in a reply (PendingQuestion), the   *)
(* replay of a loaded conversation.                                        *)
(***************************************************************************)
EXTENDS Naturals, FiniteSets

CONSTANTS
  MaxTurns,    \* bound: turns
  MaxDeltas,   \* bound: deltas of the adapter, and requests that end in a notice
  MaxStops,    \* bound: stop_task commands
  MaxDenials   \* bound: POSTs that the backend answers with 401

VARIABLES
  turn,            \* turnSeq
  pc,              \* where the handler of the turn is
  adapter, said,   \* prompts the adapter works on; deltas and requests it has sent
  text,            \* the reply so far
  pending,         \* pendingPartialText, whose timer is armed with it
  posts,           \* publishOutput() requests in flight
  oversize,        \* oversizeTextTurn: the turn that set it, or 0
  invalid,         \* pairingInvalid
  stops, denials,
  last,            \* what the backend shows of the turn
  (* history *)
  got,             \* what was appended since the turn opened
  spoiled          \* frames crossed, one was lost, or a delta came after the text was taken

handler == <<turn, pc>>
agent == <<adapter, said>>
buffer == <<text, pending>>
publisher == <<posts, oversize, invalid>>
faults == <<stops, denials>>
history == <<got, spoiled>>
vars == <<handler, agent, buffer, publisher, faults, last, history>>

Turns == 1..MaxTurns
Texts == SUBSET (Turns \X (0..MaxDeltas))
NoText == {<<0, 0>>}
Bubble == {<<turn, 0>>}     \* a message of the CLI in place of the reply
Terminal == {"final", "stopped", "notice"}   \* of the turn, a stop_task, a notice
Kinds == {"clear", "new_turn", "partial"} \cup Terminal

TypeOK ==
  /\ turn \in 0..MaxTurns
  /\ pc \in {"idle", "clearing", "opening", "prompting", "failed", "silent", "closing"}
  /\ adapter \subseteq Turns /\ said \in 0..MaxDeltas
  /\ text \in Texts /\ pending \in Texts \cup {NoText}
  /\ \A p \in posts : /\ p.kind \in Kinds /\ p.turn \in 0..MaxTurns /\ p.text \in Texts
                      /\ p.again \in BOOLEAN /\ p.cut \in BOOLEAN
  /\ oversize \in 0..MaxTurns /\ invalid \in BOOLEAN
  /\ stops \in 0..MaxStops /\ denials \in 0..MaxDenials
  /\ last.text \in Texts /\ last.done \in BOOLEAN
  /\ got \in Texts /\ spoiled \in BOOLEAN

Init ==
  /\ turn = 0 /\ pc = "idle"
  /\ adapter = {} /\ said = 0
  /\ text = {} /\ pending = NoText
  /\ posts = {} /\ oversize = 0 /\ invalid = FALSE
  /\ stops = 0 /\ denials = 0
  /\ last = [text |-> {}, done |-> TRUE] /\ got = {} /\ spoiled = FALSE

-----------------------------------------------------------------------------
Frame(kind, content) ==
  [kind |-> kind, turn |-> turn', text |-> content, again |-> FALSE, cut |-> FALSE]

(* publishOutput: a frame goes out, but for a partial one of a turn that has become
   too long and for any once the pairing is taken as lost. *)
Publish(f) ==
  LET opens == f.kind \in {"clear", "new_turn"}
      sends == ~invalid /\ ~(f.kind = "partial" /\ oversize # 0) IN
  /\ posts' = IF sends THEN posts \cup {f} ELSE posts
  /\ oversize' = IF opens THEN 0 ELSE oversize
  /\ UNCHANGED invalid

Awaits(kind) == \E p \in posts : p.kind = kind /\ p.turn = turn

(* beginTurn. *)
BeginTurn ==
  /\ pc = "idle" /\ turn < MaxTurns /\ turn' = turn + 1 /\ pc' = "clearing"
  /\ text' = {} /\ pending' = NoText
  /\ Publish(Frame("clear", {}))
  /\ got' = {} /\ spoiled' = (posts # {})
  /\ UNCHANGED <<agent, faults, last>>

Opens ==
  /\ pc = "clearing" /\ ~Awaits("clear") /\ pc' = "opening" /\ UNCHANGED turn
  /\ Publish(Frame("new_turn", {}))
  /\ UNCHANGED <<agent, buffer, faults, last, history>>

Prompts ==
  /\ pc = "opening" /\ ~Awaits("new_turn") /\ pc' = "prompting"
  /\ adapter' = adapter \cup {turn}
  /\ UNCHANGED <<turn, said, buffer, publisher, faults, last, history>>

-----------------------------------------------------------------------------
TooLate == text # got \/ pc \notin {"prompting", "failed", "silent"}

(* append: a quiet window lets the frame out at once, else it waits for the
   timer, as the newest. *)
Append(t) ==
  LET delta == <<t, said'>> IN
  /\ t \in adapter /\ said < MaxDeltas /\ said' = said + 1
  /\ text' = text \cup {delta}
  /\ \/ pending = NoText /\ UNCHANGED <<handler, pending>> /\ Publish(Frame("partial", text'))
     \/ pending' = text' /\ UNCHANGED <<handler, publisher>>
  /\ got' = got \cup {delta} /\ spoiled' = (spoiled \/ TooLate)
  /\ UNCHANGED <<adapter, faults, last>>

(* A permission request of the adapter is denied by the gate, or expires: a message of
   the CLI says so in a done frame of its own, whatever the turn is at. *)
Notice ==
  /\ adapter # {} /\ said < MaxDeltas /\ said' = said + 1
  /\ UNCHANGED handler /\ Publish(Frame("notice", Bubble))
  /\ spoiled' = (spoiled \/ posts # {})
  /\ UNCHANGED <<adapter, buffer, faults, last, got>>

TimerFires ==
  /\ pending # NoText /\ pending' = NoText
  /\ UNCHANGED handler /\ Publish(Frame("partial", pending))
  /\ UNCHANGED <<agent, text, faults, last, history>>

StillDue == pending                              \* fault: the throttled frame is not dropped
Superseded == NoText

(* What closeAll, closeWithBubble and closeTurnWithInteractiveDetection share. *)
Closes(kind, content) ==
  /\ text' = {} /\ pending' = Superseded
  /\ Publish(Frame(kind, content))
  /\ spoiled' = (spoiled \/ posts # {}) /\ UNCHANGED got

(* The prompt resolves: its reply closes the turn, unless it is the message of an
   error, or there is none. *)
PromptResolves ==
  /\ pc = "prompting" /\ pc' = "closing" /\ adapter' = adapter \ {turn} /\ UNCHANGED turn
  /\ Closes("final", text) \/ Closes("final", Bubble)
  /\ UNCHANGED <<said, faults, last>>

(* It is rejected; the handler looks whether anything has been shown, which a tool
   or a thought is too, and cancels. *)
PromptFails ==
  /\ pc = "prompting" /\ (pc' = "failed" \/ (text = {} /\ pc' = "silent"))
  /\ UNCHANGED <<turn, agent, buffer, publisher, faults, last, history>>

ClosesFailed ==
  /\ pc \in {"failed", "silent"} /\ pc' = "closing" /\ UNCHANGED turn
  /\ (pc = "failed" /\ Closes("final", text)) \/ Closes("final", Bubble)
  /\ UNCHANGED <<agent, faults, last>>

AdapterEnds(t) ==
  /\ t \in adapter /\ ~(t = turn /\ pc = "prompting") /\ adapter' = adapter \ {t}
  /\ UNCHANGED <<handler, said, buffer, publisher, faults, last, history>>

(* stop_task: cancel, which the adapter answers in its own time, and closeAll. *)
StopTask ==
  /\ stops < MaxStops /\ stops' = stops + 1
  /\ UNCHANGED handler /\ Closes("stopped", text)
  /\ UNCHANGED <<agent, denials, last>>

TurnEnds ==
  /\ pc = "closing" /\ ~Awaits("final") /\ pc' = "idle"
  /\ UNCHANGED <<turn, agent, buffer, publisher, faults, last, history>>

-----------------------------------------------------------------------------
(* A request of postWithReauth ends. *)
Over(p) == posts' = posts \ {p}
Goes(p, q) == posts' = (posts \ {p}) \cup {q}
Calm == UNCHANGED <<handler, agent, buffer, stops, got>>

Shows(p) ==
  CASE p.kind = "clear" -> [text |-> {}, done |-> TRUE]
    [] p.kind = "new_turn" -> [text |-> {}, done |-> FALSE]
    [] p.kind = "partial" -> [text |-> p.text, done |-> FALSE]
    [] OTHER -> [text |-> IF p.text = {} THEN last.text ELSE p.text, done |-> TRUE]

Lands(p) ==
  /\ Over(p) /\ last' = Shows(p)
  /\ Calm /\ UNCHANGED <<oversize, invalid, denials, spoiled>>

Lost(p) ==
  /\ Over(p) /\ spoiled' = (spoiled \/ p.kind # "partial")
  /\ Calm /\ UNCHANGED <<oversize, invalid, denials, last>>

(* 413: a terminal frame is cut and sent once more, a partial one is the last. *)
CutsOrGivesUp(p) ==
  IF p.kind \in Terminal
  THEN ~p.cut /\ Goes(p, [p EXCEPT !.cut = TRUE, !.again = FALSE]) /\ UNCHANGED oversize
  ELSE Over(p) /\ oversize' = p.turn

TooLong(p) ==
  /\ p.kind \in {"partial"} \cup Terminal /\ p.text # {}
  /\ IF p.kind \in Terminal /\ invalid THEN Over(p) /\ UNCHANGED oversize ELSE CutsOrGivesUp(p)
  /\ Calm /\ UNCHANGED <<invalid, denials, spoiled, last>>

(* 401: the token is renewed and the frame sent once more, or, if that fails, for
   whatever reason, the pairing is taken as lost. *)
Denied(p) ==
  /\ denials < MaxDenials /\ denials' = denials + 1
  /\ \/ ~p.again /\ Goes(p, [p EXCEPT !.again = TRUE]) /\ UNCHANGED invalid
     \/ Over(p) /\ invalid' = TRUE
  /\ Calm /\ UNCHANGED <<oversize, spoiled, last>>

Answered(p) == Lands(p) \/ Lost(p) \/ TooLong(p) \/ Denied(p)

Next ==
  \/ BeginTurn \/ Opens \/ Prompts \/ PromptResolves \/ PromptFails \/ ClosesFailed
  \/ TurnEnds \/ StopTask \/ TimerFires \/ Notice
  \/ (\E t \in Turns : Append(t) \/ AdapterEnds(t))
  \/ (\E p \in posts : Answered(p))

Spec == Init /\ [][Next]_vars

-----------------------------------------------------------------------------
(* "mobile reliably flips out of Thinking…": once a turn is over and nothing is on
   its way any more, the backend has it as done, with all that the agent said or a
   message in its place; unless frames crossed or were lost, the agent went on after
   its text was taken, or the pairing is lost. *)
ClosedOnPhone ==
  pc = "idle" /\ turn > 0 /\ posts = {} /\ pending = NoText /\ ~spoiled /\ ~invalid =>
    last.done /\ last.text \in {got, Bubble}

(* A throttled frame holds the reply as it is, so that it is never behind a frame that
   is sent before it. *)
PendingIsCurrent == pending # NoText => pending = text

(* "a stale partial can never land after the terminal frame": one that is in flight
   when the turn is closed can. *)
TerminalIsLast == [][\A p \in posts \ posts' : p.kind = "partial" /\ last' # last => pc # "idle"]_vars

(* "frees the session so the next prompt starts clean": what an abandoned prompt still
   says is appended to the reply of the next turn. *)
TurnStartsClean == pc = "prompting" => \A d \in text : d[1] = turn

(* "When it did, closeAll finalises that partial reply": what came while the failed
   prompt was being cancelled is replaced by the message of the failure. *)
BubbleSparesReply == [][pc = "silent" /\ pc' = "closing" => text = {}]_vars

(* "dropped until the next new_turn / clear": a refusal that comes after it drops the
   partial frames of the next turn. *)
OversizeOfThisTurn == oversize \in {0, turn}

(* "unrecoverable": a renewal that failed, for whatever reason, is taken for it. *)
NeverLatched == ~invalid

(* "Closed out with isFinal: true": what an abandoned prompt opens after the close is
   dropped by the next turn without a last frame. *)
ChunksAreClosed == [][turn' # turn => text = {}]_vars

(* "carries the same reply mobile rendered": after a stop the handler finds no text. *)
HistoryHasReply == [][pc = "prompting" /\ pc' = "closing" => text = got]_vars
=============================================================================
