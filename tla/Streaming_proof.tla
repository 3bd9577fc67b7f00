---------------------------- MODULE Streaming_proof ----------------------------
(***************************************************************************)
(* Proofs about StreamingState: the question it holds (PendingQuestion)    *)
(* and the text it streams (StreamedTurn), for any set of requests and any *)
(* number of turns, deltas, stops and refusals.                            *)
(***************************************************************************)
EXTENDS Streaming, TLAPS

-----------------------------------------------------------------------------
(* The question.  The three invariants are inductive together. *)
QuestionInv == TypeOK /\ SlotHasTtl /\ LostOnlyByTakeover

LEMMA QuestionInit == Init => QuestionInv
<1> SUFFICES ASSUME Init PROVE QuestionInv
  OBVIOUS
<1>1. asked \in [Perms -> {"new"}] /\ settledBy \in [Perms -> {NoQuestion}] /\ 0 \in 0..MaxTurns
  BY QuestionAssumption DEF Init
<1>2. QED
  BY <1>1, QuestionAssumption DEF Init, QuestionInv, TypeOK, SlotHasTtl, LostOnlyByTakeover

LEMMA QuestionStep == QuestionInv /\ [Next]_vars => QuestionInv'
<1> SUFFICES ASSUME QuestionInv, [Next]_vars PROVE QuestionInv'
  OBVIOUS
<1> USE QuestionAssumption DEF QuestionInv, TypeOK, SlotHasTtl, LostOnlyByTakeover
<1>1. ASSUME NEW q \in Perms, Ask(q) PROVE QuestionInv'
  BY <1>1 DEF Ask
<1>2. ASSUME NEW q \in Perms, RegisterPermission(q) PROVE QuestionInv'
  BY <1>2 DEF RegisterPermission, SetPending, Armed
<1>3. ASSUME NEW q \in Perms, TtlExpires(q) PROVE QuestionInv'
  BY <1>3 DEF TtlExpires, OwnQuestion
<1>4. ASSUME NEW q \in Perms \cup {Freeform}, Tap(q) PROVE QuestionInv'
  BY <1>4 DEF Tap, Shown
<1>5. ASSUME NEW q \in Perms \cup {Freeform}, SelectOption(q) PROVE QuestionInv'
  BY <1>5 DEF SelectOption, Vacated
<1>6. CASE RegisterFreeform
  BY <1>6 DEF RegisterFreeform, SetPending
<1>7. CASE BeginTurn
  BY <1>7 DEF BeginTurn, SetPending
<1>8. CASE UNCHANGED vars
  BY <1>8 DEF vars
<1>9. QED
  BY <1>1, <1>2, <1>3, <1>4, <1>5, <1>6, <1>7, <1>8 DEF Next

-----------------------------------------------------------------------------
(* The text. *)
Frames ==
  [kind : Text!Kinds, turn : 0..MaxTurns, text : Text!Texts, again : BOOLEAN, cut : BOOLEAN]

TextTypes ==
  /\ turn \in 0..MaxTurns
  /\ pc \in {"idle", "clearing", "opening", "prompting", "failed", "silent", "closing"}
  /\ turn = 0 => pc = "idle" /\ adapter = {}
  /\ adapter \in SUBSET Text!Turns /\ said \in 0..MaxDeltas
  /\ text \in Text!Texts /\ throttled \in Text!Texts \cup {Text!NoText}
  /\ posts \in SUBSET Frames
  /\ oversize \in 0..MaxTurns /\ invalid \in BOOLEAN
  /\ stops \in 0..MaxStops /\ denials \in 0..MaxDenials
  /\ last \in [text : Text!Texts, done : BOOLEAN]
  /\ got \in Text!Texts /\ spoiled \in BOOLEAN

(* What the handler, the frames in flight and the phone have of the turn, as long
   as nothing crossed or was lost.  Until the prompt is sent nothing is said, and
   the phone shows nothing, or a notice, once the clear is through. *)
Nothing == {{}, Text!Bubble}

BeforePrompt ==
  pc \in {"clearing", "opening"} =>
    /\ text = {} /\ got = {} /\ throttled = Text!NoText
    /\ \A p \in posts : p.kind \in {"clear", "new_turn", "stopped", "notice"} /\ p.text \in Nothing
    /\ pc = "opening" => \A p \in posts : p.kind # "clear"
    /\ last.text \in Nothing \/ \E p \in posts : p.kind = "clear"

(* A stop has taken the text: the phone has all of it, or a notice in its place, or
   that is on its way. *)
Replies == {got, Text!Bubble}

Taken ==
  /\ text = {} /\ throttled = Text!NoText
  /\ \A p \in posts : p.kind \in {"stopped", "notice"} /\ p.text \in {{}} \cup Replies
  /\ last.text \in Replies \/ \E p \in posts : p.text \in Replies \ {{}}

WhilePrompted ==
  pc \in {"prompting", "failed", "silent"} =>
    /\ \A p \in posts : p.kind \in {"partial", "stopped", "notice"}
    /\ got = {} => /\ last.text \in Nothing /\ throttled = Text!NoText
                   /\ \A p \in posts : p.text \in Nothing
    /\ text = got \/ Taken

(* After the close the phone has the reply, or a message in its place, or that is
   on its way, and what is on its way ends the turn. *)

AfterClose ==
  pc \in {"closing", "idle"} =>
    /\ text = {} /\ throttled = Text!NoText
    /\ \A p \in posts : p.kind \in Text!Terminal /\ p.text \in {{}} \cup Replies
    /\ last.text \in Replies \/ \E p \in posts : p.text \in Replies \ {{}}
    /\ last.done \/ posts # {}

TurnInHand ==
  ~spoiled /\ ~invalid /\ turn > 0 =>
    /\ \A p \in posts : p.turn = turn
    /\ BeforePrompt /\ WhilePrompted /\ AfterClose

TextInv == TextTypes /\ TurnInHand

LEMMA TextInit == Text!Init => TextInv
<1> SUFFICES ASSUME Text!Init PROVE TextInv
  OBVIOUS
<1> USE DEF Text!Init
<1>1. {} \in Text!Texts
  BY DEF Text!Texts
<1>2. 0 \in 0..MaxTurns /\ 0 \in 0..MaxDeltas /\ 0 \in 0..MaxStops /\ 0 \in 0..MaxDenials
  BY QuestionAssumption, StreamingAssumption
<1>3. TextTypes
  BY <1>1, <1>2 DEF TextTypes
<1>4. TurnInHand
  BY DEF TurnInHand
<1>5. QED
  BY <1>3, <1>4 DEF TextInv

(* The frames that publishOutput() adds and that the answers leave are frames. *)
LEMMA FrameTypes ==
  ASSUME TextTypes, turn' \in 0..MaxTurns, NEW kind \in Text!Kinds, NEW content \in Text!Texts,
         Text!Publish(Text!Frame(kind, content))
  PROVE  posts' \in SUBSET Frames /\ oversize' \in 0..MaxTurns /\ invalid' \in BOOLEAN
<1>1. Text!Frame(kind, content) \in Frames
  BY DEF Text!Frame, Frames
<1>2. QED
  BY <1>1, QuestionAssumption DEF TextTypes, Text!Publish

LEMMA BubbleIsText == TextTypes /\ turn > 0 => Text!Bubble \in Text!Texts
BY QuestionAssumption, StreamingAssumption DEF TextTypes, Text!Bubble, Text!Texts, Text!Turns

LEMMA TypesKept == TextInv /\ Text!Next => TextTypes'
<1> SUFFICES ASSUME Text!Next, TextTypes PROVE TextTypes'
  BY DEF TextInv
<1> USE DEF Text!handler, Text!agent, Text!buffer, Text!publisher, Text!faults, Text!history
<1>0. QuestionAssumption /\ StreamingAssumption
  BY QuestionAssumption, StreamingAssumption
<1>n. {} \in Text!Texts /\ Text!Kinds = {"clear", "new_turn", "partial", "final", "stopped", "notice"}
  BY DEF Text!Texts, Text!Kinds, Text!Terminal
<1>c. ASSUME NEW kind \in Text!Kinds, NEW content \in Text!Texts, Text!Closes(kind, content),
             UNCHANGED <<turn, adapter, said, denials, last>>, stops' \in 0..MaxStops,
             pc' = pc \/ pc' = "closing", pc' # pc => turn > 0
      PROVE  TextTypes'
  <2>1. posts' \in SUBSET Frames /\ oversize' \in 0..MaxTurns /\ invalid' \in BOOLEAN
    BY <1>c, FrameTypes DEF Text!Closes, TextTypes
  <2>2. spoiled' \in BOOLEAN /\ text' = {} /\ throttled' = Text!NoText /\ got' = got
    BY <1>c DEF Text!Closes, Text!Superseded, TextTypes
  <2>3. turn' = 0 => pc' = "idle" /\ adapter' = {}
    BY <1>c DEF TextTypes
  <2>4. QED
    BY <1>c, <1>n, <2>1, <2>2, <2>3 DEF TextTypes
<1>1. CASE Text!BeginTurn
  <2>1. turn' \in 0..MaxTurns /\ turn' # 0
    BY <1>1, <1>0 DEF Text!BeginTurn, TextTypes, QuestionAssumption
  <2>2. posts' \in SUBSET Frames /\ oversize' \in 0..MaxTurns /\ invalid' \in BOOLEAN
    BY <1>1, <1>n, <2>1, FrameTypes DEF Text!BeginTurn
  <2>3. QED
    BY <1>1, <1>n, <2>1, <2>2 DEF Text!BeginTurn, TextTypes
<1>2. CASE Text!Opens
  <2>1. posts' \in SUBSET Frames /\ oversize' \in 0..MaxTurns /\ invalid' \in BOOLEAN
    BY <1>2, <1>n, FrameTypes DEF Text!Opens, TextTypes
  <2>2. QED
    BY <1>2, <2>1 DEF Text!Opens, TextTypes
<1>3. CASE Text!Prompts
  <2>1. turn \in Text!Turns
    BY <1>3, <1>0 DEF Text!Prompts, TextTypes, Text!Turns, QuestionAssumption
  <2>2. QED
    BY <1>3, <2>1 DEF Text!Prompts, TextTypes
<1>4. CASE Text!PromptFails
  BY <1>4 DEF Text!PromptFails, TextTypes
<1>5. CASE Text!PromptResolves
  <2>1. turn > 0 /\ UNCHANGED <<turn, said, denials, last, stops>> /\ pc' = "closing"
    BY <1>5, <1>0 DEF Text!PromptResolves, TextTypes, QuestionAssumption
  <2>2. Text!Bubble \in Text!Texts /\ text \in Text!Texts /\ "final" \in Text!Kinds
    BY <2>1, <1>n, BubbleIsText DEF TextTypes
  <2>3. adapter' \in SUBSET Text!Turns
    BY <1>5 DEF Text!PromptResolves, TextTypes
  <2>4. PICK content \in Text!Texts : Text!Closes("final", content)
    BY <1>5, <2>2 DEF Text!PromptResolves
  <2>5. posts' \in SUBSET Frames /\ oversize' \in 0..MaxTurns /\ invalid' \in BOOLEAN
    BY <2>1, <2>2, <2>4, FrameTypes DEF Text!Closes, TextTypes
  <2>6. spoiled' \in BOOLEAN /\ text' = {} /\ throttled' = Text!NoText /\ got' = got
    BY <2>4 DEF Text!Closes, Text!Superseded, TextTypes
  <2>7. QED
    BY <1>n, <1>0, <2>1, <2>3, <2>5, <2>6 DEF TextTypes, QuestionAssumption
<1>6. CASE Text!ClosesFailed
  <2>1. turn > 0 /\ UNCHANGED <<turn, adapter, said, denials, last, stops>> /\ pc' = "closing"
    BY <1>6, <1>0 DEF Text!ClosesFailed, TextTypes, QuestionAssumption
  <2>2. Text!Bubble \in Text!Texts /\ text \in Text!Texts /\ "final" \in Text!Kinds
    BY <2>1, <1>n, BubbleIsText DEF TextTypes
  <2>3. PICK content \in Text!Texts : Text!Closes("final", content)
    BY <1>6, <2>2 DEF Text!ClosesFailed
  <2>4. QED
    BY <1>c, <2>1, <2>2, <2>3 DEF TextTypes
<1>7. CASE Text!TurnEnds
  BY <1>7 DEF Text!TurnEnds, TextTypes
<1>8. CASE Text!StopTask
  <2>1. stops' \in 0..MaxStops
    BY <1>8, <1>0 DEF Text!StopTask, TextTypes, StreamingAssumption
  <2>2. "stopped" \in Text!Kinds /\ text \in Text!Texts
    BY <1>n DEF TextTypes
  <2>3. QED
    BY <1>8, <1>c, <2>1, <2>2 DEF Text!StopTask
<1>9. CASE Text!TimerFires
  <2>1. throttled \in Text!Texts /\ throttled' = Text!NoText
    BY <1>9 DEF Text!TimerFires, TextTypes
  <2>2. posts' \in SUBSET Frames /\ oversize' \in 0..MaxTurns /\ invalid' \in BOOLEAN
    BY <1>9, <1>n, <2>1, FrameTypes DEF Text!TimerFires, TextTypes
  <2>3. QED
    BY <1>9, <2>1, <2>2 DEF Text!TimerFires, TextTypes
<1>10. ASSUME NEW t \in Text!Turns, Text!Append(t) PROVE TextTypes'
  <2>1. said' \in 0..MaxDeltas
    BY <1>10, <1>0 DEF Text!Append, TextTypes, StreamingAssumption
  <2>2. {<<t, said'>>} \in Text!Texts
    BY <2>1 DEF Text!Texts
  <2>3. text' \in Text!Texts /\ got' \in Text!Texts
    BY <1>10, <2>2 DEF Text!Append, TextTypes, Text!Texts
  <2>4. posts' \in SUBSET Frames /\ oversize' \in 0..MaxTurns /\ invalid' \in BOOLEAN
        /\ throttled' \in Text!Texts \cup {Text!NoText}
    <3>1. CASE UNCHANGED <<throttled, turn>> /\ Text!Publish(Text!Frame("partial", text'))
      BY <1>n, <2>3, <3>1, FrameTypes DEF TextTypes
    <3>2. CASE throttled' = text' /\ UNCHANGED <<posts, oversize, invalid>>
      BY <2>3, <3>2 DEF TextTypes
    <3>3. QED
      BY <1>10, <3>1, <3>2 DEF Text!Append
  <2>5. UNCHANGED <<turn, pc, adapter, stops, denials, last>> /\ spoiled' \in BOOLEAN
    BY <1>10 DEF Text!Append, TextTypes, Text!TooLate
  <2>6. QED
    BY <2>1, <2>3, <2>4, <2>5 DEF TextTypes
<1>11. ASSUME NEW t \in Text!Turns, Text!AdapterEnds(t) PROVE TextTypes'
  BY <1>11 DEF Text!AdapterEnds, TextTypes
<1>12. ASSUME NEW p \in posts, Text!Answered(p) PROVE TextTypes'
  <2> USE DEF Text!Calm, Text!Over, Text!Goes
  <2>0. /\ p \in Frames /\ p.text \in Text!Texts /\ p.turn \in 0..MaxTurns
        /\ [p EXCEPT !.cut = TRUE, !.again = FALSE] \in Frames
        /\ [p EXCEPT !.again = TRUE] \in Frames
    BY DEF TextTypes, Frames
  <2>1. CASE Text!Lands(p)
    <3>1. last' \in [text : Text!Texts, done : BOOLEAN]
      BY <1>n, <2>0, <2>1 DEF Text!Lands, Text!Shows, TextTypes
    <3>2. QED
      BY <2>1, <3>1 DEF Text!Lands, TextTypes
  <2>2. CASE Text!Lost(p)
    BY <2>2 DEF Text!Lost, TextTypes
  <2>3. CASE Text!TooLong(p)
    BY <2>0, <2>3 DEF Text!TooLong, Text!CutsOrGivesUp, TextTypes
  <2>4. CASE Text!Denied(p)
    <3>1. denials' \in 0..MaxDenials
      BY <1>0, <2>4 DEF Text!Denied, TextTypes, StreamingAssumption
    <3>2. QED
      BY <2>0, <2>4, <3>1 DEF Text!Denied, TextTypes
  <2>5. QED
    BY <1>12, <2>1, <2>2, <2>3, <2>4 DEF Text!Answered
<1>13. CASE Text!Notice
  <2>1. turn > 0 /\ turn' = turn /\ said' \in 0..MaxDeltas
    BY <1>13, <1>0 DEF Text!Notice, TextTypes, StreamingAssumption, QuestionAssumption
  <2>2. posts' \in SUBSET Frames /\ oversize' \in 0..MaxTurns /\ invalid' \in BOOLEAN
    BY <1>13, <1>n, <2>1, BubbleIsText, FrameTypes DEF Text!Notice, TextTypes
  <2>3. spoiled' \in BOOLEAN
    BY <1>13 DEF Text!Notice, TextTypes
  <2>4. QED
    BY <1>13, <2>1, <2>2, <2>3 DEF Text!Notice, TextTypes
<1>14. QED
  BY <1>1, <1>2, <1>3, <1>4, <1>5, <1>6, <1>7, <1>8, <1>9, <1>10, <1>11, <1>12, <1>13
  DEF Text!Next

(* What closes a turn goes out alone, or frames have crossed. *)
LEMMA ClosesAlone ==
  ASSUME TurnInHand, turn > 0, turn' = turn, ~spoiled', ~invalid',
         NEW kind \in Text!Terminal, NEW content, Text!Closes(kind, content)
  PROVE  /\ posts = {} /\ posts' = {Text!Frame(kind, content)}
         /\ text' = {} /\ throttled' = Text!NoText /\ got' = got
         /\ Text!Frame(kind, content).kind = kind /\ Text!Frame(kind, content).turn = turn
         /\ Text!Frame(kind, content).text = content
         /\ BeforePrompt /\ WhilePrompted /\ AfterClose
BY DEF Text!Closes, Text!Superseded, Text!Publish, Text!Frame, Text!Terminal, TurnInHand

LEMMA TurnKept == TextInv /\ Text!Next => TurnInHand'
<1> SUFFICES ASSUME TextTypes, TurnInHand, Text!Next, ~spoiled', ~invalid', turn' > 0
             PROVE  /\ \A p \in posts' : p.turn = turn'
                    /\ BeforePrompt' /\ WhilePrompted' /\ AfterClose'
  BY DEF TextInv, TurnInHand
<1> USE DEF Text!handler, Text!agent, Text!buffer, Text!publisher, Text!faults, Text!history
<1> DEFINE Goal == /\ \A p \in posts' : p.turn = turn'
                   /\ BeforePrompt' /\ WhilePrompted' /\ AfterClose'
<1>0. QuestionAssumption /\ turn \in Nat
  BY QuestionAssumption DEF TextTypes, QuestionAssumption
<1>h. ASSUME turn > 0, ~spoiled, ~invalid
      PROVE  (\A p \in posts : p.turn = turn) /\ BeforePrompt /\ WhilePrompted /\ AfterClose
  BY <1>h DEF TurnInHand
<1>b. Text!Bubble # {} /\ Text!NoText # {}
  BY DEF Text!Bubble, Text!NoText
<1>c. ASSUME NEW content, Text!Closes("final", content),
             turn' = turn, pc' = "closing", last' = last,
             content = text \/ content = Text!Bubble, pc \in {"prompting", "failed", "silent"}
      PROVE  Goal
  <2>1. /\ posts = {} /\ text' = {} /\ throttled' = Text!NoText /\ got' = got /\ WhilePrompted
        /\ \A p \in posts' : p.kind = "final" /\ p.turn = turn /\ p.text = content
        /\ \E p \in posts' : p.text = content
    BY <1>c, ClosesAlone DEF Text!Terminal
  <2>2. Text!Bubble' = Text!Bubble
    BY <1>c DEF Text!Bubble
  <2>3. last.text \in Replies \/ (content \in Replies /\ content # {})
    BY <1>b, <1>c, <2>1 DEF WhilePrompted, Taken, Replies, Nothing
  <2>4. content \in {{}} \cup Replies
    BY <1>c, <2>1 DEF WhilePrompted, Taken, Replies
  <2>5. AfterClose'
    BY <1>c, <2>1, <2>2, <2>3, <2>4 DEF AfterClose, Replies, Text!Terminal
  <2>6. QED
    BY <1>c, <2>1, <2>5 DEF BeforePrompt, WhilePrompted
<1>1. CASE Text!BeginTurn
  <2>1. posts = {} /\ posts' = {Text!Frame("clear", {})}
    BY <1>1 DEF Text!BeginTurn, Text!Publish, Text!Frame
  <2>2. QED
    BY <1>1, <2>1 DEF Text!BeginTurn, Text!Frame, BeforePrompt, WhilePrompted, AfterClose, Nothing, Replies,
    Text!Bubble
<1>2. CASE Text!Opens
  <2>1. turn > 0 /\ turn' = turn /\ ~spoiled /\ ~invalid
    BY <1>2 DEF Text!Opens, Text!Publish
  <2>2. posts' = posts \cup {Text!Frame("new_turn", {})}
    BY <1>2, <2>1 DEF Text!Opens, Text!Publish, Text!Frame
  <2>3. \A p \in posts : p.kind # "clear"
    BY <1>2, <1>h, <2>1 DEF Text!Opens, Text!Awaits
  <2>4. QED
    BY <1>2, <1>h, <2>1, <2>2, <2>3
    DEF Text!Opens, Text!Frame, BeforePrompt, WhilePrompted, AfterClose, Nothing, Replies,
    Text!Bubble
<1>3. CASE Text!Prompts
  <2>1. turn > 0 /\ turn' = turn /\ ~spoiled /\ ~invalid
    BY <1>3 DEF Text!Prompts
  <2>2. \A p \in posts : p.kind # "new_turn"
    BY <1>3, <1>h, <2>1 DEF Text!Prompts, Text!Awaits
  <2>3. QED
    BY <1>3, <1>h, <2>1, <2>2 DEF Text!Prompts, BeforePrompt, WhilePrompted, AfterClose, Nothing, Replies,
    Text!Bubble
<1>4. CASE Text!PromptFails
  BY <1>4, <1>h DEF Text!PromptFails, BeforePrompt, WhilePrompted, AfterClose, Nothing, Taken,
     Replies, Text!Bubble
<1>5. CASE Text!PromptResolves
  BY <1>5, <1>c DEF Text!PromptResolves
<1>6. CASE Text!ClosesFailed
  BY <1>6, <1>c DEF Text!ClosesFailed
<1>7. CASE Text!TurnEnds
  BY <1>7, <1>h DEF Text!TurnEnds, BeforePrompt, WhilePrompted, AfterClose, Nothing, Replies, Text!Bubble
<1>8. CASE Text!StopTask
  <2>0. turn' = turn /\ pc' = pc /\ last' = last
    BY <1>8 DEF Text!StopTask
  <2>1. /\ posts = {} /\ text' = {} /\ throttled' = Text!NoText /\ got' = got
        /\ BeforePrompt /\ WhilePrompted /\ AfterClose
        /\ \A p \in posts' : p.kind = "stopped" /\ p.turn = turn /\ p.text = text
        /\ posts' # {} /\ \E p \in posts' : p.text = text
    BY <1>8, <2>0, ClosesAlone DEF Text!StopTask, Text!Terminal
  <2>2. BeforePrompt'
    BY <2>0, <2>1 DEF BeforePrompt, Nothing, Text!Bubble
  <2>3. WhilePrompted'
    BY <2>0, <2>1 DEF WhilePrompted, Taken, Nothing, Replies, Text!Bubble
  <2>4. AfterClose'
    BY <2>0, <2>1 DEF AfterClose, Replies, Text!Bubble, Text!Terminal
  <2>5. QED
    BY <2>0, <2>1, <2>2, <2>3, <2>4
<1>9. CASE Text!TimerFires
  <2>1. /\ turn > 0 /\ UNCHANGED <<turn, pc, text, got, last>> /\ ~spoiled /\ ~invalid
        /\ throttled # Text!NoText /\ throttled' = Text!NoText
    BY <1>9 DEF Text!TimerFires, Text!Publish
  <2>2. /\ pc \in {"prompting", "failed", "silent"} /\ text = got /\ got # {}
        /\ \A p \in posts : p.turn = turn /\ p.kind \in {"partial", "stopped", "notice"}
    BY <1>h, <2>1 DEF BeforePrompt, WhilePrompted, AfterClose, Nothing, Taken, TextTypes
  <2>3. \A p \in posts' : p.turn = turn /\ p.kind \in {"partial", "stopped", "notice"}
    BY <1>9, <2>1, <2>2 DEF Text!TimerFires, Text!Publish, Text!Frame
  <2>4. QED
    BY <2>1, <2>2, <2>3 DEF BeforePrompt, WhilePrompted, AfterClose, Nothing, Replies,
    Text!Bubble
<1>10. ASSUME NEW t \in Text!Turns, Text!Append(t) PROVE Goal
  <2>0. PICK delta : /\ text' = text \cup {delta} /\ got' = got \cup {delta}
                     /\ spoiled' = (spoiled \/ Text!TooLate)
                     /\ UNCHANGED <<turn, pc, last, invalid>>
    BY <1>10 DEF Text!Append, Text!Publish
  <2>1. /\ turn > 0 /\ UNCHANGED <<turn, pc, last>> /\ ~spoiled /\ ~invalid /\ text = got
        /\ pc \in {"prompting", "failed", "silent"} /\ text' = got' /\ got' # {}
    BY <2>0 DEF Text!TooLate
  <2>2. \A p \in posts : p.turn = turn /\ p.kind \in {"partial", "stopped", "notice"}
    BY <1>h, <2>1 DEF WhilePrompted
  <2>3. \A p \in posts' : p.turn = turn /\ p.kind \in {"partial", "stopped", "notice"}
    BY <1>10, <2>1, <2>2 DEF Text!Append, Text!Publish, Text!Frame
  <2>4. QED
    BY <2>1, <2>2, <2>3 DEF BeforePrompt, WhilePrompted, AfterClose, Nothing, Replies,
    Text!Bubble
<1>11. ASSUME NEW t \in Text!Turns, Text!AdapterEnds(t) PROVE Goal
  BY <1>11, <1>h DEF Text!AdapterEnds, BeforePrompt, WhilePrompted, AfterClose, Nothing, Taken, Replies,
     Text!Bubble
<1>12. ASSUME NEW p \in posts, Text!Answered(p) PROVE Goal
  <2> USE DEF Text!Calm, Text!Over, Text!Goes
  <2>a. UNCHANGED <<turn, pc, text, throttled, got>>
    BY <1>12 DEF Text!Answered, Text!Lands, Text!Lost, Text!TooLong, Text!Denied
  <2>b. ~invalid
    BY <1>12 DEF Text!Answered, Text!Lands, Text!Lost, Text!TooLong, Text!Denied
  <2>c. ~spoiled
    BY <1>12 DEF Text!Answered, Text!Lands, Text!Lost, Text!TooLong, Text!Denied
  <2>0. /\ UNCHANGED <<turn, pc, text, throttled, got>> /\ turn > 0 /\ ~spoiled /\ ~invalid
        /\ Text!Bubble' = Text!Bubble
    BY <2>a, <2>b, <2>c DEF Text!Bubble
  <2>1. (\A q \in posts : q.turn = turn) /\ BeforePrompt /\ WhilePrompted /\ AfterClose
    BY <1>h, <2>0
  <2>2. CASE Text!Lands(p)
    <3>0. posts' = posts \ {p} /\ last' = Text!Shows(p)
      BY <2>2 DEF Text!Lands
    <3>1. BeforePrompt'
      BY <2>0, <2>1, <3>0 DEF BeforePrompt, Nothing, Text!Shows
    <3>2. WhilePrompted'
      BY <2>0, <2>1, <3>0 DEF WhilePrompted, Taken, Nothing, Replies, Text!Shows
    <3>3. AfterClose'
      BY <2>0, <2>1, <3>0 DEF AfterClose, Replies, Text!Shows, Text!Terminal
    <3>4. QED
      BY <2>0, <2>1, <3>0, <3>1, <3>2, <3>3
  <2>3. CASE Text!Lost(p)
    <3>0. posts' = posts \ {p} /\ last' = last /\ p.kind = "partial"
      BY <2>0, <2>3 DEF Text!Lost
    <3>1. QED
      BY <2>0, <2>1, <3>0 DEF BeforePrompt, WhilePrompted, AfterClose, Nothing, Taken, Text!Terminal,
         TextTypes
  <2>4. ASSUME NEW q, Text!Goes(p, q), last' = last,
               q.kind = p.kind, q.turn = p.turn, q.text = p.text
        PROVE  Goal
    <3>1. BeforePrompt'
      BY <2>0, <2>1, <2>4 DEF BeforePrompt, Nothing, Text!Bubble
    <3>2. WhilePrompted'
      BY <2>0, <2>1, <2>4 DEF WhilePrompted, Taken, Nothing, Replies, Text!Bubble
    <3>3. AfterClose'
      BY <2>0, <2>1, <2>4 DEF AfterClose, Replies
    <3>4. QED
      BY <2>0, <2>1, <2>4, <3>1, <3>2, <3>3
  <2>5. CASE Text!TooLong(p)
    <3>1. CASE p.kind \in Text!Terminal
      <4>1. PICK q : q = [p EXCEPT !.cut = TRUE, !.again = FALSE]
        OBVIOUS
      <4>2. q.kind = p.kind /\ q.turn = p.turn /\ q.text = p.text
        BY <4>1 DEF TextTypes, Frames
      <4>3. Text!Goes(p, q) /\ last' = last
        BY <2>0, <2>5, <3>1, <4>1 DEF Text!TooLong, Text!CutsOrGivesUp
      <4>4. QED
        BY <2>4, <4>2, <4>3
    <3>2. CASE p.kind \notin Text!Terminal
      <4>1. posts' = posts \ {p} /\ last' = last /\ p.kind = "partial"
        BY <2>5, <3>2 DEF Text!TooLong, Text!CutsOrGivesUp
      <4>2. QED
        BY <2>0, <2>1, <4>1 DEF BeforePrompt, WhilePrompted, AfterClose, Nothing, Taken, Text!Terminal,
           TextTypes
    <3>3. QED
      BY <3>1, <3>2
  <2>6. CASE Text!Denied(p)
    <3>1. PICK q : q = [p EXCEPT !.again = TRUE]
      OBVIOUS
    <3>2. q.kind = p.kind /\ q.turn = p.turn /\ q.text = p.text
      BY <3>1 DEF TextTypes, Frames
    <3>3. Text!Goes(p, q) /\ last' = last
      BY <2>6, <3>1 DEF Text!Denied
    <3>4. QED
      BY <2>4, <3>2, <3>3
  <2>7. QED
    BY <1>12, <2>2, <2>3, <2>5, <2>6 DEF Text!Answered
<1>13. CASE Text!Notice
  <2>1. /\ UNCHANGED <<turn, pc, text, throttled, got, last>> /\ turn > 0 /\ ~spoiled /\ ~invalid
        /\ posts = {} /\ posts' = {Text!Frame("notice", Text!Bubble)}
    BY <1>13 DEF Text!Notice, Text!Publish, Text!Frame
  <2>2. /\ Text!Bubble' = Text!Bubble
        /\ \A p \in posts' : p.kind = "notice" /\ p.turn = turn /\ p.text = Text!Bubble
    BY <2>1 DEF Text!Frame, Text!Bubble
  <2>3. posts' # {}
    BY <2>1
  <2>4. BeforePrompt /\ WhilePrompted /\ AfterClose
    BY <1>h, <2>1
  <2>5. BeforePrompt' /\ WhilePrompted'
    BY <2>1, <2>2, <2>4 DEF BeforePrompt, WhilePrompted, Taken, Nothing, Replies
  <2>6. AfterClose'
    BY <2>1, <2>2, <2>3, <2>4 DEF AfterClose, Replies, Text!Terminal
  <2>7. QED
    BY <2>1, <2>2, <2>5, <2>6
<1>14. QED
  BY <1>1, <1>2, <1>3, <1>4, <1>5, <1>6, <1>7, <1>8, <1>9, <1>10, <1>11, <1>12, <1>13
  DEF Text!Next

(* A throttled frame is replaced by each delta that comes while it waits. *)
LEMMA ThrottledStep ==
  Text!PendingIsCurrent /\ [Text!Next]_(Text!vars) => Text!PendingIsCurrent'
<1> SUFFICES ASSUME Text!PendingIsCurrent, [Text!Next]_(Text!vars) PROVE Text!PendingIsCurrent'
  OBVIOUS
<1> USE DEF Text!PendingIsCurrent, Text!handler, Text!agent, Text!buffer, Text!publisher,
   Text!faults, Text!history
<1>1. CASE Text!BeginTurn
  BY <1>1 DEF Text!BeginTurn
<1>2. CASE Text!Opens \/ Text!Prompts \/ Text!PromptFails \/ Text!TurnEnds
  BY <1>2 DEF Text!Opens, Text!Prompts, Text!PromptFails, Text!TurnEnds
<1>3. CASE Text!PromptResolves \/ Text!ClosesFailed \/ Text!StopTask
  BY <1>3 DEF Text!PromptResolves, Text!ClosesFailed, Text!StopTask, Text!Closes, Text!Superseded
<1>4. CASE Text!TimerFires
  BY <1>4 DEF Text!TimerFires
<1>5. ASSUME NEW t \in Text!Turns, Text!Append(t) PROVE Text!PendingIsCurrent'
  BY <1>5 DEF Text!Append
<1>6. ASSUME NEW t \in Text!Turns, Text!AdapterEnds(t) PROVE Text!PendingIsCurrent'
  BY <1>6 DEF Text!AdapterEnds
<1>7. ASSUME NEW p \in posts, Text!Answered(p) PROVE Text!PendingIsCurrent'
  BY <1>7 DEF Text!Answered, Text!Lands, Text!Lost, Text!TooLong, Text!Denied, Text!Calm
<1>8. CASE UNCHANGED Text!vars
  BY <1>8 DEF Text!vars
<1>9. CASE Text!Notice
  BY <1>9 DEF Text!Notice
<1>10. QED
  BY <1>1, <1>2, <1>3, <1>4, <1>5, <1>6, <1>7, <1>8, <1>9 DEF Text!Next

-----------------------------------------------------------------------------
(* Both. *)
StreamingInv == QuestionInv /\ TextInv /\ Text!PendingIsCurrent

LEMMA StreamingStart == StreamingInit => StreamingInv
BY QuestionInit, TextInit DEF StreamingInit, StreamingInv, Text!Init, Text!PendingIsCurrent

LEMMA StreamingStep == StreamingInv /\ [StreamingNext]_streamingVars => StreamingInv'
<1> SUFFICES ASSUME StreamingInv, [StreamingNext]_streamingVars PROVE StreamingInv'
  OBVIOUS
<1>1. ASSUME UNCHANGED textVars PROVE TextInv' /\ Text!PendingIsCurrent'
  BY <1>1 DEF StreamingInv, textVars, TextInv, TextTypes, TurnInHand, BeforePrompt, WhilePrompted,
     AfterClose, Taken, Replies, Nothing, Text!Bubble, Text!PendingIsCurrent
<1>2. CASE QuestionMoves
  BY <1>1, <1>2, QuestionStep DEF StreamingInv, QuestionMoves
<1>3. CASE TextMoves
  <2>1. TextInv'
    BY <1>3, TypesKept, TurnKept DEF StreamingInv, TextMoves, TextInv
  <2>2. Text!PendingIsCurrent'
    BY <1>3, ThrottledStep DEF StreamingInv, TextMoves
  <2>3. QED
    BY <1>3, <2>1, <2>2, QuestionStep DEF StreamingInv, TextMoves
<1>4. CASE UNCHANGED streamingVars
  BY <1>1, <1>4, QuestionStep DEF StreamingInv, streamingVars
<1>5. QED
  BY <1>2, <1>3, <1>4 DEF StreamingNext

LEMMA StreamingInvariant == StreamingSpec => []StreamingInv
BY StreamingStart, StreamingStep, PTL DEF StreamingSpec

(* Question and text keep their types. *)
THEOREM TypeCorrect == StreamingSpec => [](TypeOK /\ Text!TypeOK)
<1>1. TextTypes => Text!TypeOK
  BY DEF TextTypes, Text!TypeOK, Frames
<1>2. StreamingInv => TypeOK /\ Text!TypeOK
  BY <1>1 DEF StreamingInv, QuestionInv, TextInv
<1>3. QED
  BY <1>2, StreamingInvariant, PTL

(* Whatever holds the slot is bounded by its own TTL. *)
THEOREM SlotIsBounded == StreamingSpec => []SlotHasTtl
<1>1. StreamingInv => SlotHasTtl
  BY DEF StreamingInv, QuestionInv
<1>2. QED
  BY <1>1, StreamingInvariant, PTL

(* Taps and timers settle what they take out of the slot: only a takeover leaves
   a request unanswered. *)
THEOREM OnlyTakeoverLoses == StreamingSpec => []LostOnlyByTakeover
<1>1. StreamingInv => LostOnlyByTakeover
  BY DEF StreamingInv, QuestionInv
<1>2. QED
  BY <1>1, StreamingInvariant, PTL

(* Once a turn is over and nothing is on its way any more, the phone has it as done,
   with all that the agent said or a message in its place. *)
THEOREM TurnClosesOnPhone == StreamingSpec => []ClosedOnPhone
<1>1. StreamingInv => ClosedOnPhone
  BY DEF StreamingInv, TextInv, TurnInHand, AfterClose, Replies, ClosedOnPhone, Text!ClosedOnPhone
<1>2. QED
  BY <1>1, StreamingInvariant, PTL

(* A throttled frame holds the reply as it is, so that the timer never posts less than
   has been posted. *)
THEOREM ThrottledIsCurrent == StreamingSpec => []Text!PendingIsCurrent
<1>1. StreamingInv => Text!PendingIsCurrent
  BY DEF StreamingInv
<1>2. QED
  BY <1>1, StreamingInvariant, PTL
=============================================================================
