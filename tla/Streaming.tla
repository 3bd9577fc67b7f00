------------------------------ MODULE Streaming ------------------------------
(***************************************************************************)
(* StreamingState (agents/acp/runner.ts): the question it holds            *)
(* (PendingQuestion) and the text it streams (StreamedTurn).  A turn that  *)
(* opens resets both, and neither reads what the other writes; so a        *)
(* behaviour follows one of them.                                          *)
(***************************************************************************)
EXTENDS PendingQuestion

CONSTANTS MaxDeltas, MaxStops, MaxDenials   \* StreamedTurn

ASSUME StreamingAssumption == MaxDeltas \in Nat /\ MaxStops \in Nat /\ MaxDenials \in Nat

VARIABLES
  part,       \* the component that the behaviour follows
  throttled,  \* pendingPartialText
  turn, pc, adapter, said, text, posts, oversize, invalid, stops, denials, last, got, spoiled

Text == INSTANCE StreamedTurn WITH pending <- throttled

textVars == <<throttled, turn, pc, adapter, said, text, posts, oversize, invalid, stops,
              denials, last, got, spoiled>>
streamingVars == <<part, vars, textVars>>

StreamingInit == part \in {"question", "text"} /\ Init /\ Text!Init
QuestionMoves == part = "question" /\ Next /\ UNCHANGED <<part, textVars>>
TextMoves == part = "text" /\ Text!Next /\ UNCHANGED <<part, vars>>
StreamingNext == QuestionMoves \/ TextMoves

(* The publish POST of a question settles, and timers fire. *)
StreamingSpec ==
  /\ StreamingInit /\ [][StreamingNext]_streamingVars
  /\ \A q \in Perms :
       /\ WF_vars(part = "question" /\ RegisterPermission(q))
       /\ WF_vars(part = "question" /\ TtlExpires(q))

-----------------------------------------------------------------------------
(* Once a turn is over and nothing is on its way any more, the phone has it as done,
   with all that the agent said or a message in its place. *)
ClosedOnPhone == Text!ClosedOnPhone
=============================================================================
