------------------------------ MODULE TurnLine ------------------------------
(***************************************************************************)
(* What the TurnQueue promises (agents/acp/turn-queue.ts, class comment):  *)
(* turns stand in line in the order they arrive, the first in line is the  *)
(* only one open, it closes, and only then does it leave the line.         *)
(***************************************************************************)
EXTENDS Sequences

CONSTANT Tasks

VARIABLES
  line,      \* turns that arrived and have not left
  open,      \* turns between their opening and their last frame
  closed     \* the first in line has published its last frame

TypeOK == line \in Seq(Tasks) /\ open \in SUBSET Tasks /\ closed \in BOOLEAN

Init == line = <<>> /\ open = {} /\ closed = FALSE

Arrive(t) == line' = Append(line, t) /\ UNCHANGED <<open, closed>>

Begin ==
  /\ line # <<>> /\ open = {} /\ ~closed
  /\ open' = {Head(line)}
  /\ UNCHANGED <<line, closed>>

End ==
  /\ open # {}
  /\ open' = {} /\ closed' = TRUE
  /\ UNCHANGED line

Leave ==
  /\ closed /\ line # <<>>
  /\ line' = Tail(line) /\ closed' = FALSE
  /\ UNCHANGED open

Next == (\E t \in Tasks : Arrive(t)) \/ Begin \/ End \/ Leave

Spec == Init /\ [][Next]_<<line, open, closed>>
=============================================================================
