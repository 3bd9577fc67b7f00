----------------------------- MODULE PackRunner -----------------------------
(***************************************************************************)
(* PackRunner (packs/runner.ts) with its relay handlers (packs/handlers.ts)*)
(* and its ledger (packs/run-store.ts): a run is a line of stages, each a  *)
(* turn of the agent that must end on a new commit.  The loop moves at its *)
(* awaits (git, the new conversation, the turn, the POST of a state); the  *)
(* user's actions come between any two of them, and a restart leaves only  *)
(* the ledger.  A started run that replaces a finished one is a new object:*)
(* what the old one still awaits changes nothing.  Two pack_start commands *)
(* of one batch and a ledger that cannot be written are not modelled.      *)
(***************************************************************************)
EXTENDS Naturals

CONSTANTS
  N,            \* stages of the pack
  Reviews,      \* the stages that may hand off without a commit
  MaxRuns,      \* bound: runs started
  MaxActions,   \* bound: pack_action commands
  MaxCrashes    \* bound: restarts of the CLI

ASSUME PackAssumption ==
  /\ N \in Nat \ {0} /\ Reviews \subseteq 1..N
  /\ MaxRuns \in Nat /\ MaxActions \in Nat /\ MaxCrashes \in Nat

VARIABLES
  run,          \* this.state; NoRun when no runner is active
  ledger,       \* run.json of the latest run
  pc,           \* what the loop awaits, "idle" if looping is false
  control, inPlace,
  calls,        \* run() calls to come: a pack_start before its ack, an action before its POST is over
  moved,        \* HEAD is past the current stage's start commit
  text,         \* the stage's reply is not empty
  acts, crashes,
  cancelled,    \* driver.cancel() was sent to the turn that runs
  (* history *)
  here,         \* the current stage's conversation was opened by this process
  asked         \* the last action that was taken, "late" when the loop was already leaving

loop == <<pc, control, inPlace, calls>>
world == <<moved, text>>
hist == <<here, asked, cancelled>>
vars == <<run, ledger, loop, world, acts, crashes, hist>>

Stages == 1..N
Terminal == {"completed", "aborted"}
Parked == {"paused", "stalled"}

Runs == [id : 0..MaxRuns, status : {"none", "running"} \cup Parked \cup Terminal, cur : 1..N+1,
         stages : [Stages -> {"pending", "active", "done", "failed", "skipped"}],
         waiting : BOOLEAN,          \* awaitingUser of the current stage
         conv : BOOLEAN,             \* conversationId of the current stage
         pend : {"none", "pause", "abort"}]

NoRun == [id |-> 0, status |-> "none", cur |-> 1, stages |-> [i \in Stages |-> "pending"],
          waiting |-> FALSE, conv |-> FALSE, pend |-> "none"]

TypeOK ==
  /\ run \in Runs /\ ledger \in Runs
  /\ pc \in {"idle", "head", "convo", "begun", "inplace", "turn", "gate", "nudge", "gate2",
             "handoff", "recorded", "settle"}
  /\ control \in {"run", "pause", "abort"} /\ inPlace \in BOOLEAN
  /\ calls \in Nat /\ acts \in 0..MaxActions /\ crashes \in 0..MaxCrashes
  /\ moved \in BOOLEAN /\ text \in BOOLEAN
  /\ cancelled \in BOOLEAN /\ here \in BOOLEAN /\ asked \in {"go", "pause", "abort", "late"}

Init ==
  /\ run = NoRun /\ ledger = NoRun
  /\ pc = "idle" /\ control = "run" /\ inPlace = FALSE /\ calls = 0
  /\ moved = FALSE /\ text = FALSE /\ acts = 0 /\ crashes = 0
  /\ cancelled = FALSE /\ here = FALSE /\ asked = "go"

-----------------------------------------------------------------------------
(* patchStage() on the current stage. *)
Patched(r, st) == [r EXCEPT !.stages[r.cur] = st, !.waiting = FALSE]

(* publish(): the ledger first, then a POST that never throws. *)
Publish(r) == run' = r /\ ledger' = r

(* settle(): the status is final for the loop, which leaves when the POST is over. *)
Settle(r, st) ==
  /\ Publish([r EXCEPT !.status = st, !.pend = "none"])
  /\ pc' = "settle"

Aborted == control = "abort"

(* stall() and awaitUser(). *)
Stall == Settle(Patched(run, "failed"), "stalled") /\ UNCHANGED control
AwaitUser == Settle([run EXCEPT !.waiting = TRUE], "paused") /\ control' = "pause"

(* The top of the while loop, where an abort or a pause is honoured. *)
LoopTop ==
  IF run.cur > N THEN Settle(run, "completed") /\ UNCHANGED inPlace
  ELSE IF control = "abort" THEN Settle(run, "aborted") /\ UNCHANGED inPlace
  ELSE IF control = "pause" THEN Settle(run, "paused") /\ UNCHANGED inPlace
  ELSE /\ inPlace' = FALSE
       /\ IF inPlace
          THEN /\ Publish([Patched(run, "active") EXCEPT !.status = "running"])
               /\ pc' = "inplace"
          ELSE pc' = "head" /\ UNCHANGED <<run, ledger>>

(* run(): re-entry while the loop is in is a no-op. *)
RunCalled ==
  /\ calls > 0
  /\ calls' = calls - 1
  /\ IF pc = "idle"
     THEN LoopTop /\ asked' = IF asked = "late" THEN "go" ELSE asked
     ELSE UNCHANGED <<run, ledger, pc, inPlace, asked>>
  /\ UNCHANGED <<control, world, acts, crashes, here, cancelled>>

-----------------------------------------------------------------------------
(* runStage(), fresh: the start commit is read, the stage becomes active, and the
   ledger hears of it when the new conversation is there. *)
StageBegins ==
  /\ pc = "head"
  /\ run' = [Patched(run, "active") EXCEPT !.conv = FALSE, !.status = "running"]
  /\ moved' = FALSE /\ text' = FALSE
  /\ pc' = "convo"
  /\ UNCHANGED <<ledger, control, inPlace, calls, acts, crashes, hist>>

Opened ==
  /\ pc = "convo"
  /\ Publish([run EXCEPT !.conv = TRUE])
  /\ pc' = "begun" /\ here' = TRUE
  /\ UNCHANGED <<control, inPlace, calls, world, acts, crashes, asked, cancelled>>

(* newConversation() throws, or later HEAD does not resolve to a commit. *)
StageThrows ==
  /\ pc \in {"convo", "handoff"}
  /\ IF pc = "convo" /\ Aborted THEN Settle(run, "aborted") /\ UNCHANGED control ELSE Stall
  /\ UNCHANGED <<inPlace, calls, world, acts, crashes, hist>>

Driven ==
  /\ pc = "begun"
  /\ pc' = "turn" /\ cancelled' = FALSE
  /\ UNCHANGED <<run, ledger, control, inPlace, calls, world, acts, crashes, here, asked>>

(* drive()'s callback: a permission prompt opened or closed during the turn. *)
Asks ==
  /\ pc \in {"turn", "nudge"}
  /\ Publish([run EXCEPT !.waiting = ~@])
  /\ UNCHANGED <<loop, world, acts, crashes, hist>>

(* The agent, or the user, commits. *)
Commits ==
  /\ run.status # "none" /\ ~moved
  /\ moved' = TRUE
  /\ UNCHANGED <<run, ledger, loop, text, acts, crashes, hist>>

AsksOverAbort == FALSE                           \* fault: the reply's question is looked at first
AbortFirst == Aborted

(* What runTurn() returned: a reply (perhaps empty), one that ends on a question,
   or a failure.  An abort is looked at before any of them. *)
TurnEnds(reply) ==
  /\ pc \in {"turn", "nudge"}
  /\ text' = (reply = "text" \/ (pc = "nudge" /\ text))
  /\ IF AbortFirst THEN Settle(run, "aborted") /\ UNCHANGED control
     ELSE IF reply = "question" THEN AwaitUser
     ELSE IF reply = "failure" THEN Stall
     ELSE /\ pc' = IF pc = "turn" THEN "gate" ELSE "gate2"
          /\ UNCHANGED <<run, ledger, control>>
  /\ UNCHANGED <<inPlace, calls, moved, acts, crashes, hist>>

(* In place there was no prompt: straight to the gate. *)
InPlaceGate ==
  /\ pc = "inplace"
  /\ text' = FALSE
  /\ IF Aborted THEN Settle(run, "aborted") ELSE pc' = "gate" /\ UNCHANGED <<run, ledger>>
  /\ UNCHANGED <<control, inPlace, calls, moved, acts, crashes, hist>>

(* The commit gate, with one nudge, which needs a conversation to go to. *)
NudgesAgain == pc \in {"gate", "gate2"} /\ run.conv     \* fault: not bounded
MayNudge == pc = "gate" /\ run.conv

Gate ==
  /\ pc \in {"gate", "gate2"}
  /\ \/ /\ moved \/ (run.cur \in Reviews /\ text)
        /\ pc' = "handoff" /\ UNCHANGED <<run, ledger, control, cancelled>>
     \/ /\ ~moved /\ ~(run.cur \in Reviews /\ text)
        /\ IF MayNudge
           THEN pc' = "nudge" /\ cancelled' = FALSE /\ UNCHANGED <<run, ledger, control>>
           ELSE Stall /\ UNCHANGED cancelled
  /\ UNCHANGED <<inPlace, calls, world, acts, crashes, here, asked>>

(* recordHandoff(): the stage is done and the run is past it, in one write. *)
DoneOnly == Patched(run, "done")                 \* fault: advances after the write
DoneAndPast == [Patched(run, "done") EXCEPT !.cur = @ + 1, !.conv = FALSE]

RecordHandoff ==
  /\ pc = "handoff"
  /\ run' = [Patched(run, "done") EXCEPT !.cur = @ + 1, !.conv = FALSE]
  /\ ledger' = DoneAndPast
  /\ pc' = "recorded"
  /\ UNCHANGED <<control, inPlace, calls, world, acts, crashes, hist>>

NextStage ==
  /\ pc = "recorded"
  /\ LoopTop
  /\ UNCHANGED <<control, calls, world, acts, crashes, hist>>

(* The settlement's POST is over: looping becomes false. *)
LoopLeaves ==
  /\ pc = "settle"
  /\ pc' = "idle"
  /\ UNCHANGED <<run, ledger, control, inPlace, calls, world, acts, crashes, hist>>

-----------------------------------------------------------------------------
(* applyAction() up to its POST. *)
Heard(a) == IF pc = "settle" \/ (asked = "late" /\ pc = "idle") THEN "late" ELSE a

Takes ==
  /\ acts < MaxActions /\ run.status \notin {"none"} \cup Terminal
  /\ acts' = acts + 1

Pause ==
  /\ Takes /\ run.status = "running"
  /\ control' = "pause"
  /\ Publish([run EXCEPT !.pend = "pause"])
  /\ asked' = Heard("pause")
  /\ UNCHANGED <<pc, inPlace, calls, world, crashes, here, cancelled>>

(* The state goes back to running, and run() is called when the POST is over. *)
Restarts(r) ==
  /\ control' = "run"
  /\ Publish([r EXCEPT !.status = "running", !.pend = "none"])
  /\ calls' = calls + 1
  /\ asked' = Heard("go")
  /\ UNCHANGED <<pc, world, crashes, here, cancelled>>

Resume ==
  /\ Takes /\ run.status \in Parked
  /\ inPlace' = (run.cur <= N /\ (run.waiting \/ run.stages[run.cur] = "failed"))
  /\ Restarts(run)

NotRunning == run.status # "running" /\ pc \notin {"turn", "nudge"} /\ run.cur <= N

RetryStage ==
  /\ Takes /\ NotRunning
  /\ inPlace' = FALSE
  /\ Restarts([Patched(run, "pending") EXCEPT !.conv = FALSE])

SkipStage ==
  /\ Takes /\ NotRunning
  /\ inPlace' = FALSE
  /\ Restarts([Patched(run, "skipped") EXCEPT !.cur = @ + 1, !.conv = FALSE])

(* abort: the loop is told and the turn cancelled, or there is no loop to tell.  The
   cancel is sent once, and not to a turn that begins after it. *)
Abort ==
  /\ Takes
  /\ control' = "abort"
  /\ IF pc # "idle"
     THEN Publish([run EXCEPT !.pend = "abort"])
     ELSE Publish([run EXCEPT !.status = "aborted", !.pend = "none"])
  /\ asked' = Heard("abort") /\ cancelled' = (cancelled \/ pc \in {"turn", "nudge"})
  /\ UNCHANGED <<pc, inPlace, calls, world, crashes, here>>

-----------------------------------------------------------------------------
(* pack_start: acked, and only then run; nothing is in the ledger yet. *)
Start ==
  /\ \/ run.status \in Terminal
     \/ run.status = "none" /\ ledger.status \in {"none"} \cup Terminal
  /\ run.id < MaxRuns /\ ledger.id < MaxRuns
  /\ run' = [NoRun EXCEPT !.id = (IF run.id > ledger.id THEN run.id ELSE ledger.id) + 1,
                          !.status = "running"]
  /\ pc' = "idle" /\ control' = "run" /\ inPlace' = FALSE /\ calls' = 1
  /\ here' = FALSE /\ asked' = "go" /\ cancelled' = FALSE
  /\ UNCHANGED <<ledger, world, acts, crashes>>

Crash ==
  /\ crashes < MaxCrashes /\ run.status # "none"
  /\ crashes' = crashes + 1
  /\ run' = NoRun /\ pc' = "idle" /\ control' = "run" /\ inPlace' = FALSE /\ calls' = 0
  /\ here' = FALSE /\ asked' = "go" /\ cancelled' = FALSE
  /\ UNCHANGED <<ledger, world, acts>>

(* rehydrate(): a stage the ledger has as active was cut short. *)
NeverInterrupted(r) == FALSE                     \* fault: the stage is left as stored
Interrupted(r) == r.cur <= N /\ r.stages[r.cur] = "active"

KeepsStatus(r) ==                                \* fault: the run goes on as it was stored
  IF Interrupted(r) THEN [Patched(r, "failed") EXCEPT !.status = "stalled"] ELSE r

Rehydrated(r) ==
  IF Interrupted(r)
  THEN [Patched(r, "failed") EXCEPT !.status = "stalled", !.conv = FALSE, !.pend = "none"]
  ELSE [r EXCEPT !.status = IF @ = "running" THEN "paused" ELSE @, !.pend = "none"]

(* The first command after a restart rebuilds the runner and announces it. *)
Rehydrate ==
  /\ run.status = "none" /\ ledger.status \notin {"none"} \cup Terminal
  /\ Publish(Rehydrated(ledger))
  /\ UNCHANGED <<loop, world, acts, crashes, hist>>

Replies == {"text", "empty", "question", "failure"}

TurnOver == \E reply \in Replies : TurnEnds(reply)

LoopStep ==
  \/ RunCalled \/ StageBegins \/ Driven \/ InPlaceGate
  \/ Gate \/ RecordHandoff \/ NextStage \/ LoopLeaves

(* What the agent answers, or git refuses. *)
AgentStep == Opened \/ StageThrows \/ TurnOver

Action == Pause \/ Resume \/ RetryStage \/ SkipStage \/ Abort

Next == LoopStep \/ AgentStep \/ Asks \/ Commits \/ Action \/ Start \/ Crash \/ Rehydrate

(* Git and the POSTs have timeouts.  Nothing bounds a turn, whose watchdog is held off
   while a tool runs or a permission is open, nor the opening of a conversation; an
   agent whose turn is cancelled ends it, as its protocol asks. *)
Fairness == WF_vars(LoopStep) /\ WF_vars(TurnOver /\ cancelled)

(* The run waits for the agent, which may be for ever. *)
AgentIsBusy == pc = "convo" \/ (pc \in {"turn", "nudge"} /\ ~cancelled)

Spec == Init /\ [][Next]_vars /\ Fairness

-----------------------------------------------------------------------------
(* A run that is shown as running is driven: the loop is in, or about to be
   entered, unless an action came while the loop was posting its settlement. *)
NoIdleRun == run.status = "running" => pc # "idle" \/ calls > 0 \/ asked = "late"

(* A parked run leaves no stage active, except one that waits for the user's
   answer, restarts included: "never left active forever". *)
ParkedHonestly ==
  \A r \in {run, ledger} : r.status \in Parked =>
    \A i \in Stages : r.stages[i] = "active" => i = r.cur /\ r.waiting

(* What has been handed off is never prompted again, whatever the user taps and
   wherever the CLI restarts. *)
DoneIsFinal ==
  [][\A i \in Stages :
       ledger'.id = ledger.id /\ ledger.stages[i] = "done" => ledger'.stages[i] = "done"]_vars

(* A pause parks the run and an abort ends it, or finds its stage failing at the
   commit gate, which looks at no abort and stalls; unless the user asks for
   something else meanwhile, the CLI restarts, the loop was already leaving, or the
   agent never comes back from what no abort cancelled: a pause waits for the turn,
   and an abort for a conversation or a turn that begins after its cancel. *)
RequestTakesEffect ==
  \/ <>[]AgentIsBusy
  \/ /\ asked = "abort" ~> run.status \in Terminal \cup {"stalled"} \/ asked # "abort"
     /\ asked = "pause" ~> run.status # "running" \/ asked # "pause"

(* A run stops only with its agent: one that is driven completes or parks ("never
   loop forever"), unless the agent never ends a turn or opens a conversation. *)
RunSettles ==
  \/ <>[]AgentIsBusy
  \/ run.status = "running" ~> run.status # "running" \/ asked = "late"

-----------------------------------------------------------------------------
(* The class comment, "settle honestly": whatever its timing, an action that sets
   the run running gets it driven. *)
EveryRunIsDriven == run.status = "running" => pc # "idle" \/ calls > 0

(* No turn is started once the user has asked to abort. *)
NoTurnAfterAbort == [][pc' \in {"turn", "nudge"} /\ pc \notin {"turn", "nudge"} => control # "abort"]_vars

(* "Only when there is a conversation to nudge in: after a CLI restart the stage's
   conversation is gone". *)
NudgesItsConversation == [][pc # "nudge" /\ pc' = "nudge" => here]_vars

(* An abort that the loop was there to hear ends the run. *)
AbortEnds ==
  <>[]AgentIsBusy \/ (asked = "abort" ~> run.status \in Terminal \/ asked # "abort")

(* "the run already finished": a finished run stays as it finished. *)
FinishedIsFinal ==
  [][run.status \in Terminal /\ run'.id = run.id => run'.status = run.status]_vars

(* A run that was acknowledged can be found again after a restart. *)
AcceptedIsKept == [][run.status = "running" /\ run'.status = "none" => ledger.id = run.id]_vars
=============================================================================
