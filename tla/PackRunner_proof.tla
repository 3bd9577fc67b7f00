--------------------------- MODULE PackRunner_proof ---------------------------
(***************************************************************************)
(* Proofs about PackRunner for any pack and any number of runs, actions    *)
(* and restarts.  The invariant adds to the properties where the loop can  *)
(* be while a run is shown as running, and that both copies of a run (in   *)
(* memory and in the ledger) have their active stage at cur and their done *)
(* stages before it.                                                       *)
(***************************************************************************)
EXTENDS PackRunner, TLAPS

Inside == {"head", "convo", "begun", "inplace", "turn", "gate", "nudge", "gate2", "handoff"}

(* The loop works on a stage of a running run. *)
InsideRuns ==
  /\ pc \in Inside => run.cur <= N
  /\ pc \in Inside \cup {"recorded"} => run.status = "running"

(* At most one run() call is to come, with the loop out or leaving, for a run that
   runs or was just aborted. *)
CallsRun ==
  calls # 0 => /\ calls = 1 /\ pc \in {"idle", "settle"}
               /\ run.status = "running" \/ (run.status = "aborted" /\ control = "abort")

(* A run set running under a settlement was set running late. *)
LateSettle == pc = "settle" /\ run.status = "running" => asked = "late"

(* The stages of a run, as the loop works through them. *)
InLine(r) ==
  \A i \in Stages : /\ r.stages[i] = "active" => i = r.cur
                    /\ r.stages[i] = "done" => i < r.cur

(* Out of the stages, only a stage that waits for the user is active. *)
WaitsOutside ==
  pc \notin Inside /\ run.status \notin Terminal =>
    \A i \in Stages : run.stages[i] = "active" => run.waiting

(* What the ledger has as done, the run has as done. *)
LedgerBehind ==
  run.status # "none" /\ run.id = ledger.id =>
    \A i \in Stages : ledger.stages[i] = "done" => run.stages[i] = "done"

(* Where the loop is while the run is shown as running. *)
Control == InsideRuns /\ CallsRun /\ LateSettle /\ NoIdleRun

(* What is done and what is active, in memory and in the ledger. *)
Honest(r) ==
  r.status \in Parked => \A i \in Stages : r.stages[i] = "active" => i = r.cur /\ r.waiting

Line == InLine(run) /\ InLine(ledger) /\ LedgerBehind /\ Honest(ledger)

IInv == TypeOK /\ Control /\ Line /\ WaitsOutside

(* The step that DoneIsFinal asks for. *)
KeepsDone ==
  \A i \in Stages :
    ledger'.id = ledger.id /\ ledger.stages[i] = "done" => ledger'.stages[i] = "done"

-----------------------------------------------------------------------------
(* How a step changes a run: its status, its waiting flag or its current stage,
   and nothing else that the invariant reads. *)
Status == {"pending", "active", "done", "failed", "skipped"}
Known == {"running"} \cup Parked \cup Terminal

Like(q, r) == q \in Runs /\ q.id = r.id /\ q.cur = r.cur
Kept(q, r) == Like(q, r) /\ q.waiting = r.waiting /\ q.stages = r.stages
Marked(q, r, st) ==
  /\ Like(q, r) /\ ~q.waiting
  /\ \A i \in Stages : q.stages[i] = IF i = r.cur THEN st ELSE r.stages[i]

(* The run is past its current stage, which ends as st. *)
Past(q, r, st) ==
  /\ q \in Runs /\ q.id = r.id /\ q.cur = r.cur + 1 /\ ~q.waiting
  /\ \A i \in Stages : q.stages[i] = IF i = r.cur THEN st ELSE r.stages[i]

LEMMA PatchedRun ==
  ASSUME NEW r \in Runs, NEW st \in Status
  PROVE  Marked(Patched(r, st), r, st) /\ Patched(r, st).status = r.status
BY DEF Patched, Runs, Status, Stages, Marked, Like

LEMMA StatusRun ==
  ASSUME NEW r \in Runs, NEW st \in Known
  PROVE  LET q == [r EXCEPT !.status = st, !.pend = "none"] IN Kept(q, r) /\ q.status = st
BY DEF Runs, Known, Parked, Terminal, Kept, Like

LEMMA RunningRun ==
  ASSUME NEW r \in Runs
  PROVE  LET q == [r EXCEPT !.status = "running"] IN Kept(q, r) /\ q.status = "running"
BY DEF Runs, Kept, Like

LEMMA ConvRun ==
  ASSUME NEW r \in Runs, NEW b \in BOOLEAN
  PROVE  LET q == [r EXCEPT !.conv = b] IN Kept(q, r) /\ q.status = r.status
BY DEF Runs, Kept, Like

LEMMA PendRun ==
  ASSUME NEW r \in Runs, NEW p \in {"none", "pause", "abort"}
  PROVE  LET q == [r EXCEPT !.pend = p] IN Kept(q, r) /\ q.status = r.status
BY DEF Runs, Kept, Like

LEMMA WaitRun ==
  ASSUME NEW r \in Runs, NEW b \in BOOLEAN
  PROVE  LET q == [r EXCEPT !.waiting = b] IN
           Like(q, r) /\ q.status = r.status /\ q.stages = r.stages /\ q.waiting = b
BY DEF Runs, Like

(* The stage is done with: the run is past it. *)
LEMMA PastRun ==
  ASSUME NEW r \in Runs, r.cur <= N
  PROVE  LET q == [r EXCEPT !.cur = @ + 1, !.conv = FALSE] IN
           /\ q \in Runs /\ q.id = r.id /\ q.cur = r.cur + 1 /\ q.status = r.status
           /\ q.stages = r.stages /\ q.waiting = r.waiting
<1>1. r.cur + 1 \in 1..N+1
  BY PackAssumption DEF Runs
<1>2. QED
  BY <1>1 DEF Runs

LEMMA RunFields ==
  ASSUME NEW r \in Runs
  PROVE  /\ r.id \in 0..MaxRuns /\ r.cur \in 1..N+1 /\ r.waiting \in BOOLEAN
         /\ r.status \in {"none"} \cup Known
         /\ \A i \in Stages : r.stages[i] \in Status
BY DEF Runs, Stages, Status, Known, Parked, Terminal

LEMMA NoRunYet ==
  /\ NoRun \in Runs /\ NoRun.id = 0 /\ NoRun.status = "none" /\ NoRun.cur = 1
  /\ ~NoRun.waiting /\ \A i \in Stages : NoRun.stages[i] = "pending"
BY PackAssumption DEF NoRun, Runs, Stages, Parked, Terminal

-----------------------------------------------------------------------------
(* What the compound steps of the loop do. *)
LEMMA StallDoes ==
  ASSUME run \in Runs, Stall
  PROVE  /\ pc' = "settle" /\ ledger' = run' /\ control' = control
         /\ Marked(run', run, "failed") /\ run'.status = "stalled"
<1> DEFINE q == Patched(run, "failed")
<1>1. Marked(q, run, "failed")
  BY PatchedRun DEF Status
<1>2. Kept(run', q) /\ run'.status = "stalled"
  BY <1>1, StatusRun DEF Stall, Settle, Publish, Marked, Like, Known, Parked
<1>3. QED
  BY <1>1, <1>2 DEF Stall, Settle, Publish, Marked, Like, Kept

LEMMA AwaitUserDoes ==
  ASSUME run \in Runs, AwaitUser
  PROVE  /\ pc' = "settle" /\ ledger' = run' /\ control' = "pause"
         /\ Like(run', run) /\ run'.stages = run.stages
         /\ run'.waiting /\ run'.status = "paused"
<1> DEFINE q == [run EXCEPT !.waiting = TRUE]
<1>1. Like(q, run) /\ q.stages = run.stages /\ q.waiting
  BY WaitRun
<1>2. Kept(run', q) /\ run'.status = "paused"
  BY <1>1, StatusRun DEF AwaitUser, Settle, Publish, Like, Known, Parked
<1>3. QED
  BY <1>1, <1>2 DEF AwaitUser, Settle, Publish, Like, Kept

LEMMA SettleDoes ==
  ASSUME run \in Runs, NEW st \in Known, Settle(run, st)
  PROVE  /\ pc' = "settle" /\ ledger' = run'
         /\ Kept(run', run) /\ run'.status = st
BY StatusRun DEF Settle, Publish

(* The loop leaves, goes on in place, or starts a stage. *)
Leaves ==
  /\ pc' = "settle" /\ inPlace' = inPlace /\ ledger' = run' /\ Kept(run', run)
  /\ run'.status \in {"completed", "aborted", "paused"}
  /\ run'.status = "paused" => control = "pause"

GoesOnInPlace ==
  /\ pc' = "inplace" /\ inPlace' = FALSE /\ ledger' = run'
  /\ Marked(run', run, "active") /\ run'.status = "running"

StartsStage ==
  pc' = "head" /\ inPlace' = FALSE /\ run' = run /\ ledger' = ledger

LEMMA LoopTopDoes ==
  ASSUME TypeOK, LoopTop
  PROVE  Leaves \/ (run.cur <= N /\ control = "run" /\ (GoesOnInPlace \/ StartsStage))
<1> USE DEF TypeOK
<1>1. run.cur \in 1..N+1
  BY RunFields
<1>2. CASE run.cur > N
  BY <1>2, SettleDoes DEF LoopTop, Leaves, Known, Terminal
<1>3. CASE ~(run.cur > N) /\ control # "run"
  BY <1>3, SettleDoes DEF LoopTop, Leaves, Known, Terminal, Parked
<1>4. CASE ~(run.cur > N) /\ control = "run" /\ inPlace
  <2> DEFINE q == Patched(run, "active")
  <2>1. Marked(q, run, "active")
    BY PatchedRun DEF Status
  <2>2. Kept(run', q) /\ run'.status = "running"
    BY <1>4, <2>1, RunningRun DEF LoopTop, Publish, Marked, Like
  <2>3. GoesOnInPlace
    BY <1>4, <2>1, <2>2 DEF LoopTop, Publish, Marked, Like, Kept, GoesOnInPlace
  <2>4. QED
    BY <1>1, <1>4, <2>3, PackAssumption
<1>5. CASE ~(run.cur > N) /\ control = "run" /\ ~inPlace
  BY <1>1, <1>5, PackAssumption DEF LoopTop, StartsStage
<1>6. QED
  BY <1>2, <1>3, <1>4, <1>5

-----------------------------------------------------------------------------
(* What the steps do to the run. *)
LEMMA BeginsDoes ==
  ASSUME run \in Runs, StageBegins
  PROVE  Marked(run', run, "active") /\ run'.status = "running"
<1> DEFINE q == Patched(run, "active")
           p == [q EXCEPT !.conv = FALSE]
<1>1. Marked(q, run, "active")
  BY PatchedRun DEF Status
<1>2. Kept(p, q)
  BY <1>1, ConvRun DEF Marked, Like
<1>3. run' = [p EXCEPT !.status = "running"]
  BY <1>1, <1>2 DEF StageBegins, Marked, Kept, Like, Runs
<1>4. Kept(run', p) /\ run'.status = "running"
  BY <1>2, <1>3, RunningRun DEF Kept, Like
<1>5. QED
  BY <1>1, <1>2, <1>4 DEF Marked, Kept, Like

LEMMA HandoffDoes ==
  ASSUME run \in Runs, run.cur <= N, RecordHandoff
  PROVE  Past(run', run, "done") /\ run'.status = run.status /\ ledger' = run'
<1> DEFINE q == Patched(run, "done")
<1>1. Marked(q, run, "done") /\ q.status = run.status
  BY PatchedRun DEF Status
<1>2. /\ run' = [q EXCEPT !.cur = @ + 1, !.conv = FALSE]
      /\ ledger' = run'
  BY DEF RecordHandoff, DoneAndPast
<1>3. /\ run' \in Runs /\ run'.id = q.id /\ run'.cur = q.cur + 1 /\ run'.status = q.status
      /\ run'.stages = q.stages /\ run'.waiting = q.waiting
  <2>1. q \in Runs /\ q.cur <= N
    BY <1>1 DEF Marked, Like
  <2>2. QED
    BY <2>1, <1>2, PastRun
<1>4. QED
  BY <1>1, <1>2, <1>3 DEF Marked, Like, Past

LEMMA AsksDoes ==
  ASSUME run \in Runs, Asks
  PROVE  /\ Like(run', run) /\ run'.status = run.status /\ run'.stages = run.stages
         /\ ledger' = run'
<1>1. (~run.waiting) \in BOOLEAN
  OBVIOUS
<1>2. run' = [run EXCEPT !.waiting = ~run.waiting] /\ ledger' = run'
  BY DEF Asks, Publish, Runs
<1>3. QED
  BY <1>1, <1>2, WaitRun

LEMMA PauseDoes ==
  ASSUME run \in Runs, Pause
  PROVE  Kept(run', run) /\ run'.status = run.status /\ ledger' = run'
BY PendRun DEF Pause, Publish

LEMMA AbortDoes ==
  ASSUME run \in Runs, Abort
  PROVE  /\ Kept(run', run) /\ ledger' = run'
         /\ run'.status = IF pc # "idle" THEN run.status ELSE "aborted"
<1>1. "aborted" \in Known
  BY DEF Known, Terminal
<1>2. CASE pc = "idle"
  BY <1>1, <1>2, StatusRun DEF Abort, Publish
<1>3. CASE pc # "idle"
  BY <1>3, PendRun DEF Abort, Publish
<1>4. QED
  BY <1>2, <1>3

(* The three actions that set the run running. *)
LEMMA RestartsDoes ==
  ASSUME NEW r \in Runs, Restarts(r)
  PROVE  Kept(run', r) /\ run'.status = "running" /\ ledger' = run'
<1>1. "running" \in Known
  BY DEF Known
<1>2. QED
  BY <1>1, StatusRun DEF Restarts, Publish

LEMMA ResumeDoes ==
  ASSUME run \in Runs, Resume
  PROVE  Kept(run', run) /\ run'.status = "running" /\ ledger' = run'
BY RestartsDoes DEF Resume

LEMMA RetryDoes ==
  ASSUME run \in Runs, RetryStage
  PROVE  Marked(run', run, "pending") /\ run'.status = "running" /\ ledger' = run'
<1> DEFINE q == Patched(run, "pending")
           p == [q EXCEPT !.conv = FALSE]
<1>1. Marked(q, run, "pending")
  BY PatchedRun DEF Status
<1>2. Kept(p, q)
  BY <1>1, ConvRun DEF Marked, Like
<1>3. Kept(run', p) /\ run'.status = "running" /\ ledger' = run'
  BY <1>2, RestartsDoes DEF RetryStage, Kept, Like
<1>4. QED
  BY <1>1, <1>2, <1>3 DEF Marked, Kept, Like

LEMMA SkipDoes ==
  ASSUME run \in Runs, SkipStage
  PROVE  Past(run', run, "skipped") /\ run'.status = "running" /\ ledger' = run'
<1> DEFINE q == Patched(run, "skipped")
           p == [q EXCEPT !.cur = @ + 1, !.conv = FALSE]
<1>1. Marked(q, run, "skipped")
  BY PatchedRun DEF Status
<1>2. /\ p \in Runs /\ p.id = q.id /\ p.cur = q.cur + 1
      /\ p.stages = q.stages /\ p.waiting = q.waiting
  <2>1. q \in Runs /\ q.cur <= N
    BY <1>1 DEF Marked, Like, SkipStage, NotRunning
  <2>2. QED
    BY <2>1, PastRun
<1>3. Kept(run', p) /\ run'.status = "running" /\ ledger' = run'
  BY <1>2, RestartsDoes DEF SkipStage
<1>4. QED
  BY <1>1, <1>2, <1>3 DEF Marked, Kept, Like, Past

LEMMA StartDoes ==
  ASSUME run \in Runs, ledger \in Runs, Start
  PROVE  /\ run' \in Runs /\ run'.id # ledger.id /\ run'.status = "running" /\ run'.cur = 1
         /\ ~run'.waiting /\ \A i \in Stages : run'.stages[i] = "pending"
<1> DEFINE k == (IF run.id > ledger.id THEN run.id ELSE ledger.id) + 1
<1>1. k \in 0..MaxRuns /\ k # ledger.id
  BY RunFields, PackAssumption DEF Start
<1>2. run' = [NoRun EXCEPT !.id = k, !.status = "running"]
  BY DEF Start
<1>3. QED
  BY <1>1, <1>2, NoRunYet DEF Runs

(* What the restarted CLI makes of the ledger: the active stage has failed, or the
   run is parked as it is. *)
LEMMA RehydrateDoes ==
  ASSUME ledger \in Runs, Rehydrate
  PROVE  /\ run' \in Runs /\ ledger' = run'
         /\ run'.status \in Parked
         /\ \/ Interrupted(ledger) /\ Marked(run', ledger, "failed")
            \/ ~Interrupted(ledger) /\ Kept(run', ledger)
<1>1. CASE Interrupted(ledger)
  <2> DEFINE q == Patched(ledger, "failed")
             p == [q EXCEPT !.conv = FALSE]
  <2>1. Marked(q, ledger, "failed")
    BY PatchedRun DEF Status
  <2>2. Kept(p, q)
    BY <2>1, ConvRun DEF Marked, Like
  <2>3. run' = [p EXCEPT !.status = "stalled", !.pend = "none"] /\ ledger' = run'
    BY <1>1, <2>1 DEF Rehydrate, Rehydrated, Publish, Marked, Like, Runs
  <2>4. Kept(run', p) /\ run'.status = "stalled"
    BY <2>2, <2>3, StatusRun DEF Kept, Like, Known, Parked
  <2>5. Marked(run', ledger, "failed")
    BY <2>1, <2>2, <2>4 DEF Kept, Marked, Like
  <2>6. QED
    BY <1>1, <2>3, <2>4, <2>5 DEF Marked, Like, Parked
<1>2. CASE ~Interrupted(ledger)
  <2> DEFINE st == IF ledger.status = "running" THEN "paused" ELSE ledger.status
  <2>1. st \in Known /\ st \in Parked
    BY RunFields DEF Rehydrate, Known, Parked, Terminal
  <2>2. run' = [ledger EXCEPT !.status = st, !.pend = "none"] /\ ledger' = run'
    BY <1>2 DEF Rehydrate, Rehydrated, Publish, Runs
  <2>3. Kept(run', ledger) /\ run'.status = st
    BY <2>1, <2>2, StatusRun
  <2>4. QED
    BY <1>2, <2>1, <2>2, <2>3 DEF Kept, Like
<1>3. QED
  BY <1>1, <1>2

-----------------------------------------------------------------------------
(* The types; that a stage is within the pack when the run passes it is InsideRuns. *)
LEMMA InitType == Init => TypeOK
<1> SUFFICES ASSUME Init PROVE TypeOK
  OBVIOUS
<1>1. run \in Runs /\ ledger \in Runs
  BY NoRunYet DEF Init
<1>2. calls \in Nat /\ acts \in 0..MaxActions /\ crashes \in 0..MaxCrashes
  BY PackAssumption DEF Init
<1>3. QED
  BY <1>1, <1>2 DEF Init, TypeOK

LEMMA NextType == TypeOK /\ InsideRuns /\ [Next]_vars => TypeOK'
<1> SUFFICES ASSUME TypeOK, InsideRuns, [Next]_vars PROVE TypeOK'
  OBVIOUS
<1>0. /\ run \in Runs /\ ledger \in Runs /\ run.cur \in 1..N+1
  BY RunFields DEF TypeOK
<1>1. CASE RunCalled
  <2>1. /\ run' \in Runs /\ ledger' \in Runs /\ inPlace' \in BOOLEAN
        /\ pc' \in {"idle", "settle", "inplace", "head"} \/ pc' = pc
    <3>1. CASE pc = "idle"
      BY <1>0, <1>1, <3>1, LoopTopDoes
         DEF RunCalled, Leaves, GoesOnInPlace, StartsStage, Kept, Marked, Like, TypeOK
    <3>2. CASE pc # "idle"
      BY <1>0, <1>1, <3>2 DEF RunCalled, TypeOK
    <3>3. QED
      BY <3>1, <3>2
  <2>2. calls' \in Nat /\ asked' \in {"go", "pause", "abort", "late"}
    BY <1>1 DEF RunCalled, TypeOK
  <2>3. QED
    BY <1>1, <2>1, <2>2 DEF RunCalled, TypeOK, world
<1>2. CASE StageBegins
  <2>1. run' \in Runs
    BY <1>2, BeginsDoes DEF TypeOK, Marked, Like
  <2>2. QED
    BY <1>2, <2>1 DEF StageBegins, TypeOK, hist
<1>3. CASE Opened
  <2>1. run' \in Runs /\ ledger' \in Runs
    BY <1>0, <1>3, ConvRun DEF Opened, Publish, Kept, Like
  <2>2. QED
    BY <1>3, <2>1 DEF Opened, TypeOK, world
<1>4. CASE StageThrows
  <2>1. run' \in Runs /\ ledger' \in Runs /\ pc' = "settle" /\ control' = control
    BY <1>0, <1>4, StallDoes, SettleDoes
       DEF StageThrows, Known, Terminal, Kept, Marked, Like
  <2>2. QED
    BY <1>4, <2>1 DEF StageThrows, TypeOK, world, hist
<1>5. CASE Driven
  BY <1>5 DEF Driven, TypeOK, world, hist
<1>6. CASE InPlaceGate
  <2>1. run' \in Runs /\ ledger' \in Runs /\ pc' \in {"settle", "gate"}
    BY <1>0, <1>6, SettleDoes DEF InPlaceGate, Known, Terminal, Kept, Like
  <2>2. QED
    BY <1>6, <2>1 DEF InPlaceGate, TypeOK, hist
<1>7. CASE Gate
  <2>1. /\ run' \in Runs /\ ledger' \in Runs /\ pc' \in {"settle", "handoff", "nudge"}
        /\ control' = control
    BY <1>0, <1>7, StallDoes DEF Gate, Marked, Like
  <2>2. QED
    BY <1>7, <2>1 DEF Gate, TypeOK, world, hist
<1>8. CASE RecordHandoff
  <2>1. run.cur <= N
    BY <1>8 DEF RecordHandoff, InsideRuns, Inside
  <2>2. run' \in Runs /\ ledger' \in Runs
    BY <1>0, <1>8, <2>1, HandoffDoes DEF Past
  <2>3. QED
    BY <1>8, <2>2 DEF RecordHandoff, TypeOK, world, hist
<1>9. CASE NextStage
  <2>1. /\ run' \in Runs /\ ledger' \in Runs /\ inPlace' \in BOOLEAN
        /\ pc' \in {"settle", "inplace", "head"}
    BY <1>0, <1>9, LoopTopDoes
       DEF NextStage, Leaves, GoesOnInPlace, StartsStage, Kept, Marked, Like, TypeOK
  <2>2. QED
    BY <1>9, <2>1 DEF NextStage, TypeOK, world, hist
<1>10. CASE LoopLeaves
  BY <1>10 DEF LoopLeaves, TypeOK, world, hist
<1>11. ASSUME NEW reply \in Replies, TurnEnds(reply) PROVE TypeOK'
  <2>1. /\ run' \in Runs /\ ledger' \in Runs /\ pc' \in {"settle", "gate", "gate2"}
        /\ control' \in {control, "pause"}
    BY <1>0, <1>11, StallDoes, AwaitUserDoes, SettleDoes
       DEF TurnEnds, Known, Terminal, Kept, Marked, Like
  <2>2. text' \in BOOLEAN
    BY <1>11 DEF TurnEnds, TypeOK
  <2>3. QED
    BY <1>11, <2>1, <2>2 DEF TurnEnds, TypeOK, hist
<1>12. CASE Asks
  <2>1. run' \in Runs /\ ledger' \in Runs
    BY <1>0, <1>12, AsksDoes DEF Like
  <2>2. QED
    BY <1>12, <2>1 DEF Asks, TypeOK, world, hist, loop
<1>13. CASE Commits
  BY <1>13 DEF Commits, TypeOK, hist, loop
<1>14. CASE Action
  <2>1. acts' \in 0..MaxActions
    BY <1>14, PackAssumption
       DEF Action, Pause, Resume, RetryStage, SkipStage, Abort, Takes, TypeOK
  <2>2. CASE Pause \/ Abort
    <3>1. run' \in Runs /\ ledger' \in Runs
      BY <1>0, <2>2, PauseDoes, AbortDoes DEF Kept, Like
    <3>2. QED
      BY <2>1, <2>2, <3>1 DEF Pause, Abort, Heard, TypeOK, world
  <2>3. CASE Resume \/ RetryStage \/ SkipStage
    <3>1. run' \in Runs /\ ledger' \in Runs
      BY <1>0, <2>3, ResumeDoes, RetryDoes, SkipDoes DEF Kept, Marked, Like, Past
    <3>2. calls' \in Nat
      BY <2>3 DEF Resume, RetryStage, SkipStage, Restarts, TypeOK
    <3>3. inPlace' \in BOOLEAN
      BY <2>3, Zenon DEF Resume, RetryStage, SkipStage
    <3>4. QED
      BY <2>1, <2>3, <3>1, <3>2, <3>3
         DEF Resume, RetryStage, SkipStage, Restarts, Heard, TypeOK, world
  <2>4. QED
    BY <1>14, <2>2, <2>3 DEF Action
<1>15. CASE Start
  <2>1. run' \in Runs
    BY <1>0, <1>15, StartDoes
  <2>2. QED
    BY <1>15, <2>1 DEF Start, TypeOK, world
<1>16. CASE Crash
  <2>1. crashes' \in 0..MaxCrashes
    BY <1>16, PackAssumption DEF Crash, TypeOK
  <2>2. QED
    BY <1>16, <2>1, NoRunYet DEF Crash, TypeOK, world
<1>17. CASE Rehydrate
  <2>1. run' \in Runs /\ ledger' \in Runs
    BY <1>0, <1>17, RehydrateDoes
  <2>2. QED
    BY <1>17, <2>1 DEF Rehydrate, TypeOK, world, hist, loop
<1>18. CASE UNCHANGED vars
  BY <1>18 DEF vars, loop, world, hist, TypeOK
<1>19. QED
  BY <1>1, <1>2, <1>3, <1>4, <1>5, <1>6, <1>7, <1>8, <1>9, <1>10, <1>11, <1>12, <1>13,
     <1>14, <1>15, <1>16, <1>17, <1>18 DEF Next, LoopStep, AgentStep, TurnOver

-----------------------------------------------------------------------------
(* The loop and the calls. *)
LEMMA InitControl == Init => Control
BY NoRunYet DEF Init, Control, InsideRuns, Inside, CallsRun, LateSettle, NoIdleRun

LEMMA NextControl == TypeOK /\ Control /\ [Next]_vars => Control'
<1> SUFFICES ASSUME TypeOK, Control, [Next]_vars PROVE Control'
  OBVIOUS
<1> USE DEF Control, InsideRuns, Inside, CallsRun, LateSettle, NoIdleRun
<1>0. /\ run \in Runs /\ ledger \in Runs /\ run.cur \in 1..N+1
      /\ run.status \in {"none"} \cup Known /\ calls \in Nat
  BY RunFields DEF TypeOK
<1>1. CASE RunCalled
  <2>1. CASE pc # "idle"
    BY <1>0, <1>1, <2>1 DEF RunCalled
  <2>2. CASE pc = "idle"
    <3>1. calls = 1 /\ calls' = 0
      BY <1>0, <1>1 DEF RunCalled
    <3>2. CASE Leaves
      <4>1. run'.status # "running" /\ pc' = "settle"
        BY <3>2 DEF Leaves
      <4>2. QED
        BY <3>1, <4>1
    <3>3. CASE run.cur <= N /\ GoesOnInPlace
      BY <3>1, <3>3 DEF GoesOnInPlace, Marked, Like
    <3>4. CASE run.cur <= N /\ control = "run" /\ StartsStage
      <4>1. run.status = "running"
        BY <1>0, <3>1, <3>4, <2>2
      <4>2. QED
        BY <3>1, <3>4, <4>1 DEF StartsStage
    <3>5. QED
      BY <1>1, <2>2, <3>2, <3>3, <3>4, LoopTopDoes DEF RunCalled
  <2>3. QED
    BY <2>1, <2>2
<1>2. CASE StageBegins
  BY <1>0, <1>2, BeginsDoes DEF StageBegins, hist, Marked, Like
<1>3. CASE Opened
  <2>1. Kept(run', run) /\ run'.status = run.status
    BY <1>0, <1>3, ConvRun DEF Opened, Publish
  <2>2. QED
    BY <1>3, <2>1 DEF Opened, Kept, Like
<1>4. CASE StageThrows
  <2>1. pc' = "settle" /\ run'.status # "running"
    BY <1>0, <1>4, StallDoes, SettleDoes DEF StageThrows, Known, Terminal
  <2>2. QED
    BY <1>4, <2>1 DEF StageThrows
<1>5. CASE Driven
  BY <1>5 DEF Driven, hist
<1>6. CASE InPlaceGate
  <2>1. CASE Aborted
    <3>1. pc' = "settle" /\ run'.status # "running"
      BY <1>0, <1>6, <2>1, SettleDoes DEF InPlaceGate, Known, Terminal
    <3>2. QED
      BY <1>6, <3>1 DEF InPlaceGate
  <2>2. CASE ~Aborted
    BY <1>6, <2>2 DEF InPlaceGate, hist
  <2>3. QED
    BY <2>1, <2>2
<1>7. CASE Gate
  <2>1. CASE Stall
    <3>1. pc' = "settle" /\ run'.status # "running"
      BY <1>0, <2>1, StallDoes
    <3>2. QED
      BY <1>7, <3>1 DEF Gate
  <2>2. CASE pc' \in {"handoff", "nudge"} /\ UNCHANGED <<run, ledger, control>>
    BY <1>7, <2>2 DEF Gate, hist
  <2>3. QED
    BY <1>7, <2>1, <2>2 DEF Gate
<1>8. CASE RecordHandoff
  <2>1. run.cur <= N
    BY <1>8 DEF RecordHandoff
  <2>2. run'.status = run.status
    BY <1>0, <1>8, <2>1, HandoffDoes
  <2>3. QED
    BY <1>8, <2>2 DEF RecordHandoff, hist
<1>9. CASE NextStage
  <2>1. calls = 0 /\ calls' = 0 /\ run.status = "running"
    BY <1>9 DEF NextStage
  <2>2. CASE Leaves
    <3>1. run'.status # "running" /\ pc' = "settle"
      BY <2>2 DEF Leaves
    <3>2. QED
      BY <2>1, <3>1
  <2>3. CASE run.cur <= N /\ GoesOnInPlace
    BY <2>1, <2>3 DEF GoesOnInPlace, Marked, Like
  <2>4. CASE run.cur <= N /\ StartsStage
    BY <2>1, <2>4 DEF StartsStage
  <2>5. QED
    BY <1>9, <2>2, <2>3, <2>4, LoopTopDoes DEF NextStage
<1>10. CASE LoopLeaves
  BY <1>10 DEF LoopLeaves, hist
<1>11. ASSUME NEW reply \in Replies, TurnEnds(reply) PROVE Control'
  <2>1. CASE pc' = "settle" /\ run'.status # "running"
    BY <1>11, <2>1 DEF TurnEnds
  <2>2. CASE pc' \in {"gate", "gate2"} /\ UNCHANGED <<run, ledger, control>>
    BY <1>11, <2>2 DEF TurnEnds, hist
  <2>3. QED
    BY <1>0, <1>11, <2>1, <2>2, StallDoes, AwaitUserDoes, SettleDoes
       DEF TurnEnds, Known, Terminal
<1>12. CASE Asks
  BY <1>0, <1>12, AsksDoes DEF Asks, hist, loop, Like
<1>13. CASE Commits
  BY <1>13 DEF Commits, hist, loop
<1>14. CASE Pause
  <2>1. run.status = "running" /\ run'.status = "running" /\ run'.cur = run.cur
    BY <1>0, <1>14, PauseDoes DEF Pause, Kept, Like
  <2>2. QED
    BY <1>14, <2>1 DEF Pause, Heard
<1>15. CASE Resume \/ RetryStage \/ SkipStage
  <2>0. run.status # "running" /\ run.status # "aborted"
    BY <1>15 DEF Resume, RetryStage, SkipStage, NotRunning, Takes, Parked, Terminal
  <2>1. calls = 0 /\ pc \in {"idle", "settle"}
    BY <2>0 DEF TypeOK
  <2>2. run'.status = "running"
    BY <1>0, <1>15, ResumeDoes, RetryDoes, SkipDoes
  <2>3. calls' = 1 /\ pc' = pc /\ (pc = "settle" => asked' = "late")
    BY <1>15, <2>1 DEF Resume, RetryStage, SkipStage, Restarts, Heard
  <2>4. QED
    BY <2>1, <2>2, <2>3
<1>16. CASE Abort
  BY <1>0, <1>16, AbortDoes DEF Abort, Takes, Heard, Kept, Like, Known, Terminal
<1>17. CASE Start
  BY <1>0, <1>17, StartDoes DEF Start
<1>18. CASE Crash
  BY <1>18, NoRunYet DEF Crash
<1>19. CASE Rehydrate
  <2>1. run.status = "none" /\ run'.status \in Parked
    BY <1>0, <1>19, RehydrateDoes DEF Rehydrate
  <2>2. QED
    BY <1>19, <2>1 DEF Rehydrate, loop, Parked
<1>20. CASE UNCHANGED vars
  BY <1>20 DEF vars, loop, hist
<1>21. QED
  BY <1>1, <1>2, <1>3, <1>4, <1>5, <1>6, <1>7, <1>8, <1>9, <1>10, <1>11, <1>12, <1>13,
     <1>14, <1>15, <1>16, <1>17, <1>18, <1>19, <1>20 DEF Next, LoopStep, AgentStep, TurnOver, Action

-----------------------------------------------------------------------------
(* The stages.  A publication of the run, unchanged, with another mark on its current
   stage or past it, keeps what is done. *)
Moves(q, r) ==
  \/ Like(q, r) /\ q.stages = r.stages
  \/ \E st \in Status \ {"done"} : Marked(q, r, st)
  \/ r.cur <= N /\ \E st \in Status \ {"active"} : Past(q, r, st)

LEMMA MovesInLine ==
  ASSUME NEW r \in Runs, NEW q \in Runs, InLine(r), Moves(q, r)
  PROVE  InLine(q) /\ \A i \in Stages : r.stages[i] = "done" => q.stages[i] = "done"
<1>0. r.cur \in 1..N+1 /\ N \in Nat
  BY RunFields, PackAssumption
<1>1. CASE Like(q, r) /\ q.stages = r.stages
  BY <1>1 DEF Like, InLine
<1>2. ASSUME NEW st \in Status \ {"done"}, Marked(q, r, st)
      PROVE  InLine(q) /\ \A i \in Stages : r.stages[i] = "done" => q.stages[i] = "done"
  BY <1>0, <1>2 DEF Marked, Like, InLine, Stages
<1>3. ASSUME NEW st \in Status \ {"active"}, Past(q, r, st)
      PROVE  InLine(q) /\ \A i \in Stages : r.stages[i] = "done" => q.stages[i] = "done"
  BY <1>0, <1>3 DEF Past, InLine, Stages
<1>4. QED
  BY <1>1, <1>2, <1>3 DEF Moves

LEMMA PublishKeeps ==
  ASSUME TypeOK, TypeOK', Line, run.status # "none", Moves(run', run), ledger' = run',
         InsideRuns', WaitsOutside'
  PROVE  Line' /\ KeepsDone
<1>1. InLine(run)' /\ \A i \in Stages : run.stages[i] = "done" => run'.stages[i] = "done"
  BY MovesInLine DEF TypeOK, Line, InLine
<1>2. run'.id = run.id
  BY DEF Moves, Like, Marked, Past
<1>3. Honest(ledger)'
  BY <1>1 DEF InsideRuns, WaitsOutside, Honest, InLine, Parked, Terminal
<1>4. QED
  BY <1>1, <1>2, <1>3 DEF Line, LedgerBehind, InLine, KeepsDone

LEMMA InitLine == Init => Line /\ WaitsOutside
BY NoRunYet DEF Init, Line, InLine, LedgerBehind, Honest, WaitsOutside, Parked

LEMMA NextLine == IInv /\ TypeOK' /\ Control' /\ [Next]_vars => Line' /\ WaitsOutside' /\ KeepsDone
<1> SUFFICES ASSUME IInv, TypeOK', Control', [Next]_vars PROVE Line' /\ WaitsOutside' /\ KeepsDone
  OBVIOUS
<1> USE DEF IInv
<1>0. /\ run \in Runs /\ ledger \in Runs /\ run.cur \in 1..N+1 /\ N \in Nat
      /\ run.status \in {"none"} \cup Known /\ calls \in Nat /\ InsideRuns'
  BY RunFields, PackAssumption DEF TypeOK, Control
<1>s. /\ \A st \in Status \ {"done"} : Marked(run', run, st) => Moves(run', run)
      /\ Like(run', run) /\ run'.stages = run.stages => Moves(run', run)
      /\ Kept(run', run) => Moves(run', run)
  BY DEF Moves, Kept
<1>p. ASSUME run.status # "none", Moves(run', run), ledger' = run', WaitsOutside'
      PROVE  Line' /\ WaitsOutside' /\ KeepsDone
  BY <1>0, <1>p, PublishKeeps
<1>u. ASSUME run' = run, ledger' = ledger
      PROVE  Line' /\ KeepsDone
  BY <1>u DEF Line, InLine, LedgerBehind, Honest, KeepsDone
<1>i. pc \in Inside \cup {"recorded"} => run.status = "running"
  BY DEF Control, InsideRuns
<1>t. ASSUME LoopTop, run.status # "none",
             run.status \in Terminal => run.status = "aborted" /\ control = "abort",
             pc \notin Inside
      PROVE  Line' /\ WaitsOutside' /\ KeepsDone
  <2>1. CASE Leaves
    <3>1. WaitsOutside'
      BY <1>t, <2>1 DEF Leaves, Kept, Like, WaitsOutside, Terminal
    <3>2. QED
      BY <1>p, <1>s, <1>t, <2>1, <3>1 DEF Leaves
  <2>2. CASE GoesOnInPlace
    <3>1. WaitsOutside'
      BY <2>2 DEF GoesOnInPlace, WaitsOutside, Inside
    <3>2. QED
      BY <1>p, <1>s, <1>t, <2>2, <3>1 DEF GoesOnInPlace, Status
  <2>3. CASE StartsStage
    <3>1. WaitsOutside'
      BY <2>3 DEF StartsStage, WaitsOutside, Inside
    <3>2. QED
      BY <1>u, <2>3, <3>1 DEF StartsStage
  <2>4. QED
    BY <1>t, <2>1, <2>2, <2>3, LoopTopDoes
<1>l. ASSUME Stall, run.status # "none"
      PROVE  Line' /\ WaitsOutside' /\ KeepsDone
  <2>1. Marked(run', run, "failed") /\ ledger' = run' /\ run'.status = "stalled"
    BY <1>0, <1>l, StallDoes
  <2>2. WaitsOutside'
    BY <1>0, <2>1 DEF WaitsOutside, Marked, Like, Line, InLine
  <2>3. QED
    BY <1>l, <1>p, <1>s, <2>1, <2>2 DEF Status
<1>a. ASSUME Settle(run, "aborted"), run.status # "none"
      PROVE  Line' /\ WaitsOutside' /\ KeepsDone
  <2>1. Kept(run', run) /\ ledger' = run' /\ run'.status = "aborted"
    BY <1>0, <1>a, SettleDoes DEF Known, Terminal
  <2>2. WaitsOutside'
    BY <2>1 DEF WaitsOutside, Terminal
  <2>3. QED
    BY <1>a, <1>p, <1>s, <2>1, <2>2
<1>1. CASE RunCalled
  <2>1. CASE pc = "idle"
    <3>1. calls # 0
      BY <1>0, <1>1 DEF RunCalled
    <3>2. /\ run.status = "running" \/ (run.status = "aborted" /\ control = "abort")
      BY <3>1 DEF Control, CallsRun
    <3>3. LoopTop /\ pc \notin Inside /\ run.status # "none"
      BY <1>1, <2>1, <3>2 DEF RunCalled, Inside
    <3>4. QED
      BY <1>t, <3>2, <3>3 DEF Terminal
  <2>2. CASE pc # "idle"
    <3>1. run' = run /\ ledger' = ledger /\ pc' = pc
      BY <1>1, <2>2 DEF RunCalled
    <3>2. QED
      BY <1>u, <3>1 DEF WaitsOutside
  <2>3. QED
    BY <2>1, <2>2
<1>2. CASE StageBegins
  <2>1. Marked(run', run, "active") /\ ledger' = ledger /\ pc' = "convo"
    BY <1>0, <1>2, BeginsDoes DEF StageBegins
  <2>2. InLine(run)' /\ \A i \in Stages : run.stages[i] = "done" => run'.stages[i] = "done"
    BY <1>0, <1>s, <2>1, MovesInLine DEF TypeOK, Line, InLine, Status
  <2>3. run.status = "running"
    BY <1>2, <1>i DEF StageBegins, Inside
  <2>4. QED
    BY <2>1, <2>2, <2>3
       DEF Marked, Like, Line, InLine, LedgerBehind, Honest, KeepsDone, WaitsOutside, Inside
<1>3. CASE Opened
  <2>1. Kept(run', run) /\ ledger' = run' /\ pc' = "begun" /\ run.status = "running"
    BY <1>0, <1>3, <1>i, ConvRun DEF Opened, Publish, Inside
  <2>2. QED
    BY <1>p, <1>s, <2>1 DEF WaitsOutside, Inside
<1>4. CASE StageThrows
  BY <1>4, <1>i, <1>l, <1>a DEF StageThrows, Inside
<1>5. CASE Driven
  BY <1>5, <1>u DEF Driven, WaitsOutside, Inside
<1>6. CASE InPlaceGate
  <2>1. CASE Aborted
    BY <1>6, <1>i, <1>a, <2>1 DEF InPlaceGate, Inside
  <2>2. CASE ~Aborted
    BY <1>6, <1>u, <2>2 DEF InPlaceGate, WaitsOutside, Inside
  <2>3. QED
    BY <2>1, <2>2
<1>7. CASE Gate
  <2>1. CASE Stall
    BY <1>7, <1>i, <1>l, <2>1 DEF Gate, Inside
  <2>2. CASE pc' \in {"handoff", "nudge"} /\ UNCHANGED <<run, ledger>>
    BY <1>u, <2>2 DEF WaitsOutside, Inside
  <2>3. QED
    BY <1>7, <2>1, <2>2 DEF Gate
<1>8. CASE RecordHandoff
  <2>1. run.cur <= N /\ run.status = "running"
    BY <1>8, <1>i DEF RecordHandoff, Control, InsideRuns, Inside
  <2>2. Past(run', run, "done") /\ ledger' = run'
    BY <1>0, <1>8, <2>1, HandoffDoes
  <2>3. Moves(run', run)
    BY <2>1, <2>2 DEF Moves, Status
  <2>4. WaitsOutside'
    BY <1>0, <2>2 DEF WaitsOutside, Past, Line, InLine
  <2>5. QED
    BY <1>p, <2>1, <2>2, <2>3, <2>4
<1>9. CASE NextStage
  <2>1. LoopTop /\ run.status = "running" /\ pc \notin Inside
    BY <1>9, <1>i DEF NextStage, Inside
  <2>2. QED
    BY <1>t, <2>1 DEF Terminal
<1>10. CASE LoopLeaves
  BY <1>10, <1>u DEF LoopLeaves, WaitsOutside, Inside
<1>11. ASSUME NEW reply \in Replies, TurnEnds(reply)
       PROVE  Line' /\ WaitsOutside' /\ KeepsDone
  <2>1. run.status # "none"
    BY <1>11, <1>i DEF TurnEnds, Inside
  <2>2. CASE AwaitUser
    <3>1. Like(run', run) /\ run'.stages = run.stages /\ ledger' = run' /\ run'.waiting
      BY <1>0, <2>2, AwaitUserDoes
    <3>2. QED
      BY <1>p, <1>s, <2>1, <3>1 DEF WaitsOutside
  <2>3. CASE pc' \in {"gate", "gate2"} /\ UNCHANGED <<run, ledger>>
    BY <1>u, <2>3 DEF WaitsOutside, Inside
  <2>4. QED
    BY <1>11, <1>a, <1>l, <2>1, <2>2, <2>3 DEF TurnEnds
<1>12. CASE Asks
  <2>1. /\ Like(run', run) /\ run'.stages = run.stages /\ ledger' = run'
    BY <1>0, <1>12, AsksDoes
  <2>2. run.status # "none" /\ WaitsOutside'
    BY <1>12, <1>i DEF Asks, loop, WaitsOutside, Inside
  <2>3. QED
    BY <1>p, <1>s, <2>1, <2>2
<1>13. CASE Commits
  BY <1>13, <1>u DEF Commits, loop, WaitsOutside
<1>14. CASE Pause
  <2>1. Kept(run', run) /\ run'.status = run.status /\ ledger' = run' /\ pc' = pc
        /\ run.status = "running"
    BY <1>0, <1>14, PauseDoes DEF Pause
  <2>2. WaitsOutside'
    BY <2>1 DEF WaitsOutside, Kept, Like
  <2>3. QED
    BY <1>p, <1>s, <2>1, <2>2
<1>15. CASE Resume
  <2>1. Kept(run', run) /\ ledger' = run' /\ pc' = pc /\ run.status \in Parked
    BY <1>0, <1>15, ResumeDoes DEF Resume, Restarts
  <2>2. WaitsOutside'
    BY <2>1 DEF WaitsOutside, Kept, Like, Parked, Terminal
  <2>3. QED
    BY <1>p, <1>s, <2>1, <2>2 DEF Parked
<1>16. CASE RetryStage
  <2>1. Marked(run', run, "pending") /\ ledger' = run' /\ run.status # "none"
    BY <1>0, <1>16, RetryDoes DEF RetryStage, Takes
  <2>2. WaitsOutside'
    BY <1>0, <2>1 DEF WaitsOutside, Marked, Like, Line, InLine
  <2>3. QED
    BY <1>p, <1>s, <2>1, <2>2 DEF Status
<1>17. CASE SkipStage
  <2>1. Past(run', run, "skipped") /\ ledger' = run' /\ run.status # "none" /\ run.cur <= N
    BY <1>0, <1>17, SkipDoes DEF SkipStage, NotRunning, Takes
  <2>2. WaitsOutside'
    BY <1>0, <2>1 DEF WaitsOutside, Past, Line, InLine
  <2>3. Moves(run', run)
    BY <2>1 DEF Moves, Status
  <2>4. QED
    BY <1>p, <2>1, <2>2, <2>3
<1>18. CASE Abort
  <2>1. /\ Kept(run', run) /\ ledger' = run' /\ pc' = pc /\ run.status # "none"
        /\ run.status \notin Terminal
    BY <1>0, <1>18, AbortDoes DEF Abort, Takes
  <2>2. WaitsOutside'
    BY <2>1 DEF WaitsOutside, Kept, Like
  <2>3. QED
    BY <1>p, <1>s, <2>1, <2>2
<1>19. CASE Start
  <2>1. /\ run'.id # ledger.id /\ \A i \in Stages : run'.stages[i] = "pending"
        /\ ledger' = ledger
    BY <1>0, <1>19, StartDoes DEF Start
  <2>2. QED
    BY <2>1 DEF Line, InLine, LedgerBehind, Honest, WaitsOutside, KeepsDone
<1>20. CASE Crash
  BY <1>20, NoRunYet
     DEF Crash, Line, InLine, LedgerBehind, Honest, WaitsOutside, KeepsDone
<1>21. CASE Rehydrate
  <2>1. ledger' = run' /\ run'.id = ledger.id /\ run'.cur = ledger.cur /\ run' \in Runs
    BY <1>0, <1>21, RehydrateDoes DEF Kept, Marked, Like
  <2>2. ledger.cur \in 1..N+1
    BY <1>0, RunFields
  <2>3. CASE Interrupted(ledger) /\ Marked(run', ledger, "failed")
    BY <2>1, <2>2, <2>3
       DEF Line, InLine, LedgerBehind, Honest, WaitsOutside, KeepsDone, Marked, Like, Stages
  <2>4. CASE ~Interrupted(ledger) /\ Kept(run', ledger)
    <3>1. \A i \in Stages : ledger.stages[i] # "active"
      BY <1>0, <2>2, <2>4 DEF Interrupted, Line, InLine, Stages
    <3>2. QED
      BY <2>1, <2>4, <3>1
         DEF Line, InLine, LedgerBehind, Honest, WaitsOutside, KeepsDone, Kept, Like
  <2>5. QED
    BY <1>0, <1>21, <2>3, <2>4, RehydrateDoes
<1>22. CASE UNCHANGED vars
  BY <1>22, <1>u DEF vars, loop, WaitsOutside
<1>23. QED
  BY <1>1, <1>2, <1>3, <1>4, <1>5, <1>6, <1>7, <1>8, <1>9, <1>10, <1>11, <1>12, <1>13,
     <1>14, <1>15, <1>16, <1>17, <1>18, <1>19, <1>20, <1>21, <1>22
     DEF Next, LoopStep, AgentStep, TurnOver, Action

-----------------------------------------------------------------------------
LEMMA InitIInv == Init => IInv
BY InitType, InitControl, InitLine DEF IInv

LEMMA NextIInv == IInv /\ [Next]_vars => IInv' /\ KeepsDone
BY NextType, NextControl, NextLine DEF IInv, Control

LEMMA Invariance == Spec => []IInv
<1>1. IInv /\ [Next]_vars => IInv'
  BY NextIInv
<1>2. QED
  BY <1>1, InitIInv, PTL DEF Spec

(* Every field of a run and of the loop keeps its type, whatever the pack, the
   actions and the restarts. *)
THEOREM TypeCorrect == Spec => []TypeOK
<1>1. IInv => TypeOK
  BY DEF IInv
<1>2. QED
  BY <1>1, Invariance, PTL

(* A run shown as running is driven, unless an action came too late. *)
THEOREM RunningIsDriven == Spec => []NoIdleRun
<1>1. IInv => NoIdleRun
  BY DEF IInv, Control
<1>2. QED
  BY <1>1, Invariance, PTL

(* A parked run, in memory or in the ledger, leaves no stage active but the one that
   waits for the user. *)
THEOREM ParkedIsHonest == Spec => []ParkedHonestly
<1>1. IInv => ParkedHonestly
  BY DEF IInv, Control, InsideRuns, Line, Honest, InLine, WaitsOutside, ParkedHonestly,
         Parked, Terminal
<1>2. QED
  BY <1>1, Invariance, PTL

(* A stage that the ledger has as done stays done while the run is in the ledger:
   no action and no restart prompts it again. *)
THEOREM HandedOffOnce == Spec => DoneIsFinal
<1>1. IInv /\ [Next]_vars =>
        [\A i \in Stages :
           ledger'.id = ledger.id /\ ledger.stages[i] = "done" => ledger'.stages[i] = "done"]_vars
  BY NextIInv DEF KeepsDone
<1>2. QED
  BY <1>1, Invariance, PTL DEF Spec, DoneIsFinal
=============================================================================
