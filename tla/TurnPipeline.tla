---------------------------- MODULE TurnPipeline ----------------------------
(***************************************************************************)
(* What carries a turn: its place in the line of turns (AcpTurns), the     *)
(* chunks it streams (ChunkCoalescer) and the changeset it leaves behind   *)
(* (FilesOutbox).  None reads what another writes; so a behaviour follows  *)
(* one of them.                                                            *)
(***************************************************************************)
EXTENDS ChunkCoalescer

CONSTANTS
  TurnIds, MaxCrashes,              \* FilesOutbox
  Tasks, Mentions, Stops, Queries   \* AcpTurns

VARIABLES
  part,        \* the component that the behaviour follows
  file, torn, enq, flushTimer, flush, todo, posting, keep, failed, stopped, crashes,
  durable, done, raced, spoilt, stalled,
  stage,       \* where the handler of each command is
  queue, chain,
  working,     \* turns the adapter is working on
  held, turnActive, handoff, hits, cutOff

Outbox == INSTANCE FilesOutbox WITH Turns <- TurnIds, timer <- flushTimer, settled <- done
Acp == INSTANCE AcpTurns WITH pc <- stage, adapter <- working

ASSUME PipelineAssumption == Outbox!BoundIsNat /\ Acp!KindsDisjoint

outboxVars == <<file, torn, enq, flushTimer, flush, todo, posting, keep, failed, stopped, crashes,
                durable, done, raced, spoilt, stalled>>
turnVars == <<stage, queue, chain, working, held, turnActive, handoff, hits, cutOff>>
pipelineVars == <<part, vars, outboxVars, turnVars>>

PipelineInit ==
  /\ part \in {"turns", "chunks", "outbox"}
  /\ Init /\ Outbox!Init /\ Acp!Init

TurnMoves == part = "turns" /\ Acp!Next /\ UNCHANGED <<part, vars, outboxVars>>
ChunkMoves == part = "chunks" /\ Next /\ UNCHANGED <<part, outboxVars, turnVars>>
OutboxMoves == part = "outbox" /\ Outbox!Next /\ UNCHANGED <<part, vars, turnVars>>

PipelineNext == TurnMoves \/ ChunkMoves \/ OutboxMoves

(* Handlers are awaited code, and the watchdog is a timer; requests settle
   and timers fire; and the backend answers for good now and then, so a changeset that is posted for ever is accepted once. *)
PipelineSpec ==
  /\ PipelineInit /\ [][PipelineNext]_pipelineVars
  /\ \A c \in Acp!Cmds : WF_turnVars(part = "turns" /\ Acp!HandlerStep(c))
  /\ \A c \in Chunks :
       /\ WF_vars(part = "chunks" /\ Elapse(c)) /\ WF_vars(part = "chunks" /\ TimerFires(c))
       /\ WF_vars(part = "chunks" /\ Complete(c)) /\ WF_vars(part = "chunks" /\ FlushStep(c))
  /\ WF_outboxVars(part = "outbox" /\ Outbox!TimerFires)
  /\ WF_outboxVars(part = "outbox" /\ Outbox!FlushStep)
  /\ \A t \in TurnIds :
       /\ WF_outboxVars(part = "outbox" /\ Outbox!Enqueued(t))
       /\ SF_outboxVars(part = "outbox" /\ Outbox!PostAccepted(t))

-----------------------------------------------------------------------------
(* AcpClient's watchdog and tool ledger are single fields: two prompts are never
   in flight, whichever handlers sent them. *)
OnePrompt == Acp!OnePrompt

(* The cancel that cleans up after a failed start_task never reaches the turn of
   another start_task. *)
CleanupSparesTasks == Acp!CleanupSparesTasks

(* start_task turns behave as TurnLine says: opened in the order they arrived, one
   at a time, and gone from the queue only after their last frame. *)
FirstComeFirstServed == Acp!FirstComeFirstServed


(* An entry that reached the disk leaves it only settled, crashes, failures and
   stop() included, unless it was appended under a flush or to a torn end. *)
LostOnlyUnderFlush == Outbox!LostOnlyUnderFlush

(* While something is on disk a flush is running or armed, or will be, except after
   a stop(), a read or a compaction that failed or a restart, until the next enqueue(). *)
FlushToCome == Outbox!FlushToCome

(* A queued entry is settled in the end, as long as nothing stops the loop and no
   read or compaction fails. *)
QueueDrains == Outbox!QueueDrains
=============================================================================
