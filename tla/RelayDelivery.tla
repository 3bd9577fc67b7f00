---------------------------- MODULE RelayDelivery ----------------------------
(***************************************************************************)
(* Delivery of commands by CommandRelayService                             *)
(* (services/command-relay.service.ts).  The backend keeps a queue per     *)
(* plugin and hands it out without removing anything (peek); only an ack   *)
(* removes ids.  The relay acks a batch as soon as it arrives, then runs   *)
(* its commands one after the other, skipping the ids it remembers.        *)
(* Batches that arrive on the stream are dispatched side by side; the poll *)
(* loop, which replaces the stream for good, waits for its batch before it *)
(* asks again.                                                             *)
(* The backend's queue is external: modelled from the relay's use of it.   *)
(***************************************************************************)
EXTENDS Naturals, Sequences, SequencesExt, FiniteSets

CONSTANTS
  Cmds,        \* command ids
  Unparsable,  \* those that toRemoteCommand() may refuse
  Slots,       \* bound: batches dispatched side by side
  Cap,         \* PROCESSED_ID_CAP
  MaxCrashes   \* bound: restarts of the CLI

VARIABLES
  queue,       \* the backend's queue
  pushed,      \* commands the clients have sent
  malformed,   \* those that it does refuse
  channel,     \* "stream", "poll", or the batch that the poll loop waits for
  acks,        \* ack POSTs in flight, each with its ids
  batch,       \* what is left of the batch each dispatch is working on
  running,     \* the dispatch is awaiting onCommand for its head
  processed,   \* processedIds, oldest first
  crashes,
  (* history *)
  ran,         \* commands handed to onCommand, in any life of the CLI
  once,        \* ... in this life
  evicted,     \* ids that fell out of processedIds since they last ran
  dropped      \* commands a crash took out of a batch

vars == <<queue, pushed, malformed, channel, acks, batch, running, processed, crashes, ran,
          once, evicted, dropped>>

InBatch == UNION {ToSet(batch[s]) : s \in Slots}

TypeOK ==
  /\ queue \in Seq(Cmds) /\ pushed \in SUBSET Cmds /\ malformed \in SUBSET Unparsable
  /\ channel \in {"stream", "poll"} \cup Slots
  /\ acks \in SUBSET (SUBSET Cmds)
  /\ batch \in [Slots -> Seq(Cmds)] /\ running \in [Slots -> BOOLEAN]
  /\ processed \in Seq(Cmds) /\ Len(processed) <= Cap
  /\ crashes \in 0..MaxCrashes
  /\ ran \in SUBSET Cmds /\ once \in SUBSET Cmds
  /\ evicted \in SUBSET Cmds /\ dropped \in SUBSET Cmds

Init ==
  /\ queue = <<>> /\ pushed = {} /\ acks = {} /\ channel = "stream"
  /\ malformed \in SUBSET Unparsable
  /\ batch = [s \in Slots |-> <<>>] /\ running = [s \in Slots |-> FALSE]
  /\ processed = <<>> /\ crashes = 0
  /\ ran = {} /\ once = {} /\ evicted = {} /\ dropped = {}

-----------------------------------------------------------------------------
Push(c) ==
  /\ c \notin pushed
  /\ pushed' = pushed \cup {c} /\ queue' = Append(queue, c)
  /\ UNCHANGED <<malformed, channel, acks, batch, running, processed, crashes, ran, once,
                 evicted, dropped>>

(* The stream has failed twice (RelayChannel). *)
StartPollingFallback ==
  /\ channel = "stream" /\ channel' = "poll"
  /\ UNCHANGED <<queue, pushed, malformed, acks, batch, running, processed, crashes, ran, once,
                 evicted, dropped>>

(* The poll loop waits for the handlers of its last batch. *)
MayPoll == channel = "poll"

(* The dispatch of s has come to `rest`; with the last command the poll loop goes on. *)
GoesOn(s, rest) ==
  /\ batch' = [batch EXCEPT ![s] = rest]
  /\ channel' = IF channel = s /\ rest = <<>> THEN "poll" ELSE channel

(* What q, which names a command once, has of the set S, in the order of q. *)
Filtered(q, S) ==
  {r \in BoundedSeq(Cmds, Len(q)) :
     /\ ToSet(r) = ToSet(q) \cap S
     /\ \A i, j \in DOMAIN r : i < j =>
          \E k, l \in DOMAIN q : k < l /\ q[k] = r[i] /\ q[l] = r[j]}

(* A stream frame brings all of the queue or the command just pushed, a poll all of
   it; what cannot be parsed is acked by itself and dropped, and the rest is acked
   before any of it runs. *)
Deliver(ids) ==
  LET free == {t \in Slots : batch[t] = <<>>}
      s == CHOOSE t \in free : TRUE
  IN
  /\ queue # <<>> /\ free # {}
  /\ \/ channel = "stream" /\ ids \in {ToSet(queue), {Last(queue)}} /\ UNCHANGED channel
     \/ MayPoll /\ ids = ToSet(queue) /\ channel' = IF ids \subseteq malformed THEN "poll" ELSE s
  /\ acks' = acks \cup ({ids \ malformed, ids \cap malformed} \ {{}})
  /\ \E valid \in Filtered(queue, ids \ malformed) : batch' = [batch EXCEPT ![s] = valid]
  /\ UNCHANGED <<queue, pushed, malformed, running, processed, crashes, ran, once,
                 evicted, dropped>>

(* The ack drains its ids, or fails and leaves them to be delivered again. *)
Drain(ids) == queue' \in Filtered(queue, Cmds \ ids)

AckLands(ids) ==
  /\ ids \in acks
  /\ acks' = acks \ {ids} /\ Drain(ids)
  /\ UNCHANGED <<pushed, malformed, channel, batch, running, processed, crashes, ran, once,
                 evicted, dropped>>

AckFails(ids) ==
  /\ ids \in acks
  /\ acks' = acks \ {ids}
  /\ UNCHANGED <<queue, pushed, malformed, channel, batch, running, processed, crashes, ran, once,
                 evicted, dropped>>

-----------------------------------------------------------------------------
(* The dispatch loop. *)
RememberProcessed(c) ==
  LET grown == Append(processed, c) IN
  IF Len(grown) > Cap
  THEN processed' = Tail(grown) /\ evicted' = (evicted \ {c}) \cup {Head(grown)}
  ELSE processed' = grown /\ evicted' = evicted \ {c}

Forgets(c) == FALSE                              \* fault: no dedupe
Seen(c) == c \in ToSet(processed)

Skip(s) ==
  /\ batch[s] # <<>> /\ ~running[s] /\ Seen(Head(batch[s]))
  /\ GoesOn(s, Tail(batch[s]))
  /\ UNCHANGED <<queue, pushed, malformed, acks, running, processed, crashes, ran, once,
                 evicted, dropped>>

RunCommand(s) ==
  LET c == Head(batch[s]) IN
  /\ batch[s] # <<>> /\ ~running[s] /\ ~Seen(c)
  /\ RememberProcessed(c)
  /\ running' = [running EXCEPT ![s] = TRUE]
  /\ ran' = ran \cup {c} /\ once' = once \cup {c}
  /\ UNCHANGED <<queue, pushed, malformed, channel, acks, batch, crashes, dropped>>

(* onCommand settles; a handler that throws does not stop the batch. *)
AbandonBatch(s) == <<>>                          \* fault: a throw ends the batch
RestOf(s) == Tail(batch[s])

Settle(s) ==
  /\ running[s]
  /\ running' = [running EXCEPT ![s] = FALSE]
  /\ GoesOn(s, RestOf(s))
  /\ UNCHANGED <<queue, pushed, malformed, acks, processed, crashes, ran, once, evicted,
                 dropped>>

(* The CLI dies and is started again: batches and memory are gone, while an ack
   on the wire may still land. *)
Crash ==
  /\ crashes < MaxCrashes
  /\ crashes' = crashes + 1
  /\ batch' = [s \in Slots |-> <<>>] /\ running' = [s \in Slots |-> FALSE]
  /\ channel' = "stream" /\ processed' = <<>> /\ once' = {} /\ evicted' = {}
  /\ dropped' = dropped \cup (InBatch \ ran)
  /\ UNCHANGED <<queue, pushed, malformed, acks, ran>>

GoesThrough(s) == Skip(s) \/ RunCommand(s)

Next ==
  \/ \E c \in Cmds : Push(c)
  \/ \E ids \in SUBSET Cmds : Deliver(ids)
  \/ \E ids \in acks : AckLands(ids) \/ AckFails(ids)
  \/ \E s \in Slots : GoesThrough(s) \/ Settle(s)
  \/ StartPollingFallback \/ Crash

Brings(c) == \E ids \in SUBSET Cmds : c \in ids /\ Deliver(ids)

(* The channel comes back after every outage and then brings what is queued, and
   the loop over a batch goes on; but a handler may be a turn that never ends. *)
Spec ==
  /\ Init /\ [][Next]_vars
  /\ \A c \in Cmds : SF_vars(Brings(c))
  /\ \A s \in Slots : WF_vars(GoesThrough(s))

-----------------------------------------------------------------------------
(* A command redelivered within one life of the CLI runs again only if its id
   was evicted since: no interleaving of batches lets it slip through the dedupe. *)
RunsAgain(s) == RunCommand(s) /\ Head(batch[s]) \in once
TwiceOnlyIfEvicted ==
  [][\A s \in Slots : RunsAgain(s) => Head(batch[s]) \in evicted]_vars

(* "so a redelivered "post to Slack" can't double-execute". *)
NeverTwice == [][\A s \in Slots : ~RunsAgain(s)]_vars

(* The queue forgets a command only once a process has it in hand: whatever is
   lost, is lost by a crash between the ack and the handler. *)
DrainedWasReceived ==
  pushed \subseteq ToSet(queue) \cup InBatch \cup ran \cup dropped \cup malformed

(* A handler is at work, and the command behind it in its batch, or the poll loop
   waits for its batch. *)
HeldUp(c) ==
  \E s \in Slots : running[s] /\ (channel = s \/ c \in ToSet(Tail(batch[s])))

(* Every command sent reaches a handler, or is taken by such a crash, or waits for a
   handler that never settles: behind it in its batch, or with the poll loop. *)
EveryCommandRuns ==
  \A c \in Cmds : (c \in pushed \ malformed ~> c \in ran \cup dropped) \/ <>[]HeldUp(c)

(* A command can come while another one is at work: the stop of a running prompt, or
   the answer to its question. *)
HeardWhileBusy == queue # <<>> /\ channel # "stream" => MayPoll
=============================================================================
