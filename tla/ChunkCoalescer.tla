--------------------------- MODULE ChunkCoalescer ---------------------------
(***************************************************************************)
(* StreamingChunkCoalescer (services/streaming/chunk-coalescer.ts): the    *)
(* latest-wins pacing of the streaming-chunk feed, one state per chunkId.  *)
(*                                                                         *)
(* A snapshot is its number: the n-th one submitted for a chunk carries n, *)
(* and since snapshots are cumulative a larger number replaces a smaller   *)
(* one.  0 stands for "none".  finals[c] remembers which numbers were      *)
(* submitted with isFinal.  Time is kept as one bit, cool[c]: the spacing  *)
(* interval since the last POST of c has not elapsed yet.                  *)
(***************************************************************************)
EXTENDS Naturals, Sequences

CONSTANTS
  Chunks,      \* chunkIds
  MaxSnap,     \* bound: snapshots submitted per chunk
  Memory       \* FINALIZED_MEMORY

ASSUME BoundsAssumption == /\ MaxSnap \in Nat \ {0}
                           /\ Memory \in Nat \ {0}

VARIABLES
  pending,     \* state.pending.event
  pendingW,    \* state.pending.waiters, by the snapshot each one submitted
  inFlight,    \* the event of state.inFlight
  inFlightW,   \* the waiters its completion resolves
  timer,       \* state.timer is armed
  cool,        \* less than intervalFor() since state.lastSentAt
  finalized,   \* the finalized Set, in insertion order
  flushing,    \* chunks a flush() call is still waiting for
  (* history *)
  last,        \* newest snapshot accepted
  finals,      \* accepted snapshots that were final
  posted,      \* snapshot of the latest POST started
  settled,     \* submissions whose promise has resolved
  forgotten,   \* chunks evicted from finalized
  flushGoal    \* newest snapshot accepted when the flush was called

state   == <<pending, pendingW, inFlight, inFlightW, timer, cool>>
history == <<last, finals, posted, settled, forgotten, flushGoal>>
vars    == <<state, finalized, flushing, history>>

Snap == 0..MaxSnap

(* Operators marked "fault" are regressions the properties must detect; no
   action uses them. *)

NeverFinalized(c) == FALSE                       \* fault: no finalized check
IsFinalized(c) == \E i \in 1..Len(finalized) : finalized[i] = c

TypeOK ==
  /\ pending \in [Chunks -> Snap]
  /\ pendingW \in [Chunks -> SUBSET Snap]
  /\ inFlight \in [Chunks -> Snap]
  /\ inFlightW \in [Chunks -> SUBSET Snap]
  /\ timer \in [Chunks -> BOOLEAN]
  /\ cool \in [Chunks -> BOOLEAN]
  /\ finalized \in Seq(Chunks) /\ Len(finalized) <= Memory
  /\ flushing \in SUBSET Chunks
  /\ last \in [Chunks -> Snap]
  /\ finals \in [Chunks -> SUBSET Snap]
  /\ posted \in [Chunks -> Snap]
  /\ settled \in [Chunks -> SUBSET Snap]
  /\ forgotten \in SUBSET Chunks
  /\ flushGoal \in [Chunks -> Snap]

Init ==
  /\ pending = [c \in Chunks |-> 0]
  /\ pendingW = [c \in Chunks |-> {}]
  /\ inFlight = [c \in Chunks |-> 0]
  /\ inFlightW = [c \in Chunks |-> {}]
  /\ timer = [c \in Chunks |-> FALSE]
  /\ cool = [c \in Chunks |-> FALSE]
  /\ finalized = <<>>
  /\ flushing = {}
  /\ last = [c \in Chunks |-> 0]
  /\ finals = [c \in Chunks |-> {}]
  /\ posted = [c \in Chunks |-> 0]
  /\ settled = [c \in Chunks |-> {}]
  /\ forgotten = {}
  /\ flushGoal = [c \in Chunks |-> 0]

-----------------------------------------------------------------------------
(* drain and schedule write the whole per-chunk state, given the snapshot n
   and the waiters W found in state.pending.                               *)

(* schedule() sends at once: no timer armed and the spacing is over. *)
SpacingOver(c) == ~timer[c] /\ ~cool[c]

Post(c, n, W) ==
  /\ pending' = [pending EXCEPT ![c] = 0]
  /\ pendingW' = [pendingW EXCEPT ![c] = {}]
  /\ inFlight' = [inFlight EXCEPT ![c] = n]
  /\ inFlightW' = [inFlightW EXCEPT ![c] = W]
  /\ timer' = [timer EXCEPT ![c] = FALSE]
  /\ cool' = [cool EXCEPT ![c] = TRUE]
  /\ posted' = [posted EXCEPT ![c] = n]

Park(c, n, W, armed) ==
  /\ pending' = [pending EXCEPT ![c] = n]
  /\ pendingW' = [pendingW EXCEPT ![c] = W]
  /\ timer' = [timer EXCEPT ![c] = armed]
  /\ UNCHANGED <<cool, posted>>

(* A new request may start. *)
Idle(c) == inFlight[c] = 0

(* markFinalized: remember c, evict the oldest id past the memory. *)
MarkFinalized(c) ==
  LET grown == Append(finalized, c) IN
  IF Len(grown) > Memory
  THEN /\ finalized' = Tail(grown)
       /\ forgotten' = forgotten \cup {Head(grown)}
  ELSE /\ finalized' = grown
       /\ UNCHANGED forgotten

Settle(c, W) == settled' = [settled EXCEPT ![c] = @ \cup W]

(* submit(event), one action per outcome. *)
Accept(c, final) ==
  /\ ~IsFinalized(c)
  /\ last[c] < MaxSnap
  /\ last' = [last EXCEPT ![c] = @ + 1]
  /\ finals' = IF final THEN [finals EXCEPT ![c] = @ \cup {last[c] + 1}] ELSE finals
  /\ IF final THEN MarkFinalized(c) ELSE UNCHANGED <<finalized, forgotten>>
  /\ UNCHANGED <<settled, flushing, flushGoal>>

OnlyNewWaiter(c) == {last[c] + 1}                \* fault: drops older waiters
WaitersWith(c) == pendingW[c] \cup {last[c] + 1}

SubmitNow(c, final) ==
  /\ Accept(c, final)
  /\ Idle(c)
  /\ final \/ SpacingOver(c)
  /\ Post(c, last[c] + 1, WaitersWith(c))

SubmitParked(c, final) ==
  /\ Accept(c, final)
  /\ \/ ~Idle(c)
     \/ ~final /\ ~SpacingOver(c)
  /\ Park(c, last[c] + 1, WaitersWith(c), timer[c] \/ Idle(c))
  /\ UNCHANGED <<inFlight, inFlightW>>

(* The spacing interval elapses.  A timer is armed for exactly what is left
   of it, so it can fire from then on. *)
Elapse(c) ==
  /\ cool[c]
  /\ cool' = [cool EXCEPT ![c] = FALSE]
  /\ UNCHANGED <<pending, pendingW, inFlight, inFlightW, timer, finalized, flushing, history>>

(* The timer callback.  timer[c] implies a pending snapshot and no request in
   flight, or a request that a flush started, in which case it was cleared. *)
TimerFires(c) ==
  /\ timer[c] /\ ~cool[c]
  /\ IF Idle(c) /\ pending[c] # 0
     THEN Post(c, pending[c], pendingW[c])
     ELSE /\ timer' = [timer EXCEPT ![c] = FALSE]
          /\ UNCHANGED <<pending, pendingW, inFlight, inFlightW, cool, posted>>
  /\ UNCHANGED <<finalized, flushing, last, finals, settled, forgotten, flushGoal>>

ResolvedBy(c) == inFlightW[c]

(* The request settles: resolve its waiters, then send what is pending (a
   final at once, anything else through schedule).  A final with nothing behind
   it deletes the chunk's state, lastSentAt with it: a flush that waits for that
   state is through with the chunk, and the id starts afresh. *)
Ended(c) == pending[c] = 0 /\ inFlight[c] \in finals[c]

Complete(c) ==
  /\ inFlight[c] # 0
  /\ Settle(c, ResolvedBy(c))
  /\ IF pending[c] # 0 /\ (pending[c] \in finals[c] \/ SpacingOver(c))
     THEN Post(c, pending[c], pendingW[c])
     ELSE /\ inFlight' = [inFlight EXCEPT ![c] = 0]
          /\ inFlightW' = [inFlightW EXCEPT ![c] = {}]
          /\ timer' = [timer EXCEPT ![c] = @ \/ pending[c] # 0]
          /\ cool' = [cool EXCEPT ![c] = @ /\ ~Ended(c)]
          /\ UNCHANGED <<pending, pendingW, posted>>
  /\ flushing' = IF Ended(c) THEN flushing \ {c} ELSE flushing
  /\ flushGoal' = [flushGoal EXCEPT ![c] = IF Ended(c) THEN 0 ELSE @]
  /\ UNCHANGED <<finalized, last, finals, forgotten>>

(* flush(): wait for every chunk that has a request or a pending snapshot. *)
Flush ==
  /\ flushing = {}
  /\ flushing' = {c \in Chunks : inFlight[c] # 0 \/ pending[c] # 0}
  /\ flushGoal' = [c \in Chunks |-> IF c \in flushing' THEN last[c] ELSE 0]
  /\ flushing' # {}
  /\ UNCHANGED <<state, finalized, last, finals, posted, settled, forgotten>>

FlushForgetsPending(c) == FALSE                  \* fault: waits for requests only
FlushHasMore(c) == pending[c] # 0

(* One turn of flush's loop for a chunk with nothing in flight. *)
FlushStep(c) ==
  /\ c \in flushing /\ inFlight[c] = 0
  /\ IF FlushHasMore(c)
     THEN Post(c, pending[c], pendingW[c]) /\ UNCHANGED <<flushing, flushGoal>>
     ELSE /\ flushing' = flushing \ {c}
          /\ flushGoal' = [flushGoal EXCEPT ![c] = 0]
          /\ UNCHANGED <<state, posted>>
  /\ UNCHANGED <<finalized, last, finals, settled, forgotten>>

Next ==
  \/ \E c \in Chunks, final \in BOOLEAN : SubmitNow(c, final) \/ SubmitParked(c, final)
  \/ \E c \in Chunks : Elapse(c) \/ TimerFires(c) \/ Complete(c) \/ FlushStep(c)
  \/ Flush

(* send() settles (the publisher bounds every request), and timers fire. *)
Fairness ==
  \A c \in Chunks : /\ WF_vars(Elapse(c)) /\ WF_vars(TimerFires(c))
                    /\ WF_vars(Complete(c)) /\ WF_vars(FlushStep(c))

Spec == Init /\ [][Next]_vars /\ Fairness

-----------------------------------------------------------------------------
(* A final snapshot is never lost: while its id is remembered it is the newest
   one of its chunk, and it is either still pending or already the last POST
   (submit/markFinalized: "it is always the last POST of its chunkId"). *)
FinalIsLast ==
  \A c \in Chunks \ forgotten :
    finals[c] # {} => /\ finals[c] = {last[c]}
                      /\ last[c] \in {pending[c], posted[c]}

(* Nobody is told too early: the promise of submit resolves only once the submitted
   snapshot, or a newer one that superseded it, has gone out and its request has
   settled; and flush() returns for a chunk only when everything accepted before the
   call has been sent (used on shutdown "so the latest content is not lost"). *)
ReturnsWhenSent ==
  [][/\ \A c \in Chunks : \A n \in settled'[c] :
          n <= posted'[c] /\ (inFlight'[c] # 0 => n < inFlight'[c])
     /\ \A c \in flushing \ flushing' : posted[c] >= flushGoal[c] /\ inFlight'[c] = 0]_vars

(* When a POST of a chunk may start: never next to another one of that chunk,
   never with an older snapshot, and within the spacing interval only for a
   final snapshot or a flush. *)
PacedPosts ==
  [][\A c \in Chunks : posted'[c] # posted[c] =>
        /\ posted'[c] > posted[c]
        /\ inFlight[c] # 0 => settled'[c] # settled[c]
        /\ cool[c] => posted'[c] \in finals'[c] \/ c \in flushing]_vars

(* Time and again every accepted snapshot is sent or superseded: no waiter hangs. *)
EverySubmitSettles == []<>(\A c \in Chunks : 1..last[c] \subseteq settled[c])
=============================================================================
