----------------------------- MODULE FilesOutbox -----------------------------
(***************************************************************************)
(* FilesOutbox (services/turn-files/files-outbox.ts): the on-disk queue of *)
(* end-of-turn changesets.  A batch is appended to the session's file, and *)
(* a flush loop reads the file, posts every entry and writes back the ones *)
(* to retry.  One step is one await: appendFile, readFile, one POST, and   *)
(* the rename (or unlink) of the compaction.  The delay of a retry timer   *)
(* (back-off, jitter) is abstracted to "armed".                            *)
(***************************************************************************)
EXTENDS FiniteSets, Naturals

CONSTANTS
  Turns,        \* turnIds, one entry each
  MaxCrashes    \* bound: restarts of the process

BoundIsNat == MaxCrashes \in Nat

VARIABLES
  file,         \* entries in <sessionId>.jsonl
  torn,         \* the file ends in the middle of a line
  enq,          \* where the enqueue() of a turn is
  timer,        \* flushTimer is armed
  flush,        \* where the flush() in progress is, "idle" if flushing is false
  todo,         \* entries of the loop not looked at yet
  posting,      \* the entry whose POST is in flight, if any
  keep,         \* stillPending
  failed,       \* anyFailed
  stopped,
  crashes,
  (* history *)
  durable,      \* entries whose append has reached the disk
  settled,      \* accepted by the backend, refused for good, or too old
  raced,        \* appended after the flush in progress had read the file
  spoilt,       \* appended to a torn end
  stalled       \* a read or a compaction failed, or the process is a fresh one

loop == <<todo, posting, keep, failed>>
proc == <<enq, timer, flush, loop, stopped>>
disk == <<file, torn>>
hist == <<durable, settled, raced, spoilt, stalled>>
vars == <<disk, proc, crashes, hist>>

TypeOK ==
  /\ file \in SUBSET Turns /\ torn \in BOOLEAN
  /\ todo \in SUBSET Turns /\ posting \in SUBSET Turns /\ keep \in SUBSET Turns
  /\ posting # {} => flush = "post"
  /\ enq \in [Turns -> {"no", "append", "appended", "done"}]
  /\ flush \in {"idle", "read", "post", "rewrite"}
  /\ timer \in BOOLEAN /\ failed \in BOOLEAN /\ stopped \in BOOLEAN
  /\ crashes \in 0..MaxCrashes
  /\ durable \in SUBSET Turns /\ settled \in SUBSET Turns /\ raced \in SUBSET Turns
  /\ spoilt \in SUBSET Turns /\ stalled \in BOOLEAN

Init ==
  /\ file = {} /\ torn = FALSE /\ enq = [t \in Turns |-> "no"] /\ timer = FALSE
  /\ flush = "idle" /\ todo = {} /\ posting = {} /\ keep = {} /\ failed = FALSE
  /\ stopped = FALSE /\ crashes = 0
  /\ durable = {} /\ settled = {} /\ raced = {} /\ spoilt = {} /\ stalled = FALSE

-----------------------------------------------------------------------------
(* scheduleFlush(): (re-)arm the one timer, unless stopped. *)
NeverArmed == FALSE                              \* fault: the schedule is dropped
Armed == ~stopped

Enqueue(t) ==
  /\ enq[t] = "no"
  /\ enq' = [enq EXCEPT ![t] = "append"]
  /\ UNCHANGED <<disk, timer, flush, loop, stopped, crashes, hist>>

(* appendFile: the line is on disk.  After a torn end it makes one malformed line
   with what is there, which readAll() skips and a compaction leaves out. *)
Appended(t) ==
  /\ enq[t] = "append"
  /\ enq' = [enq EXCEPT ![t] = "appended"]
  /\ torn' = FALSE /\ durable' = durable \cup {t}
  /\ IF torn THEN spoilt' = spoilt \cup {t} /\ UNCHANGED <<file, raced>>
     ELSE /\ file' = file \cup {t} /\ UNCHANGED spoilt
          /\ raced' = IF flush \in {"post", "rewrite"} THEN raced \cup {t} ELSE raced
  /\ UNCHANGED <<timer, flush, loop, stopped, crashes, settled, stalled>>

(* appendFile rejects, and enqueue() with it: part of the line may be there. *)
AppendFails(t) ==
  /\ enq[t] = "append"
  /\ enq' = [enq EXCEPT ![t] = "done"]
  /\ torn' \in {torn, TRUE}
  /\ UNCHANGED <<file, timer, flush, loop, stopped, crashes, hist>>

Enqueued(t) ==
  /\ enq[t] = "appended"
  /\ enq' = [enq EXCEPT ![t] = "done"]
  /\ timer' = Armed
  /\ stalled' = FALSE
  /\ UNCHANGED <<disk, flush, loop, stopped, crashes, durable, settled, raced, spoilt>>

Stop ==
  /\ ~stopped
  /\ stopped' = TRUE /\ timer' = FALSE
  /\ UNCHANGED <<disk, enq, flush, loop, crashes, hist>>

-----------------------------------------------------------------------------
(* The timer fires: flush() starts unless one is in progress. *)
MayFlush == flush = "idle"

TimerFires ==
  /\ timer
  /\ timer' = FALSE
  /\ IF MayFlush
     THEN flush' = "read" /\ todo' = {} /\ keep' = {} /\ failed' = FALSE
     ELSE UNCHANGED <<flush, todo, keep, failed>>
  /\ UNCHANGED <<disk, enq, posting, stopped, crashes, hist>>

(* readAll() and the purge of the entries older than MAX_AGE_MS. *)
ReadAll(old) ==
  /\ flush = "read" /\ old \subseteq file
  /\ todo' = file \ old
  /\ settled' = settled \cup old
  /\ flush' = IF file = {} THEN "idle" ELSE "post"
  /\ UNCHANGED <<disk, enq, timer, posting, keep, failed, stopped, crashes, durable, raced, spoilt, stalled>>

(* A file that cannot be read counts as an empty one: the flush ends with the
   entries on disk, and schedules nothing. *)
ReadFails ==
  /\ flush = "read" /\ file # {}
  /\ flush' = "idle" /\ stalled' = TRUE
  /\ UNCHANGED <<disk, enq, timer, loop, stopped, crashes, durable, settled, raced, spoilt>>

KeepNothing(t) == keep                           \* fault: a failed entry is not kept
Kept(t) == keep \cup {t}

(* The loop: one POST at a time, accepted, refused because the session is gone
   (404/410), or to be retried; once stopped, the rest is kept without a POST.
   The backend may have accepted a POST whose answer was lost: its turnId makes
   the retry harmless. *)
PostStarts(t) ==
  /\ flush = "post" /\ posting = {} /\ t \in todo /\ ~stopped
  /\ todo' = todo \ {t} /\ posting' = {t}
  /\ UNCHANGED <<disk, enq, timer, flush, keep, failed, stopped, crashes, hist>>

PostAccepted(t) ==
  /\ t \in posting
  /\ posting' = {} /\ settled' = settled \cup {t}
  /\ UNCHANGED <<disk, enq, timer, flush, todo, keep, failed, stopped, crashes, durable, raced, spoilt, stalled>>

PostFailed(t) ==
  /\ t \in posting
  /\ posting' = {} /\ keep' = Kept(t) /\ failed' = TRUE
  /\ UNCHANGED <<disk, enq, timer, flush, todo, stopped, crashes, hist>>

KeptUnposted(t) ==
  /\ flush = "post" /\ posting = {} /\ t \in todo /\ stopped
  /\ todo' = todo \ {t} /\ keep' = Kept(t)
  /\ UNCHANGED <<disk, enq, timer, flush, posting, failed, stopped, crashes, hist>>

LoopDone ==
  /\ flush = "post" /\ todo = {} /\ posting = {}
  /\ flush' = "rewrite"
  /\ UNCHANGED <<disk, enq, timer, loop, stopped, crashes, hist>>

(* rewrite(stillPending), and the tail that re-schedules after a failure. *)
TailForgets == timer                             \* fault: no retry scheduled
RetryTimer == IF failed THEN Armed ELSE timer

Rewritten ==
  /\ flush = "rewrite"
  /\ file' = keep /\ torn' = FALSE /\ flush' = "idle"
  /\ timer' = RetryTimer
  /\ UNCHANGED <<enq, loop, stopped, crashes, hist>>

(* The new file cannot be written or renamed, which skips the tail; or the old one
   cannot be unlinked, which is swallowed, and the tail has no failure to retry. *)
RewriteFails ==
  /\ flush = "rewrite"
  /\ flush' = "idle" /\ stalled' = TRUE
  /\ UNCHANGED <<disk, enq, timer, loop, stopped, crashes, durable, settled, raced, spoilt>>

(* The process dies at any point, in the middle of an append too, and a new one takes
   the session over: memory is gone, and no flush runs before its first enqueue(). *)
Crash ==
  /\ crashes < MaxCrashes
  /\ crashes' = crashes + 1
  /\ torn' \in IF \E t \in Turns : enq[t] = "append" THEN {torn, TRUE} ELSE {torn}
  /\ enq' = [t \in Turns |-> IF enq[t] = "no" THEN "no" ELSE "done"]
  /\ timer' = FALSE /\ flush' = "idle" /\ todo' = {} /\ posting' = {} /\ keep' = {} /\ failed' = FALSE
  /\ stopped' = FALSE /\ stalled' = TRUE
  /\ UNCHANGED <<file, durable, settled, raced, spoilt>>

FlushStep ==
  \/ \E old \in SUBSET file : ReadAll(old)
  \/ ReadFails
  \/ \E t \in Turns : PostStarts(t) \/ PostAccepted(t) \/ PostFailed(t) \/ KeptUnposted(t)
  \/ LoopDone \/ Rewritten \/ RewriteFails

Next ==
  \/ \E t \in Turns : Enqueue(t) \/ Appended(t) \/ AppendFails(t) \/ Enqueued(t)
  \/ Stop \/ TimerFires \/ FlushStep \/ Crash

(* Timers fire and awaited calls settle; the backend answers for good now and
   then, so a POST that is retried for ever is accepted once. *)
Fairness ==
  /\ WF_vars(TimerFires) /\ WF_vars(FlushStep)
  /\ \A t \in Turns : WF_vars(Enqueued(t)) /\ SF_vars(PostAccepted(t))

Spec == Init /\ [][Next]_vars /\ Fairness

-----------------------------------------------------------------------------
(* An entry that reached the disk leaves it only settled, crashes, failures and
   stop() included, unless it was appended under a flush or to a torn end. *)
LostOnlyUnderFlush == durable \subseteq file \cup settled \cup raced \cup spoilt

(* While something is on disk a flush is running or armed, or will be armed by
   the enqueue in progress, except after a stop(), a read or a compaction that
   failed or a restart, until the next enqueue(): nobody else would ever look. *)
FlushToCome ==
  file # {} /\ ~stopped /\ ~stalled =>
    timer \/ flush # "idle" \/ \E t \in Turns : enq[t] = "appended"

(* The first line of enqueue()'s comment, "Returns once the line is durable on
   disk", with the class comment's "never loses data"; an entry that made a torn line
   longer is on disk as well, where nobody can read it. *)
NothingLost == durable \subseteq file \cup settled \cup spoilt

(* A queued entry is settled in the end, as long as nothing stops the loop and no
   read or compaction fails. *)
QueueDrains ==
  \A t \in Turns : t \in durable \ (raced \cup spoilt) ~> t \in settled \/ stopped \/ stalled
=============================================================================
