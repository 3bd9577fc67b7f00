-------------------------- MODULE TurnPipeline_proof --------------------------
(***************************************************************************)
(* Proofs about what carries a turn: the line of the turns (AcpTurns), for *)
(* any sets of commands; the chunks of the feed (ChunkCoalescer), for      *)
(* every set of chunk ids, every bound on the number of snapshots and      *)
(* every FINALIZED_MEMORY; and the changesets (FilesOutbox), for every set *)
(* of turns and every number of restarts.                                  *)
(***************************************************************************)
EXTENDS TurnPipeline, SequenceTheorems, TLAPS

-----------------------------------------------------------------------------
(* The chunks. *)

(* The finalized memory: remembering c keeps every remembered id remembered,
   apart from the one it reports as forgotten, and stays within Memory. *)
LEMMA Remember ==
  ASSUME NEW c \in Chunks, TypeOK, MarkFinalized(c)
  PROVE  /\ finalized' \in Seq(Chunks) /\ Len(finalized') <= Memory
         /\ forgotten' \in SUBSET Chunks
         /\ forgotten \subseteq forgotten'
         /\ \A d \in Chunks : IsFinalized(d) \/ d = c =>
               d \in forgotten' \/ \E i \in 1..Len(finalized') : finalized'[i] = d
<1> DEFINE grown == Append(finalized, c)
<1>1. /\ grown \in Seq(Chunks) /\ Len(grown) = Len(finalized) + 1
      /\ Len(grown) \in Nat /\ grown # <<>> /\ Len(finalized) \in Nat
      /\ \A i \in 1..Len(finalized) : grown[i] = finalized[i]
      /\ grown[Len(grown)] = c
  BY DEF TypeOK
<1>2. \A d \in Chunks : IsFinalized(d) \/ d = c => \E i \in 1..Len(grown) : grown[i] = d
  BY <1>1 DEF IsFinalized
<1>3. CASE Len(grown) > Memory
  <2>1. finalized' = Tail(grown) /\ forgotten' = forgotten \cup {Head(grown)}
    BY <1>3 DEF MarkFinalized
  <2>2. Head(grown) = grown[1] /\ Head(grown) \in Chunks
    BY <1>1
  <2>3. /\ Tail(grown) \in Seq(Chunks) /\ Len(Tail(grown)) = Len(grown) - 1
        /\ \A i \in 1..Len(grown) - 1 : Tail(grown)[i] = grown[i + 1]
    BY <1>1
  <2>4. ASSUME NEW d \in Chunks, IsFinalized(d) \/ d = c
        PROVE  d \in forgotten' \/ \E i \in 1..Len(finalized') : finalized'[i] = d
    <3>1. PICK i \in 1..Len(grown) : grown[i] = d
      BY <1>2, <2>4
    <3>2. CASE i = 1
      BY <3>1, <3>2, <2>1, <2>2
    <3>3. CASE i # 1
      <4>1. i - 1 \in 1..Len(grown) - 1 /\ Tail(grown)[i - 1] = d
        BY <3>1, <3>3, <2>3, <1>1
      <4>2. QED
        BY <4>1, <2>1, <2>3
    <3>4. QED
      BY <3>2, <3>3
  <2>5. Len(finalized') <= Memory
    BY <1>1, <2>1, <2>3, BoundsAssumption DEF TypeOK
  <2>6. QED
    BY <2>1, <2>2, <2>3, <2>4, <2>5 DEF TypeOK
<1>4. CASE ~(Len(grown) > Memory)
  <2>1. finalized' = grown /\ forgotten' = forgotten
    BY <1>4 DEF MarkFinalized
  <2>2. QED
    BY <2>1, <1>1, <1>2, <1>4, BoundsAssumption DEF TypeOK
<1>5. QED
  BY <1>3, <1>4

-----------------------------------------------------------------------------
(* What the code keeps true of one chunk's bookkeeping: state.pending is the
   newest snapshot accepted, and a chunk that got its final is remembered until
   it is evicted.  FinalIsLast is not inductive without these two. *)
PendingIsNewest == \A c \in Chunks : pending[c] \in {0, last[c]}

FinalIsRemembered == \A c \in Chunks \ forgotten : finals[c] # {} => IsFinalized(c)

IInv == TypeOK /\ PendingIsNewest /\ FinalIsRemembered /\ FinalIsLast

LEMMA InitIInv == Init => IInv
  BY BoundsAssumption
  DEF Init, IInv, TypeOK, Snap, PendingIsNewest, FinalIsRemembered, FinalIsLast

LEMMA PostTypes ==
  ASSUME TypeOK, NEW c \in Chunks, NEW n \in Snap, NEW W \in SUBSET Snap, Post(c, n, W)
  PROVE  /\ pending' \in [Chunks -> Snap] /\ pendingW' \in [Chunks -> SUBSET Snap]
         /\ inFlight' \in [Chunks -> Snap] /\ inFlightW' \in [Chunks -> SUBSET Snap]
         /\ timer' \in [Chunks -> BOOLEAN] /\ cool' \in [Chunks -> BOOLEAN]
         /\ posted' \in [Chunks -> Snap]
  BY BoundsAssumption DEF Post, TypeOK, Snap

(* Starting a request for a snapshot that is the newest accepted one. *)
LEMMA AcceptIInv ==
  ASSUME IInv, NEW c \in Chunks, NEW final \in BOOLEAN,
         SubmitNow(c, final) \/ SubmitParked(c, final)
  PROVE  IInv'
<1> USE DEF IInv
<1> DEFINE n == last[c] + 1
<1>1. /\ Accept(c, final) /\ ~IsFinalized(c) /\ n \in Snap /\ n # 0 /\ last[c] \in Snap
      /\ last' = [last EXCEPT ![c] = n]
  BY BoundsAssumption DEF SubmitNow, SubmitParked, Accept, TypeOK, Snap
<1>2. /\ \/ pending' = [pending EXCEPT ![c] = 0] /\ posted' = [posted EXCEPT ![c] = n]
         \/ pending' = [pending EXCEPT ![c] = n] /\ posted' = posted
      /\ pendingW' \in [Chunks -> SUBSET Snap]
      /\ inFlight' \in [Chunks -> Snap] /\ inFlightW' \in [Chunks -> SUBSET Snap]
      /\ timer' \in [Chunks -> BOOLEAN] /\ cool' \in [Chunks -> BOOLEAN]
      /\ pending' \in [Chunks -> Snap] /\ posted' \in [Chunks -> Snap]
  <2>1. WaitersWith(c) \in SUBSET Snap /\ (timer[c] \/ Idle(c)) \in BOOLEAN
    BY <1>1 DEF WaitersWith, Idle, TypeOK
  <2>2. CASE SubmitNow(c, final)
    BY <2>2, <2>1, <1>1, PostTypes DEF SubmitNow, Post, TypeOK
  <2>3. CASE SubmitParked(c, final)
    <3>1. timer' \in [Chunks -> BOOLEAN]
      BY <2>3, Zenon DEF SubmitParked, Park, TypeOK
    <3>2. QED
      BY <2>3, <2>1, <1>1, <3>1 DEF SubmitParked, Park, TypeOK, Snap
  <2>4. QED
    BY <2>2, <2>3
<1>3. /\ finalized' \in Seq(Chunks) /\ Len(finalized') <= Memory
      /\ forgotten' \in SUBSET Chunks /\ forgotten \subseteq forgotten'
      /\ \A d \in Chunks : IsFinalized(d) \/ (final /\ d = c) =>
            d \in forgotten' \/ \E i \in 1..Len(finalized') : finalized'[i] = d
  <2>1. CASE final
    BY <2>1, <1>1, Remember DEF Accept
  <2>2. CASE ~final
    BY <2>2, <1>1 DEF Accept, TypeOK, IsFinalized
  <2>3. QED
    BY <2>1, <2>2
<1>4. /\ finals' = IF final THEN [finals EXCEPT ![c] = @ \cup {n}] ELSE finals
      /\ UNCHANGED <<settled, flushing, flushGoal>>
  BY <1>1 DEF Accept
<1>5. TypeOK'
  <2>1. finals' \in [Chunks -> SUBSET Snap] /\ last' \in [Chunks -> Snap]
    BY <1>1, <1>4 DEF TypeOK
  <2>2. QED
    BY <1>2, <1>3, <1>4, <2>1 DEF TypeOK
<1>6. PendingIsNewest'
  BY <1>1, <1>2 DEF PendingIsNewest, TypeOK
<1>7. \A d \in Chunks \ forgotten' : d # c => last'[d] = last[d] /\ finals'[d] = finals[d]
                              /\ pending'[d] = pending[d] /\ posted'[d] = posted[d]
  BY <1>1, <1>2, <1>4 DEF TypeOK
<1>8. c \notin forgotten => finals[c] = {}
  BY <1>1 DEF FinalIsRemembered
<1>9. FinalIsRemembered'
  BY <1>3, <1>4, <1>7, <1>8 DEF FinalIsRemembered, IsFinalized, TypeOK
<1>10. FinalIsLast'
  <2> SUFFICES ASSUME NEW d \in Chunks \ forgotten', finals'[d] # {}
               PROVE  finals'[d] = {last'[d]} /\ last'[d] \in {pending'[d], posted'[d]}
    BY DEF FinalIsLast
  <2>1. CASE d # c
    BY <2>1, <1>3, <1>7 DEF FinalIsLast
  <2>2. CASE d = c
    <3>1. final /\ finals'[c] = {n} /\ last'[c] = n
      BY <2>2, <1>1, <1>3, <1>4, <1>8 DEF TypeOK
    <3>2. n \in {pending'[c], posted'[c]}
      BY <1>2 DEF TypeOK
    <3>3. QED
      BY <2>2, <3>1, <3>2
  <2>3. QED
    BY <2>1, <2>2
<1>11. QED
  BY <1>5, <1>6, <1>9, <1>10

(* Every other action leaves last, finals, finalized and forgotten alone and at
   most moves the pending snapshot of one chunk into a POST. *)
LEMMA SendIInv ==
  ASSUME IInv, TypeOK', UNCHANGED <<last, finals, finalized, forgotten>>,
         \/ UNCHANGED <<pending, posted>>
         \/ \E c \in Chunks : /\ pending[c] # 0
                              /\ pending' = [pending EXCEPT ![c] = 0]
                              /\ posted' = [posted EXCEPT ![c] = pending[c]]
  PROVE  IInv'
<1> USE DEF IInv
<1>1. PendingIsNewest'
  BY DEF PendingIsNewest, TypeOK
<1>2. FinalIsRemembered'
  BY DEF FinalIsRemembered, IsFinalized
<1>3. FinalIsLast'
  BY DEF FinalIsLast, PendingIsNewest, TypeOK
<1>4. QED
  BY <1>1, <1>2, <1>3

LEMMA NextIInv == IInv /\ [Next]_vars => IInv'
<1> SUFFICES ASSUME IInv, [Next]_vars PROVE IInv'
  OBVIOUS
<1> USE DEF history, state, Snap
<1>1. ASSUME NEW c \in Chunks, NEW final \in BOOLEAN,
             SubmitNow(c, final) \/ SubmitParked(c, final)
      PROVE  IInv'
  BY <1>1, AcceptIInv
<1>2. ASSUME NEW c \in Chunks, Elapse(c) PROVE IInv'
  <2>1. TypeOK'
    BY <1>2 DEF Elapse, IInv, TypeOK
  <2>2. QED
    BY <1>2, <2>1, SendIInv DEF Elapse
<1>3. ASSUME NEW c \in Chunks, TimerFires(c) PROVE IInv'
  <2>1. TypeOK'
    <3>1. CASE Post(c, pending[c], pendingW[c])
      BY <1>3, <3>1, PostTypes DEF TimerFires, IInv, TypeOK
    <3>2. CASE ~Post(c, pending[c], pendingW[c])
      BY <1>3, <3>2 DEF TimerFires, IInv, TypeOK
    <3>3. QED
      BY <3>1, <3>2
  <2>2. QED
    BY <1>3, <2>1, SendIInv DEF TimerFires, Post
<1>4. ASSUME NEW c \in Chunks, Complete(c) PROVE IInv'
  <2>1. TypeOK'
    <3>1. settled' \in [Chunks -> SUBSET Snap]
      BY <1>4 DEF Complete, Settle, ResolvedBy, IInv, TypeOK
    <3>0. flushing' \in SUBSET Chunks /\ flushGoal' \in [Chunks -> Snap]
      BY <1>4, BoundsAssumption DEF Complete, IInv, TypeOK, Snap
    <3>2. CASE Post(c, pending[c], pendingW[c])
      <4>1. UNCHANGED <<finalized, last, finals, forgotten>>
        BY <1>4 DEF Complete
      <4>2. QED
        BY <3>0, <3>1, <3>2, <4>1, PostTypes DEF IInv, TypeOK
    <3>3. CASE ~Post(c, pending[c], pendingW[c])
      <4>1. timer' \in [Chunks -> BOOLEAN] /\ cool' \in [Chunks -> BOOLEAN]
        <5> DEFINE rearmed == timer[c] \/ pending[c] # 0
                   stillCool == cool[c] /\ ~Ended(c)
        <5>1. rearmed \in BOOLEAN /\ stillCool \in BOOLEAN
          BY DEF Ended
        <5>2. /\ timer' = [timer EXCEPT ![c] = rearmed]
              /\ cool' = [cool EXCEPT ![c] = stillCool]
          BY <1>4, <3>3 DEF Complete
        <5> HIDE DEF rearmed, stillCool
        <5>3. QED
          BY <5>1, <5>2 DEF IInv, TypeOK
      <4>2. QED
        <5>1. inFlight' \in [Chunks -> Snap] /\ inFlightW' \in [Chunks -> SUBSET Snap]
          <6>1. /\ inFlight' = [inFlight EXCEPT ![c] = 0]
                /\ inFlightW' = [inFlightW EXCEPT ![c] = {}]
            BY <1>4, <3>3 DEF Complete
          <6>2. QED
            BY <6>1, BoundsAssumption DEF IInv, TypeOK
        <5>2. UNCHANGED <<pending, pendingW, posted, finalized, last, finals, forgotten>>
          BY <1>4, <3>3 DEF Complete
        <5>3. QED
          BY <3>0, <3>1, <4>1, <5>1, <5>2 DEF IInv, TypeOK
    <3>4. QED
      BY <3>2, <3>3
  <2>2. QED
    BY <1>4, <2>1, SendIInv DEF Complete, Post
<1>5. ASSUME NEW c \in Chunks, FlushStep(c) PROVE IInv'
  <2>1. CASE FlushHasMore(c)
    <3>1. TypeOK'
      BY <1>5, <2>1, PostTypes DEF FlushStep, IInv, TypeOK
    <3>2. QED
      BY <1>5, <2>1, <3>1, SendIInv DEF FlushStep, FlushHasMore, Post
  <2>2. CASE ~FlushHasMore(c)
    <3>1. TypeOK'
      <4>1. /\ flushing' = flushing \ {c} /\ flushGoal' = [flushGoal EXCEPT ![c] = 0]
            /\ UNCHANGED <<state, posted, finalized, last, finals, settled, forgotten>>
        BY <1>5, <2>2 DEF FlushStep
      <4>2. flushing' \in SUBSET Chunks /\ flushGoal' \in [Chunks -> Snap]
        BY <4>1, BoundsAssumption DEF IInv, TypeOK
      <4>3. QED
        BY <4>1, <4>2 DEF IInv, TypeOK
    <3>2. QED
      BY <1>5, <2>2, <3>1, SendIInv DEF FlushStep
  <2>3. QED
    BY <2>1, <2>2
<1>6. CASE Flush
  <2>1. TypeOK'
    BY <1>6 DEF Flush, IInv, TypeOK
  <2>2. QED
    BY <1>6, <2>1, SendIInv DEF Flush
<1>7. CASE UNCHANGED vars
  <2>1. TypeOK'
    BY <1>7 DEF vars, IInv, TypeOK
  <2>2. QED
    BY <1>7, <2>1, SendIInv DEF vars
<1>8. QED
  BY <1>1, <1>2, <1>3, <1>4, <1>5, <1>6, <1>7 DEF Next

-----------------------------------------------------------------------------
(* What makes it safe to tell the callers: of each chunk the request in flight is the
   latest POST, what is pending is newer, one of the two is the newest snapshot, and
   waiters are kept with a snapshot that is not older than theirs. *)
InOrder(c) ==
  /\ inFlight[c] # 0 => inFlight[c] = posted[c]
  /\ pending[c] # 0 => pending[c] > posted[c]
  /\ posted[c] <= last[c] /\ last[c] \in {pending[c], posted[c]}
  /\ flushGoal[c] <= last[c]

Waiting(c) ==
  /\ \A n \in pendingW[c] : n <= pending[c]
  /\ \A n \in inFlightW[c] : n <= inFlight[c]

Told(c) == \A n \in settled[c] : n <= posted[c] /\ (inFlight[c] # 0 => n < inFlight[c])

Books == \A c \in Chunks : InOrder(c) /\ Waiting(c) /\ Told(c)

LEMMA InitBooks == Init => Books
<1> SUFFICES ASSUME Init, NEW c \in Chunks PROVE InOrder(c) /\ Waiting(c) /\ Told(c)
  BY DEF Books
<1>1. /\ pending[c] = 0 /\ inFlight[c] = 0 /\ posted[c] = 0 /\ last[c] = 0
      /\ flushGoal[c] = 0 /\ pendingW[c] = {} /\ inFlightW[c] = {} /\ settled[c] = {}
  BY DEF Init
<1>2. QED
  BY <1>1 DEF InOrder, Waiting, Told

Kept(c) ==
  /\ pending'[c] = pending[c] /\ pendingW'[c] = pendingW[c]
  /\ inFlight'[c] = inFlight[c] /\ inFlightW'[c] = inFlightW[c]
  /\ last'[c] = last[c] /\ posted'[c] = posted[c] /\ settled'[c] = settled[c]
  /\ flushGoal'[c] = flushGoal[c]

(* A step that touches one chunk leaves the books of the others in order. *)
LEMMA OneChunk ==
  ASSUME Books, NEW c \in Chunks, \A d \in Chunks \ {c} : Kept(d),
         InOrder(c)', Waiting(c)', Told(c)'
  PROVE  Books'
<1>1. ASSUME NEW d \in Chunks, d # c PROVE InOrder(d)' /\ Waiting(d)' /\ Told(d)'
  BY <1>1 DEF Books, Kept, InOrder, Waiting, Told
<1>2. QED
  BY <1>1 DEF Books

LEMMA PostKeeps ==
  ASSUME TypeOK, NEW c \in Chunks, NEW n \in Snap, NEW W \in SUBSET Snap, Post(c, n, W)
  PROVE  /\ pending'[c] = 0 /\ pendingW'[c] = {} /\ inFlight'[c] = n
         /\ inFlightW'[c] = W /\ posted'[c] = n
         /\ \A d \in Chunks \ {c} :
               /\ pending'[d] = pending[d] /\ pendingW'[d] = pendingW[d]
               /\ inFlight'[d] = inFlight[d] /\ inFlightW'[d] = inFlightW[d]
               /\ posted'[d] = posted[d]
  BY DEF Post, TypeOK

(* A chunk whose pending snapshot goes out, with nothing older to be told later. *)
LEMMA PostInOrder ==
  ASSUME IInv, Books, NEW c \in Chunks, Post(c, pending[c], pendingW[c]), pending[c] # 0,
         UNCHANGED <<last, flushGoal>>,
         \/ UNCHANGED settled
         \/ inFlight[c] # 0 /\ settled' = [settled EXCEPT ![c] = @ \cup inFlightW[c]]
  PROVE  Books'
<1> USE DEF IInv
<1>1. pending[c] \in Snap /\ pendingW[c] \in SUBSET Snap
  BY DEF TypeOK
<1>2. InOrder(c)'
  <2>1. /\ pending[c] = last[c] /\ last[c] \in Nat /\ flushGoal[c] <= last[c]
        /\ last'[c] = last[c] /\ flushGoal'[c] = flushGoal[c]
    BY BoundsAssumption DEF Books, InOrder, PendingIsNewest, TypeOK, Snap
  <2>2. QED
    BY <1>1, <2>1, PostKeeps DEF InOrder
<1>3. Waiting(c)'
  BY <1>1, PostKeeps DEF Books, Waiting
<1>4. Told(c)'
  <2>1. \A n \in settled'[c] : n \in Nat /\ n <= posted[c]
    <3>1. settled'[c] \subseteq settled[c] \cup inFlightW[c]
      BY DEF TypeOK
    <3>2. inFlight[c] = 0 => settled'[c] = settled[c]
      OBVIOUS
    <3>3. \A n \in settled[c] : n \in Nat /\ n <= posted[c]
      BY BoundsAssumption DEF Books, Told, TypeOK, Snap
    <3>4. inFlight[c] # 0 => \A n \in inFlightW[c] : n \in Nat /\ n <= posted[c]
      BY BoundsAssumption DEF Books, Waiting, InOrder, TypeOK, Snap
    <3>5. QED
      BY <3>1, <3>2, <3>3, <3>4
  <2>2. pending[c] > posted[c] /\ pending[c] \in Nat /\ posted[c] \in Nat
    BY BoundsAssumption DEF Books, InOrder, TypeOK, Snap
  <2>3. QED
    BY <2>1, <2>2, <1>1, PostKeeps DEF Told
<1>5. \A d \in Chunks \ {c} : Kept(d)
  BY <1>1, PostKeeps DEF Kept, TypeOK
<1>6. QED
  BY <1>2, <1>3, <1>4, <1>5, OneChunk

LEMMA AcceptBooks ==
  ASSUME IInv, Books, NEW c \in Chunks, NEW final \in BOOLEAN,
         SubmitNow(c, final) \/ SubmitParked(c, final)
  PROVE  Books'
<1> USE DEF IInv
<1> DEFINE n == last[c] + 1
<1>0. /\ Accept(c, final) /\ n \in Snap /\ last[c] \in Nat
      /\ last' = [last EXCEPT ![c] = n]
      /\ settled' = settled /\ flushGoal' = flushGoal
  BY BoundsAssumption DEF SubmitNow, SubmitParked, Accept, TypeOK, Snap
<1>1. last'[c] = n /\ \A d \in Chunks \ {c} : last'[d] = last[d]
  BY <1>0 DEF TypeOK
<1>2. WaitersWith(c) \in SUBSET Snap /\ \A k \in WaitersWith(c) : k \in Nat /\ k <= n
  <2>1. pendingW[c] \in SUBSET Snap /\ WaitersWith(c) = pendingW[c] \cup {n}
    BY DEF WaitersWith, TypeOK
  <2>2. \A k \in pendingW[c] : k \in Nat /\ k <= pending[c]
    BY <2>1, BoundsAssumption DEF Books, Waiting, Snap
  <2>3. pending[c] <= last[c] /\ pending[c] \in Nat
    BY <1>0 DEF PendingIsNewest
  <2>4. QED
    BY <1>0, <2>1, <2>2, <2>3
<1>3. /\ posted[c] <= last[c] /\ posted[c] \in Nat /\ flushGoal[c] <= last[c]
      /\ flushGoal[c] \in Nat /\ \A k \in settled[c] : k \in Nat /\ k <= posted[c]
  BY BoundsAssumption DEF Books, InOrder, Told, TypeOK, Snap
<1>4. CASE SubmitNow(c, final)
  <2>1. Post(c, n, WaitersWith(c))
    BY <1>4 DEF SubmitNow
  <2>2. InOrder(c)' /\ Waiting(c)' /\ Told(c)'
    BY <1>0, <1>1, <1>2, <1>3, <2>1, PostKeeps DEF InOrder, Waiting, Told
  <2>3. \A d \in Chunks \ {c} : Kept(d)
    BY <1>0, <1>1, <1>2, <2>1, PostKeeps DEF Kept
  <2>4. QED
    BY <2>2, <2>3, OneChunk
<1>5. CASE SubmitParked(c, final)
  <2>1. /\ pending' = [pending EXCEPT ![c] = n]
        /\ pendingW' = [pendingW EXCEPT ![c] = WaitersWith(c)]
        /\ UNCHANGED <<inFlight, inFlightW, posted>>
    BY <1>5 DEF SubmitParked, Park
  <2>2. InOrder(c)'
    BY <1>0, <1>1, <1>3, <2>1 DEF Books, InOrder, TypeOK
  <2>3. Waiting(c)' /\ Told(c)'
    BY <1>0, <1>1, <1>2, <2>1 DEF Books, Waiting, Told, TypeOK
  <2>4. \A d \in Chunks \ {c} : Kept(d)
    BY <1>0, <1>1, <2>1 DEF Kept, TypeOK
  <2>5. QED
    BY <2>2, <2>3, <2>4, OneChunk
<1>6. QED
  BY <1>4, <1>5

(* When there is nothing pending, the latest POST is the newest snapshot. *)
LEMMA NothingNewer ==
  ASSUME TypeOK, Books, NEW c \in Chunks, pending[c] = 0
  PROVE  posted[c] = last[c] /\ posted[c] >= flushGoal[c]
  BY BoundsAssumption DEF Books, InOrder, TypeOK, Snap

LEMMA CompleteBooks ==
  ASSUME IInv, Books, NEW c \in Chunks, Complete(c)
  PROVE  Books'
<1> USE DEF IInv
<1>1. /\ inFlight[c] # 0 /\ settled' = [settled EXCEPT ![c] = @ \cup inFlightW[c]]
      /\ UNCHANGED last
      /\ flushGoal' = [flushGoal EXCEPT ![c] = IF Ended(c) THEN 0 ELSE @]
  BY DEF Complete, Settle, ResolvedBy
<1>2. CASE pending[c] # 0 /\ Post(c, pending[c], pendingW[c])
  <2>1. flushGoal' = flushGoal
    BY <1>1, <1>2 DEF Ended, TypeOK
  <2>2. QED
    BY <1>1, <1>2, <2>1, PostInOrder
<1>3. CASE /\ inFlight' = [inFlight EXCEPT ![c] = 0]
           /\ inFlightW' = [inFlightW EXCEPT ![c] = {}]
           /\ UNCHANGED <<pending, pendingW, posted>>
  <2>1. InOrder(c)'
    BY <1>1, <1>3, BoundsAssumption DEF Books, InOrder, TypeOK, Snap
  <2>2. Waiting(c)'
    BY <1>3 DEF Books, Waiting, TypeOK
  <2>3. Told(c)'
    BY <1>1, <1>3, BoundsAssumption DEF Books, Told, Waiting, InOrder, TypeOK, Snap
  <2>4. \A d \in Chunks \ {c} : Kept(d)
    BY <1>1, <1>3 DEF Kept, TypeOK
  <2>5. QED
    BY <2>1, <2>2, <2>3, <2>4, OneChunk
<1>4. QED
  BY <1>2, <1>3 DEF Complete

LEMMA SameBooks ==
  ASSUME Books, \A d \in Chunks : Kept(d)
  PROVE  Books'
  BY DEF Books, Kept, InOrder, Waiting, Told

LEMMA NextBooks == IInv /\ Books /\ [Next]_vars => Books'
<1> SUFFICES ASSUME IInv, Books, [Next]_vars PROVE Books'
  OBVIOUS
<1> USE DEF history, state
<1>1. ASSUME NEW c \in Chunks, NEW final \in BOOLEAN,
             SubmitNow(c, final) \/ SubmitParked(c, final)
      PROVE  Books'
  BY <1>1, AcceptBooks
<1>2. ASSUME NEW c \in Chunks, Elapse(c) PROVE Books'
  BY <1>2, SameBooks DEF Elapse, Kept
<1>3. ASSUME NEW c \in Chunks, TimerFires(c) PROVE Books'
  <2>1. CASE Idle(c) /\ pending[c] # 0
    BY <1>3, <2>1, PostInOrder DEF TimerFires
  <2>2. CASE ~(Idle(c) /\ pending[c] # 0)
    BY <1>3, <2>2, SameBooks DEF TimerFires, Kept
  <2>3. QED
    BY <2>1, <2>2
<1>4. ASSUME NEW c \in Chunks, Complete(c) PROVE Books'
  BY <1>4, CompleteBooks
<1>5. ASSUME NEW c \in Chunks, FlushStep(c) PROVE Books'
  <2>1. CASE FlushHasMore(c)
    BY <1>5, <2>1, PostInOrder DEF FlushStep, FlushHasMore
  <2>2. CASE ~FlushHasMore(c)
    <3>1. \A d \in Chunks \ {c} : Kept(d)
      BY <1>5, <2>2 DEF FlushStep, Kept, IInv, TypeOK
    <3>2. InOrder(c)' /\ Waiting(c)' /\ Told(c)'
      BY <1>5, <2>2, BoundsAssumption
      DEF FlushStep, Books, InOrder, Waiting, Told, IInv, TypeOK, Snap
    <3>3. QED
      BY <3>1, <3>2, OneChunk
  <2>3. QED
    BY <2>1, <2>2
<1>6. CASE Flush
  BY <1>6, BoundsAssumption DEF Flush, Books, InOrder, Waiting, Told, IInv, TypeOK, Snap
<1>7. CASE UNCHANGED vars
  BY <1>7, SameBooks DEF vars, Kept
<1>8. QED
  BY <1>1, <1>2, <1>3, <1>4, <1>5, <1>6, <1>7 DEF Next

(* flush() drops a chunk when its last request has ended, with nothing pending. *)
LEMMA FlushIsDone ==
  ASSUME IInv, Books, [Next]_vars, NEW c \in flushing \ flushing'
  PROVE  posted[c] >= flushGoal[c] /\ inFlight'[c] = 0
<1> USE DEF IInv
<1>1. c \in Chunks
  BY DEF TypeOK
<1>2. \/ Complete(c) /\ Ended(c)
      \/ FlushStep(c) /\ ~FlushHasMore(c)
  BY DEF Next, vars, history, state, SubmitNow, SubmitParked, Accept, Elapse, TimerFires,
         Complete, FlushStep, Flush
<1>3. pending[c] = 0
  BY <1>2 DEF Ended, FlushHasMore
<1>4. inFlight'[c] = 0
  BY <1>1, <1>2, <1>3 DEF Complete, FlushStep, FlushHasMore, state, TypeOK
<1>5. QED
  BY <1>1, <1>3, <1>4, NothingNewer

LEMMA NotTooEarly ==
  IInv /\ Books /\ [Next]_vars =>
    [/\ \A c \in Chunks : \A n \in settled'[c] :
          n <= posted'[c] /\ (inFlight'[c] # 0 => n < inFlight'[c])
     /\ \A c \in flushing \ flushing' : posted[c] >= flushGoal[c] /\ inFlight'[c] = 0]_vars
<1>1. Books' => \A c \in Chunks : \A n \in settled'[c] :
         n <= posted'[c] /\ (inFlight'[c] # 0 => n < inFlight'[c])
  BY DEF Books, Told
<1>2. QED
  BY <1>1, NextBooks, FlushIsDone

-----------------------------------------------------------------------------
(* The changesets. *)

(* The flush loop's account: once it has read the file, each line of it is still
   to be posted, in flight, to be written back, settled, or came too late. *)
BatchAccounted ==
  flush \in {"post", "rewrite"} => file \subseteq todo \cup posting \cup keep \cup done \cup raced

(* One POST is in flight at a time.  At the compaction nothing is left in the loop,
   and what is to be written back without a failed POST was put aside by stop(). *)
LoopOver ==
  /\ flush = "read" => keep = {}
  /\ \A t, u \in posting : t = u
  /\ flush = "rewrite" => todo = {} /\ posting = {}
  /\ flush \in {"post", "rewrite"} /\ keep # {} => failed \/ stopped

OutboxInv ==
  Outbox!TypeOK /\ BatchAccounted /\ LoopOver /\ Outbox!LostOnlyUnderFlush /\ Outbox!FlushToCome

LEMMA OutboxInit == Outbox!Init => OutboxInv
<1> SUFFICES ASSUME Outbox!Init PROVE OutboxInv
  OBVIOUS
<1>1. enq \in [TurnIds -> {"no", "append", "appended", "done"}] /\ crashes \in 0..MaxCrashes
  BY PipelineAssumption DEF Outbox!BoundIsNat, Outbox!Init
<1>2. QED
  BY <1>1 DEF Outbox!Init, OutboxInv, Outbox!TypeOK, BatchAccounted, LoopOver,
     Outbox!LostOnlyUnderFlush, Outbox!FlushToCome

LEMMA OutboxStep == OutboxInv /\ [Outbox!Next]_(Outbox!vars) => OutboxInv'
<1> SUFFICES ASSUME OutboxInv, [Outbox!Next]_(Outbox!vars) PROVE OutboxInv'
  OBVIOUS
<1> USE DEF OutboxInv, Outbox!TypeOK, BatchAccounted, LoopOver, Outbox!LostOnlyUnderFlush,
   Outbox!FlushToCome, Outbox!disk
<1>1. ASSUME NEW t \in TurnIds, Outbox!Enqueue(t) PROVE OutboxInv'
  BY <1>1 DEF Outbox!Enqueue, Outbox!loop, Outbox!hist
<1>2. ASSUME NEW t \in TurnIds, Outbox!Appended(t) PROVE OutboxInv'
  BY <1>2 DEF Outbox!Appended, Outbox!loop
<1>3. ASSUME NEW t \in TurnIds, Outbox!AppendFails(t) PROVE OutboxInv'
  BY <1>3 DEF Outbox!AppendFails, Outbox!loop, Outbox!hist
<1>4. ASSUME NEW t \in TurnIds, Outbox!Enqueued(t) PROVE OutboxInv'
  BY <1>4 DEF Outbox!Enqueued, Outbox!loop, Outbox!Armed
<1>5. CASE Outbox!Stop
  BY <1>5 DEF Outbox!Stop, Outbox!loop, Outbox!hist
<1>6. CASE Outbox!TimerFires
  BY <1>6 DEF Outbox!TimerFires, Outbox!MayFlush, Outbox!hist
<1>7. ASSUME NEW old \in SUBSET file, Outbox!ReadAll(old) PROVE OutboxInv'
  BY <1>7 DEF Outbox!ReadAll
<1>8. CASE Outbox!ReadFails
  BY <1>8 DEF Outbox!ReadFails, Outbox!loop
<1>9. ASSUME NEW t \in TurnIds, Outbox!PostStarts(t) PROVE OutboxInv'
  BY <1>9 DEF Outbox!PostStarts, Outbox!hist
<1>10. ASSUME NEW t \in TurnIds, Outbox!PostAccepted(t) PROVE OutboxInv'
  BY <1>10 DEF Outbox!PostAccepted
<1>11. ASSUME NEW t \in TurnIds, Outbox!PostFailed(t) PROVE OutboxInv'
  BY <1>11 DEF Outbox!PostFailed, Outbox!Kept, Outbox!hist
<1>12. ASSUME NEW t \in TurnIds, Outbox!KeptUnposted(t) PROVE OutboxInv'
  BY <1>12 DEF Outbox!KeptUnposted, Outbox!Kept, Outbox!hist
<1>13. CASE Outbox!LoopDone
  BY <1>13 DEF Outbox!LoopDone, Outbox!loop, Outbox!hist
<1>14. CASE Outbox!Rewritten
  BY <1>14 DEF Outbox!Rewritten, Outbox!RetryTimer, Outbox!Armed, Outbox!loop, Outbox!hist
<1>15. CASE Outbox!RewriteFails
  BY <1>15 DEF Outbox!RewriteFails, Outbox!loop
<1>16. CASE Outbox!Crash
  <2>1. enq' \in [TurnIds -> {"no", "append", "appended", "done"}] /\ crashes' \in 0..MaxCrashes
    BY <1>16, PipelineAssumption DEF Outbox!BoundIsNat, Outbox!Crash
  <2>2. QED
    BY <1>16, <2>1 DEF Outbox!Crash
<1>17. CASE UNCHANGED Outbox!vars
  BY <1>17 DEF Outbox!vars, Outbox!proc, Outbox!loop, Outbox!hist
<1>18. QED
  BY <1>1, <1>2, <1>3, <1>4, <1>5, <1>6, <1>7, <1>8, <1>9, <1>10, <1>11, <1>12, <1>13,
     <1>14, <1>15, <1>16, <1>17 DEF Outbox!Next, Outbox!FlushStep

-----------------------------------------------------------------------------
(* The line that the turns stand in. *)

(* A turn between its opening and its ack is at the head of the TurnQueue, a
   prompt in flight is at the head of the promptChain, and only turns open. *)
HeadOfQueue ==
  \A c \in Tasks : stage[c] \in Acp!Opened \cup {"ack"} => queue # <<>> /\ Head(queue) = c
HeadOfChain == \A c \in Acp!Turns : Acp!InFlight(c) => chain # <<>> /\ Head(chain) = c
OnlyTurnsOpen == \A c \in Acp!Cmds : stage[c] \in Acp!Opened => c \in Acp!Turns

TurnsInv == Acp!TypeOK /\ HeadOfQueue /\ HeadOfChain /\ OnlyTurnsOpen /\ Acp!CleanupSparesTasks

LEMMA TailOfSeq ==
  ASSUME NEW S, NEW s \in Seq(S), s # <<>> PROVE Tail(s) \in Seq(S)
OBVIOUS

LEMMA AppendedSeq ==
  ASSUME NEW S, NEW s \in Seq(S), NEW e \in S
  PROVE  /\ Append(s, e) \in Seq(S) /\ Append(s, e) # <<>>
         /\ s # <<>> => Head(Append(s, e)) = Head(s)
BY AppendProperties, HeadTailAppend

LEMMA TurnsInit == Acp!Init => TurnsInv
<1> SUFFICES ASSUME Acp!Init PROVE TurnsInv
  OBVIOUS
<1>1. Acp!TypeOK
  <2>1. stage \in [Acp!Cmds -> Acp!Opened \cup {"new", "received", "ack", "done"}]
    BY DEF Acp!Init
  <2>2. /\ hits \in SUBSET (Acp!Turns \X Acp!Turns)
        /\ cutOff \in SUBSET Acp!Turns /\ working \in SUBSET Acp!Turns
    BY DEF Acp!Init
  <2>3. queue \in Seq(Tasks) /\ chain \in Seq(Acp!Turns)
    BY DEF Acp!Init
  <2>4. QED
    BY <2>1, <2>2, <2>3 DEF Acp!Init, Acp!TypeOK
<1>2. QED
  BY <1>1 DEF Acp!Init, TurnsInv, HeadOfQueue, HeadOfChain, OnlyTurnsOpen, Acp!CleanupSparesTasks,
     Acp!InFlight, Acp!Opened, Acp!Cmds, Acp!Turns

LEMMA TurnsStep == TurnsInv /\ [Acp!Next]_(Acp!vars) => TurnsInv'
<1> SUFFICES ASSUME TurnsInv, [Acp!Next]_(Acp!vars) PROVE TurnsInv'
  OBVIOUS
<1> USE PipelineAssumption DEF Acp!KindsDisjoint, TurnsInv, Acp!TypeOK, HeadOfQueue, HeadOfChain,
   OnlyTurnsOpen,
   Acp!CleanupSparesTasks, Acp!InFlight, Acp!Opened, Acp!Cmds, Acp!Turns
<1>1. ASSUME NEW c \in Acp!Cmds, Acp!Receive(c) PROVE TurnsInv'
  <2>1. CASE c \in Tasks
    BY <1>1, <2>1, AppendedSeq DEF Acp!Receive, Acp!Goes, Acp!Enqueued
  <2>2. CASE c \notin Tasks
    BY <1>1, <2>2 DEF Acp!Receive, Acp!Goes, Acp!Enqueued
  <2>3. QED
    BY <2>1, <2>2
<1>2. ASSUME NEW c \in Acp!Cmds, Acp!OpenTurn(c) PROVE TurnsInv'
  BY <1>2 DEF Acp!OpenTurn, Acp!Goes, Acp!MayOpen
<1>3. ASSUME NEW c \in Acp!Cmds, Acp!Prompt(c) PROVE TurnsInv'
  BY <1>3, AppendedSeq DEF Acp!Prompt, Acp!Goes
<1>4. ASSUME NEW c \in Acp!Cmds, Acp!Send(c) PROVE TurnsInv'
  BY <1>4 DEF Acp!Send, Acp!Goes, Acp!MaySend
<1>5. ASSUME NEW c \in Acp!Cmds, Acp!Reply(c) PROVE TurnsInv'
  BY <1>5, TailOfSeq DEF Acp!Reply, Acp!Goes
<1>6. ASSUME NEW c \in Acp!Cmds, Acp!Reject(c) PROVE TurnsInv'
  BY <1>6, TailOfSeq DEF Acp!Reject, Acp!Goes, Acp!Unchain
<1>7. ASSUME NEW c \in Acp!Cmds, Acp!GivesUp(c) PROVE TurnsInv'
  BY <1>7 DEF Acp!GivesUp, Acp!Goes
<1>8. ASSUME NEW c \in Acp!Cmds, Acp!AbandonedSettles(c) PROVE TurnsInv'
  BY <1>8, TailOfSeq DEF Acp!AbandonedSettles, Acp!Goes, Acp!Unchain
<1>9. ASSUME NEW c \in Acp!Turns, Acp!AdapterDropsAbandoned(c) PROVE TurnsInv'
  BY <1>9 DEF Acp!AdapterDropsAbandoned
<1>10. ASSUME NEW c \in Acp!Cmds, Acp!Cleanup(c) PROVE TurnsInv'
  <2>1. c \in Acp!Turns
    BY <1>10 DEF Acp!Cleanup, Acp!Goes
  <2>2. ASSUME c \in Tasks, NEW d \in Tasks, Acp!InFlight(d) PROVE FALSE
    BY <1>10, <2>2 DEF Acp!Cleanup, Acp!Goes
  <2>3. hits' \in SUBSET (Acp!Turns \X Acp!Turns) /\ hits' \cap (Tasks \X Tasks) = {}
    BY <1>10, <2>1, <2>2 DEF Acp!Cleanup
  <2>4. QED
    BY <1>10, <2>3 DEF Acp!Cleanup, Acp!Goes
<1>11. ASSUME NEW c \in Acp!Cmds, Acp!Close(c) PROVE TurnsInv'
  BY <1>11 DEF Acp!Close
<1>12. ASSUME NEW c \in Acp!Cmds, Acp!Stop(c) PROVE TurnsInv'
  BY <1>12 DEF Acp!Stop, Acp!Goes
<1>13. ASSUME NEW c \in Acp!Cmds, Acp!Ack(c) PROVE TurnsInv'
  <2>1. handoff' \in {"no", "waiting", "released"} /\ cutOff' \in SUBSET Acp!Turns
    BY <1>13 DEF Acp!Ack, Acp!Release, Acp!IsOpen
  <2>2. CASE c \in Tasks
    BY <1>13, <2>1, <2>2, TailOfSeq DEF Acp!Ack, Acp!Goes
  <2>3. CASE c \notin Tasks
    BY <1>13, <2>1, <2>3 DEF Acp!Ack, Acp!Goes
  <2>4. QED
    BY <2>2, <2>3
<1>14. CASE Acp!HandOff
  BY <1>14 DEF Acp!HandOff, Acp!IsOpen
<1>15. CASE Acp!HoldOff \/ Acp!LetGo
  BY <1>15 DEF Acp!HoldOff, Acp!LetGo
<1>16. CASE UNCHANGED Acp!vars
  BY <1>16 DEF Acp!vars
<1>17. QED
  BY <1>1, <1>2, <1>3, <1>4, <1>5, <1>6, <1>7, <1>8, <1>9, <1>10, <1>11, <1>12,
     <1>13, <1>14, <1>15, <1>16
  DEF Acp!Next, Acp!HandlerStep, Acp!AdapterStep, Acp!IdleTrip, Acp!FatalError

-----------------------------------------------------------------------------
(* Refinement: which step of TurnLine each step is. *)
OpenTasks == {c \in Tasks : Acp!IsOpen(c)}
SomeAcked == \E c \in Tasks : stage[c] = "ack"

LEMMA QuietStep ==
  ASSUME UNCHANGED queue, OpenTasks' = OpenTasks, SomeAcked' = SomeAcked
  PROVE  [Acp!Line!Next]_<<queue, OpenTasks, SomeAcked>>
OBVIOUS

(* A handler step that changes neither the queue nor whether a start_task turn is
   open or acked shows nothing in TurnLine. *)
LEMMA SameTurns ==
  ASSUME TurnsInv, NEW c \in Acp!Cmds, NEW to, stage' = [stage EXCEPT ![c] = to], UNCHANGED queue,
         c \in Tasks => /\ stage[c] \in Acp!Opened <=> to \in Acp!Opened
                        /\ stage[c] # "ack" /\ to # "ack"
  PROVE  [Acp!Line!Next]_<<queue, OpenTasks, SomeAcked>>
<1>1. \A d \in Tasks : Acp!IsOpen(d)' <=> Acp!IsOpen(d)
  BY DEF TurnsInv, Acp!TypeOK, Acp!IsOpen, Acp!Cmds, Acp!Turns
<1>2. \A d \in Tasks : stage'[d] = "ack" <=> stage[d] = "ack"
  BY DEF TurnsInv, Acp!TypeOK, Acp!Cmds, Acp!Turns
<1>3. OpenTasks' = OpenTasks /\ SomeAcked' = SomeAcked
  BY <1>1, <1>2 DEF OpenTasks, SomeAcked
<1>4. QED
  BY <1>3, QuietStep

LEMMA InitLine == Acp!Init => Acp!Line!Init
<1> SUFFICES ASSUME Acp!Init PROVE Acp!Line!Init
  OBVIOUS
<1>1. \A c \in Tasks : ~Acp!IsOpen(c) /\ stage[c] # "ack"
  BY DEF Acp!Init, Acp!IsOpen, Acp!Opened, Acp!Cmds, Acp!Turns
<1>2. queue = <<>>
  BY DEF Acp!Init
<1>3. QED
  BY <1>1, <1>2 DEF Acp!Line!Init

LEMMA NextLine ==
  TurnsInv /\ [Acp!Next]_(Acp!vars) =>
    [Acp!Line!Next]_<<queue, OpenTasks, SomeAcked>>
<1> SUFFICES ASSUME TurnsInv, [Acp!Next]_(Acp!vars)
             PROVE  [Acp!Line!Next]_<<queue, OpenTasks, SomeAcked>>
  OBVIOUS
<1>1. ASSUME NEW c \in Acp!Cmds, Acp!Receive(c)
      PROVE  [Acp!Line!Next]_<<queue, OpenTasks, SomeAcked>>
  <2>1. CASE c \notin Tasks
    <3>1. UNCHANGED queue /\ \E to : stage' = [stage EXCEPT ![c] = to]
      BY <1>1, <2>1 DEF Acp!Receive, Acp!Goes, Acp!Enqueued
    <3>2. QED
      BY <2>1, <3>1, SameTurns
  <2>2. CASE c \in Tasks
    <3>1. stage[c] = "new" /\ stage' = [stage EXCEPT ![c] = "received"] /\ queue' = Append(queue, c)
      BY <1>1, <2>2, PipelineAssumption DEF Acp!KindsDisjoint, Acp!Receive, Acp!Goes, Acp!Enqueued
    <3>2. \A d \in Tasks : /\ Acp!IsOpen(d)' <=> Acp!IsOpen(d)
                           /\ stage'[d] = "ack" <=> stage[d] = "ack"
      BY <3>1 DEF TurnsInv, Acp!TypeOK, Acp!IsOpen, Acp!Opened, Acp!Cmds, Acp!Turns
    <3>3. OpenTasks' = OpenTasks /\ SomeAcked' = SomeAcked
      BY <3>2 DEF OpenTasks, SomeAcked
    <3>4. Acp!Line!Arrive(c)
      BY <3>1, <3>3 DEF Acp!Line!Arrive, OpenTasks, SomeAcked
    <3>5. QED
      BY <2>2, <3>4 DEF Acp!Line!Next
  <2>3. QED
    BY <2>1, <2>2
<1>2. ASSUME NEW c \in Acp!Cmds, Acp!OpenTurn(c)
      PROVE  [Acp!Line!Next]_<<queue, OpenTasks, SomeAcked>>
  <2>0. /\ c \in Acp!Turns /\ stage[c] = "received"
        /\ stage' = [stage EXCEPT ![c] = "open"] /\ UNCHANGED queue
    BY <1>2 DEF Acp!OpenTurn, Acp!Goes
  <2>1. CASE c \notin Tasks
    BY <2>0, <2>1, SameTurns
  <2>2. CASE c \in Tasks
    <3>1. queue # <<>> /\ Head(queue) = c
      BY <1>2, <2>2 DEF Acp!OpenTurn, Acp!MayOpen
    <3>2. \A d \in Tasks : ~Acp!IsOpen(d) /\ stage[d] # "ack"
      BY <2>0, <3>1 DEF TurnsInv, HeadOfQueue, Acp!IsOpen, Acp!Opened
    <3>3. \A d \in Tasks : (Acp!IsOpen(d)' <=> d = c) /\ stage'[d] # "ack"
      BY <2>0, <3>2 DEF TurnsInv, Acp!TypeOK, Acp!IsOpen, Acp!Opened, Acp!Cmds, Acp!Turns
    <3>4. OpenTasks = {} /\ OpenTasks' = {Head(queue)} /\ SomeAcked' = SomeAcked /\ ~SomeAcked
      BY <2>2, <3>1, <3>2, <3>3 DEF OpenTasks, SomeAcked
    <3>5. Acp!Line!Begin
      BY <2>0, <3>1, <3>4 DEF Acp!Line!Begin, OpenTasks, SomeAcked
    <3>6. QED
      BY <3>5 DEF Acp!Line!Next
  <2>3. QED
    BY <2>1, <2>2
<1>3. ASSUME NEW c \in Acp!Cmds,
             \/ Acp!Prompt(c) \/ Acp!Send(c) \/ Acp!Reply(c) \/ Acp!Reject(c)
             \/ Acp!GivesUp(c) \/ Acp!AbandonedSettles(c) \/ Acp!Cleanup(c)
      PROVE  [Acp!Line!Next]_<<queue, OpenTasks, SomeAcked>>
  <2>1. UNCHANGED queue
    BY <1>3 DEF Acp!Prompt, Acp!Send, Acp!Reply, Acp!Reject, Acp!GivesUp, Acp!AbandonedSettles,
       Acp!Cleanup
  <2>2. PICK to \in Acp!Opened : stage' = [stage EXCEPT ![c] = to] /\ stage[c] \in Acp!Opened
    BY <1>3 DEF Acp!Prompt, Acp!Send, Acp!Reply, Acp!Reject, Acp!GivesUp, Acp!AbandonedSettles,
       Acp!Cleanup, Acp!Goes, Acp!Opened
  <2>3. to # "ack" /\ stage[c] # "ack"
    BY <2>2 DEF Acp!Opened
  <2>4. QED
    BY <2>1, <2>2, <2>3, SameTurns
<1>4. ASSUME NEW c \in Acp!Cmds, Acp!Close(c) PROVE [Acp!Line!Next]_<<queue, OpenTasks, SomeAcked>>
  <2>0. stage[c] \in Acp!Opened /\ stage' = [stage EXCEPT ![c] = "ack"] /\ UNCHANGED queue
    BY <1>4 DEF Acp!Close, Acp!Opened
  <2>1. CASE c \notin Tasks
    BY <2>0, <2>1, SameTurns
  <2>2. CASE c \in Tasks
    <3>1. \A d \in Tasks : Acp!IsOpen(d) => d = c
      BY <2>0, <2>2 DEF TurnsInv, HeadOfQueue, Acp!IsOpen
    <3>2. \A d \in Tasks : ~Acp!IsOpen(d)'
      BY <2>0, <3>1 DEF TurnsInv, Acp!TypeOK, Acp!IsOpen, Acp!Opened, Acp!Cmds, Acp!Turns
    <3>3. Acp!IsOpen(c) /\ stage'[c] = "ack"
      BY <2>0, <2>2 DEF TurnsInv, Acp!TypeOK, Acp!IsOpen, Acp!Cmds, Acp!Turns
    <3>4. OpenTasks # {} /\ OpenTasks' = {} /\ SomeAcked'
      BY <2>2, <3>2, <3>3 DEF OpenTasks, SomeAcked
    <3>5. Acp!Line!End
      BY <2>0, <3>4 DEF Acp!Line!End, OpenTasks, SomeAcked
    <3>6. QED
      BY <3>5 DEF Acp!Line!Next
  <2>3. QED
    BY <2>1, <2>2
<1>5. ASSUME NEW c \in Acp!Cmds, Acp!Stop(c) PROVE [Acp!Line!Next]_<<queue, OpenTasks, SomeAcked>>
  <2>1. c \notin Tasks
    BY <1>5, PipelineAssumption DEF Acp!KindsDisjoint, Acp!Stop
  <2>2. QED
    BY <1>5, <2>1, SameTurns DEF Acp!Stop, Acp!Goes
<1>6. ASSUME NEW c \in Acp!Cmds, Acp!Ack(c) PROVE [Acp!Line!Next]_<<queue, OpenTasks, SomeAcked>>
  <2>0. stage[c] = "ack" /\ stage' = [stage EXCEPT ![c] = "done"]
    BY <1>6 DEF Acp!Ack, Acp!Goes
  <2>1. CASE c \notin Tasks
    BY <1>6, <2>0, <2>1, SameTurns DEF Acp!Ack
  <2>2. CASE c \in Tasks
    <3>1. queue # <<>> /\ queue' = Tail(queue)
      BY <1>6, <2>0, <2>2 DEF Acp!Ack, TurnsInv, HeadOfQueue
    <3>2. \A d \in Tasks : stage[d] = "ack" => d = c
      BY <2>0, <2>2 DEF TurnsInv, HeadOfQueue
    <3>3. \A d \in Tasks : stage'[d] # "ack" /\ (Acp!IsOpen(d)' <=> Acp!IsOpen(d))
      BY <2>0, <3>2 DEF TurnsInv, Acp!TypeOK, Acp!IsOpen, Acp!Opened, Acp!Cmds, Acp!Turns
    <3>4. SomeAcked /\ ~SomeAcked' /\ OpenTasks' = OpenTasks
      BY <2>0, <2>2, <3>3 DEF SomeAcked, OpenTasks
    <3>5. Acp!Line!Leave
      BY <3>1, <3>4 DEF Acp!Line!Leave, OpenTasks, SomeAcked
    <3>6. QED
      BY <3>5 DEF Acp!Line!Next
  <2>3. QED
    BY <2>1, <2>2
<1>7. CASE \/ \E c \in Acp!Turns : Acp!AdapterDropsAbandoned(c)
           \/ Acp!HoldOff \/ Acp!LetGo \/ Acp!HandOff
           \/ UNCHANGED Acp!vars
  <2>1. UNCHANGED <<stage, queue>>
    BY <1>7 DEF Acp!AdapterDropsAbandoned, Acp!HoldOff, Acp!LetGo, Acp!HandOff, Acp!vars
  <2>2. QED
    BY <2>1, QuietStep DEF OpenTasks, SomeAcked, Acp!IsOpen
<1>8. ASSUME NEW c \in Acp!Cmds, Acp!HandlerStep(c)
      PROVE  [Acp!Line!Next]_<<queue, OpenTasks, SomeAcked>>
  BY <1>2, <1>3, <1>4, <1>5, <1>6, <1>8 DEF Acp!HandlerStep, Acp!IdleTrip
<1>9. CASE Acp!AdapterStep
  BY <1>3, <1>7, <1>9 DEF Acp!AdapterStep, Acp!FatalError, Acp!Cmds
<1>10. QED
  BY <1>1, <1>7, <1>8, <1>9 DEF Acp!Next

-----------------------------------------------------------------------------
(* Together. *)
PipelineInv == IInv /\ Books /\ OutboxInv /\ TurnsInv

LEMMA PipelineStart == PipelineInit => PipelineInv
BY InitIInv, InitBooks, OutboxInit, TurnsInit DEF PipelineInit, PipelineInv

LEMMA StepOfOne ==
  [PipelineNext]_pipelineVars =>
    [Next]_vars /\ [Outbox!Next]_(Outbox!vars) /\ [Acp!Next]_(Acp!vars)
<1> SUFFICES ASSUME [PipelineNext]_pipelineVars
             PROVE  [Next]_vars /\ [Outbox!Next]_(Outbox!vars) /\ [Acp!Next]_(Acp!vars)
  OBVIOUS
<1>1. UNCHANGED outboxVars => UNCHANGED Outbox!vars
  BY DEF outboxVars, Outbox!vars, Outbox!disk, Outbox!proc, Outbox!loop, Outbox!hist
<1>2. UNCHANGED turnVars => UNCHANGED Acp!vars
  BY DEF turnVars, Acp!vars
<1>3. QED
  BY <1>1, <1>2 DEF PipelineNext, TurnMoves, ChunkMoves, OutboxMoves, pipelineVars

LEMMA PipelineStep == PipelineInv /\ [PipelineNext]_pipelineVars => PipelineInv'
BY StepOfOne, NextIInv, NextBooks, OutboxStep, TurnsStep DEF PipelineInv

LEMMA PipelineInvariant == PipelineSpec => []PipelineInv
BY PipelineStart, PipelineStep, PTL DEF PipelineSpec

(* Every variable keeps its type: the finalized memory stays within its bound, and one
   flush, and one POST of it, runs at a time. *)
THEOREM TypeCorrect == PipelineSpec => [](TypeOK /\ Outbox!TypeOK /\ Acp!TypeOK)
<1>1. PipelineInv => TypeOK /\ Outbox!TypeOK /\ Acp!TypeOK
  BY DEF PipelineInv, IInv, OutboxInv, TurnsInv
<1>2. QED
  BY <1>1, PipelineInvariant, PTL

(* A final snapshot is never lost or overtaken: until its id is evicted it is
   the newest of its chunk and either pending or the latest POST. *)
THEOREM FinalStaysLast == PipelineSpec => []FinalIsLast
<1>1. PipelineInv => FinalIsLast
  BY DEF PipelineInv, IInv
<1>2. QED
  BY <1>1, PipelineInvariant, PTL

(* Nobody is told too early: a promise of submit resolves after the snapshot it stands
   for, or a newer one, was sent, and flush() returns when all that came before it was. *)
THEOREM ReturnsOnceSent == PipelineSpec => ReturnsWhenSent
<1>1. PipelineInv /\ [PipelineNext]_pipelineVars =>
        [/\ \A c \in Chunks : \A n \in settled'[c] :
              n <= posted'[c] /\ (inFlight'[c] # 0 => n < inFlight'[c])
         /\ \A c \in flushing \ flushing' : posted[c] >= flushGoal[c] /\ inFlight'[c] = 0]_vars
  BY StepOfOne, NotTooEarly DEF PipelineInv
<1>2. QED
  BY <1>1, PipelineInvariant, PTL DEF PipelineSpec, ReturnsWhenSent

(* enqueue() and flush() lose no whole line that was on disk when the flush read the
   file, whatever the backend answers, whatever read, append or compaction fails and
   wherever the process dies. *)
THEOREM NoLossButUnderFlush == PipelineSpec => []LostOnlyUnderFlush
<1>1. PipelineInv => LostOnlyUnderFlush
  BY DEF PipelineInv, OutboxInv, LostOnlyUnderFlush
<1>2. QED
  BY <1>1, PipelineInvariant, PTL

(* The file is never left without a flush to come, but by a stop(), a restart, or a
   read or a compaction that fails; and then only until the next enqueue(). *)
THEOREM AlwaysAFlushToCome == PipelineSpec => []FlushToCome
<1>1. PipelineInv => FlushToCome
  BY DEF PipelineInv, OutboxInv, FlushToCome
<1>2. QED
  BY <1>1, PipelineInvariant, PTL

(* The TurnQueue keeps start_task turns apart, whatever other handlers, failures
   and cancels happen beside them. *)
THEOREM TasksOneAtATime == PipelineSpec => []Acp!OneTaskTurn
<1>1. PipelineInv => Acp!OneTaskTurn
  BY DEF PipelineInv, TurnsInv, HeadOfQueue, Acp!OneTaskTurn, Acp!IsOpen
<1>2. QED
  BY <1>1, PipelineInvariant, PTL

(* The promptChain keeps prompts apart, abandoned ones included. *)
THEOREM PromptsOneAtATime == PipelineSpec => []OnePrompt
<1>1. PipelineInv => OnePrompt
  BY DEF PipelineInv, TurnsInv, HeadOfChain, OnePrompt, Acp!OnePrompt
<1>2. QED
  BY <1>1, PipelineInvariant, PTL

(* A failed start_task's cancel never lands on the next one's turn. *)
THEOREM CleanupCancelsOwnTask == PipelineSpec => []CleanupSparesTasks
<1>1. PipelineInv => CleanupSparesTasks
  BY DEF PipelineInv, TurnsInv, CleanupSparesTasks
<1>2. QED
  BY <1>1, PipelineInvariant, PTL

(* start_task turns are served first come, first served, one at a time: AcpTurns
   implements TurnLine, with any mix of other handlers beside them. *)
THEOREM ImplementsTurnLine == PipelineSpec => FirstComeFirstServed
<1>1. [Acp!Line!Next]_<<queue, OpenTasks, SomeAcked>>
        <=> [Acp!Line!Next]_<<queue, {c \in Tasks : Acp!IsOpen(c)},
                              \E c \in Tasks : stage[c] = "ack">>
  BY DEF OpenTasks, SomeAcked
<1>2. PipelineInv /\ [PipelineNext]_pipelineVars =>
        [Acp!Line!Next]_<<queue, OpenTasks, SomeAcked>>
  BY StepOfOne, NextLine DEF PipelineInv
<1>3. PipelineInit => Acp!Line!Init
  BY InitLine DEF PipelineInit
<1>4. QED
  BY <1>1, <1>2, <1>3, PipelineInvariant, PTL
     DEF PipelineSpec, FirstComeFirstServed, Acp!FirstComeFirstServed, Acp!Line!Spec
=============================================================================
