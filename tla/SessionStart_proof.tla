-------------------------- MODULE SessionStart_proof --------------------------
(***************************************************************************)
(* Proofs about SessionStart, for any number of processes, commands and    *)
(* dispatches and any size of the memory of ids: of the provisioning lock, *)
(* of the delivery of commands and of the gate that holds them back.  A    *)
(* behaviour of the sum moves one of the three, which keeps its invariant, *)
(* and leaves the other two alone.                                         *)
(***************************************************************************)
EXTENDS SessionStart, SequenceTheorems, FiniteSetTheorems, TLAPS

-----------------------------------------------------------------------------
(* The lock.  Those that have it and those that have made the directory and are
   writing their pid. *)
Inside == Holders \cup {p \in Procs : pc[p] \in Making}

(* As long as nothing was stolen and nobody outstayed: the directory was made by the
   one process inside, and bears no pid but its maker's; a process about to remove the
   directory it has judged finds nobody inside, one about to release its own made it. *)
OneInside ==
  ~stolen /\ ~outstayed =>
    /\ \A p \in Inside : maker = p
    /\ owner \in Procs => maker = owner
    /\ \A q \in Procs : pc[q] = "remove" /\ same[q] => maker \notin Inside
    /\ \A q \in Procs : pc[q] = "releaseRm" /\ same[q] => maker = q

LockInv == TypeOK /\ OneInside

LEMMA LockInit == Init => LockInv
<1> SUFFICES ASSUME Init PROVE LockInv
  OBVIOUS
<1>1. errors \in 0..MaxErrors /\ owner \notin Procs
  BY LockAssumption DEF Init
<1>2. TypeOK
  <2>1. pc \in [Procs -> Steps] /\ seenAge \in [Procs -> 0..2] /\ same \in [Procs -> BOOLEAN]
    BY DEF Init, Steps, Acquiring
  <2>2. opened \in SUBSET Procs /\ unlocked \in SUBSET Procs /\ maker = NoPid
    BY DEF Init
  <2>3. \A p \in Procs : seenAge[p] = 0
    BY DEF Init
  <2>4. /\ dir \in BOOLEAN /\ stolen \in BOOLEAN /\ outstayed \in BOOLEAN
        /\ owner = NoPid /\ age = 0 /\ opened = {}
    BY DEF Init
  <2>5. QED
    BY <1>1, <2>1, <2>2, <2>3, <2>4 DEF TypeOK
<1>3. OneInside
  BY <1>1 DEF Init, OneInside, Inside, Holders, Making
<1>4. QED
  BY <1>2, <1>3 DEF LockInv

(* A process goes from one step to another, and errors are counted up to the bound. *)
LEMMA LockMovesOn ==
  ASSUME TypeOK, [Next]_vars
  PROVE  pc' \in [Procs -> Steps] /\ errors' \in 0..MaxErrors
<1> USE DEF TypeOK, Goto, lockv, Steps, Acquiring, Making
<1>1. \A p \in Procs, l \in Steps : Goto(p, l) => pc' \in [Procs -> Steps]
  OBVIOUS
<1>2. Errs => errors' \in 0..MaxErrors
  BY LockAssumption DEF Errs
<1>3. \A p \in Procs : CannotLock(p) => pc' \in [Procs -> Steps]
  BY <1>1 DEF CannotLock
<1> HIDE DEF TypeOK, Goto
<1>4. ASSUME NEW p \in Procs, Run(p) \/ RunAnyway(p) \/ FnSettles(p) \/ Crash(p)
      PROVE  pc' \in [Procs -> Steps]
  <2>1. CASE Crash(p)
    BY <1>1, <2>1 DEF Crash, Goto
  <2>2. CASE ~Crash(p)
    BY <1>1, <1>3, <1>4, <2>2 DEF Run, Mkdir, MkdirAgain, OpenPid, WritePid, Stat, ReadPid, Remove,
       ReleaseRm, TryAgain, RunAnyway, FnSettles, AfterFn, Release
  <2>3. QED
    BY <2>1, <2>2
<1>5. ASSUME NEW p \in Procs, Run(p) \/ RunAnyway(p) \/ FnSettles(p) \/ Crash(p)
      PROVE  errors' \in 0..MaxErrors
  <2>1. errors \in 0..MaxErrors
    BY DEF TypeOK
  <2>2. QED
    BY <1>2, <1>5, <2>1 DEF Run, Mkdir, MkdirAgain, OpenPid, WritePid, Stat, ReadPid, Remove, RemoveDir,
       RemoveFails, ReleaseRm, TryAgain, RunAnyway, FnSettles, Release, Crash, ErrsUnless
<1>6. CASE Ages \/ UNCHANGED vars
  BY <1>6 DEF Ages, vars, TypeOK
<1>7. QED
  BY <1>4, <1>5, <1>6 DEF Next

LEMMA LockTypeStep == TypeOK /\ [Next]_vars => TypeOK'
<1> SUFFICES ASSUME TypeOK, [Next]_vars PROVE TypeOK'
  OBVIOUS
<1>t. pc' \in [Procs -> Steps] /\ errors' \in 0..MaxErrors
  BY LockMovesOn
<1> USE <1>t, LockAssumption DEF TypeOK, Goto, lockv
<1>1. ASSUME NEW p \in Procs, Mkdir(p) PROVE TypeOK'
  BY <1>1 DEF Mkdir, Makes, MakeDir, CannotLock
<1>2. ASSUME NEW p \in Procs, MkdirAgain(p) PROVE TypeOK'
  BY <1>2 DEF MkdirAgain, Makes, MakeDir, CannotLock
<1>3. ASSUME NEW p \in Procs, OpenPid(p) PROVE TypeOK'
  BY <1>3 DEF OpenPid, CannotLock
<1>4. ASSUME NEW p \in Procs, WritePid(p) PROVE TypeOK'
  BY <1>4 DEF WritePid, PidWritten, CannotLock
<1>5. ASSUME NEW p \in Procs, Stat(p) PROVE TypeOK'
  <2>1. same' \in [Procs -> BOOLEAN]
    BY <1>5 DEF Stat
  <2>2. /\ seenAge' \in [Procs -> 0..2]
        /\ \A q \in Procs : pc'[q] # "read" => seenAge'[q] = 0
    BY <1>5 DEF Stat
  <2>3. QED
    BY <1>5, <2>1, <2>2 DEF Stat
<1>6. ASSUME NEW p \in Procs, ReadPid(p) PROVE TypeOK'
  BY <1>6 DEF ReadPid
<1>7. ASSUME NEW p \in Procs, Remove(p) \/ ReleaseRm(p) PROVE TypeOK'
  <2>1. stolen' \in BOOLEAN
    BY <1>7 DEF Remove, ReleaseRm, RemoveDir, RemoveFails
  <2>2. /\ same' \in [Procs -> BOOLEAN]
        /\ UNCHANGED <<seenAge, unlocked, outstayed>>
    BY <1>7 DEF Remove, ReleaseRm, RemoveDir, RemoveFails
  <2>3. \/ dir' = FALSE /\ owner' = NoPid /\ opened' = {} /\ age' = 0 /\ maker' = NoPid
        \/ UNCHANGED <<dir, maker>> /\ owner' = NoPid /\ opened' = {} /\ age' = 0
        \/ UNCHANGED <<dir, maker, owner, opened, age>>
    BY <1>7 DEF Remove, ReleaseRm, RemoveDir, RemoveFails
  <2>4. \A q \in Procs : pc'[q] # "read" => seenAge'[q] = 0
    BY <1>7, <2>2 DEF Remove, ReleaseRm
  <2>5. CASE dir' = FALSE /\ owner' = NoPid /\ opened' = {} /\ age' = 0 /\ maker' = NoPid
    <3>1. dir' \in BOOLEAN
      BY <2>5
    <3>2. QED
      BY <2>1, <2>2, <2>4, <2>5, <3>1
  <2>6. CASE UNCHANGED <<dir, maker>> /\ owner' = NoPid /\ opened' = {} /\ age' = 0
    BY <2>1, <2>2, <2>4, <2>6
  <2>7. CASE UNCHANGED <<dir, maker, owner, opened, age>>
    BY <2>1, <2>2, <2>4, <2>7
  <2>8. QED
    BY <2>3, <2>5, <2>6, <2>7
<1>8. ASSUME NEW p \in Procs, TryAgain(p) \/ RunAnyway(p) \/ FnSettles(p) \/ Release(p) PROVE TypeOK'
  BY <1>8 DEF TryAgain, RunAnyway, FnSettles, AfterFn, Release
<1>9. ASSUME NEW p \in Procs, Crash(p) PROVE TypeOK'
  BY <1>9 DEF Crash
<1>10. CASE Ages
  BY <1>10 DEF Ages
<1>11. CASE UNCHANGED vars
  BY <1>11 DEF vars
<1>12. QED
  BY <1>1, <1>2, <1>3, <1>4, <1>5, <1>6, <1>7, <1>8, <1>9, <1>10, <1>11 DEF Next, Run

LEMMA LockStep == LockInv /\ [Next]_vars => LockInv'
<1> SUFFICES ASSUME LockInv, [Next]_vars PROVE LockInv'
  OBVIOUS
<1>t. TypeOK /\ OneInside /\ TypeOK'
  BY LockTypeStep DEF LockInv
<1> SUFFICES OneInside'
  BY <1>t DEF LockInv
<1> USE <1>t, LockAssumption DEF TypeOK, OneInside, Inside, Holders, Making, Goto, lockv
<1>1. ASSUME NEW p \in Procs, Mkdir(p) PROVE OneInside'
  BY <1>1 DEF Mkdir, Makes, MakeDir, CannotLock
<1>2. ASSUME NEW p \in Procs, MkdirAgain(p) PROVE OneInside'
  BY <1>2 DEF MkdirAgain, Makes, MakeDir, CannotLock
<1>3. ASSUME NEW p \in Procs, OpenPid(p) PROVE OneInside'
  BY <1>3 DEF OpenPid, CannotLock
<1>4. ASSUME NEW p \in Procs, WritePid(p) PROVE OneInside'
  BY <1>4 DEF WritePid, PidWritten, CannotLock
<1>5. ASSUME NEW p \in Procs, Stat(p) PROVE OneInside'
  BY <1>5 DEF Stat
<1>6. ASSUME NEW p \in Procs, ReadPid(p) PROVE OneInside'
  BY <1>6 DEF ReadPid, HolderLives
<1>7. ASSUME NEW p \in Procs, Remove(p) PROVE OneInside'
  BY <1>7 DEF Remove, RemoveDir, RemoveFails
<1>8. ASSUME NEW p \in Procs, ReleaseRm(p) PROVE OneInside'
  BY <1>8 DEF ReleaseRm, RemoveDir, RemoveFails
<1>9. ASSUME NEW p \in Procs, TryAgain(p) \/ RunAnyway(p) \/ FnSettles(p) PROVE OneInside'
  BY <1>9 DEF TryAgain, RunAnyway, FnSettles, AfterFn
<1>10. ASSUME NEW p \in Procs, Release(p) PROVE OneInside'
  BY <1>10 DEF Release
<1>11. ASSUME NEW p \in Procs, Crash(p) PROVE OneInside'
  BY <1>11 DEF Crash
<1>12. CASE Ages
  BY <1>12 DEF Ages
<1>13. CASE UNCHANGED vars
  BY <1>13 DEF vars
<1>14. QED
  BY <1>1, <1>2, <1>3, <1>4, <1>5, <1>6, <1>7, <1>8, <1>9, <1>10, <1>11, <1>12, <1>13
  DEF Next, Run

LEMMA LockInvariant == Spec => []LockInv
BY LockInit, LockStep, PTL DEF Spec

-----------------------------------------------------------------------------
(* The delivery.  What ran in this life of the CLI is remembered, or fell out of
   the memory since. *)
Remembered ==
  /\ processed \in Seq(Delivery!ToSet(processed))
  /\ once \subseteq Delivery!ToSet(processed) \cup evicted

LEMMA ToSetAppend ==
  ASSUME NEW S, NEW s \in Seq(S), NEW e
  PROVE  /\ Append(s, e) \in Seq(Delivery!ToSet(s) \cup {e})
         /\ Delivery!ToSet(Append(s, e)) = Delivery!ToSet(s) \cup {e}
<1>1. s \in Seq(Delivery!ToSet(s) \cup {e})
  BY SeqDef DEF Delivery!ToSet
<1>2. /\ Append(s, e) \in Seq(Delivery!ToSet(s) \cup {e})
      /\ Len(Append(s, e)) = Len(s) + 1 /\ Len(s) \in Nat
      /\ \A i \in 1..Len(s) : Append(s, e)[i] = s[i]
      /\ Append(s, e)[Len(s) + 1] = e
      /\ DOMAIN s = 1..Len(s) /\ DOMAIN Append(s, e) = 1..(Len(s) + 1)
  BY <1>1, AppendProperties, LenProperties
<1>3. QED
  BY <1>2 DEF Delivery!ToSet

LEMMA ToSetTail ==
  ASSUME NEW S, NEW s \in Seq(S), s # <<>>
  PROVE  /\ Tail(s) \in Seq(S)
         /\ Delivery!ToSet(s) = {Head(s)} \cup Delivery!ToSet(Tail(s))
<1>1. /\ Tail(s) \in Seq(S) /\ Len(Tail(s)) = Len(s) - 1
      /\ \A i \in 1..Len(Tail(s)) : Tail(s)[i] = s[i + 1]
      /\ Len(s) \in Nat \ {0} /\ Head(s) = s[1]
      /\ DOMAIN s = 1..Len(s) /\ DOMAIN Tail(s) = 1..(Len(s) - 1)
  BY HeadTailProperties, LenProperties, EmptySeq
<1>2. \A i \in 1..Len(s) : i = 1 \/ s[i] = Tail(s)[i - 1]
  BY <1>1
<1>3. \A x : x \in Delivery!ToSet(s) <=> x \in {Head(s)} \cup Delivery!ToSet(Tail(s))
  <2>1. ASSUME NEW x \in Delivery!ToSet(s) PROVE x \in {Head(s)} \cup Delivery!ToSet(Tail(s))
    <3>1. PICK i \in 1..Len(s) : x = s[i]
      BY <1>1 DEF Delivery!ToSet
    <3>2. i = 1 \/ (i - 1 \in 1..(Len(s) - 1) /\ x = Tail(s)[i - 1])
      BY <1>1, <1>2, <3>1
    <3>3. QED
      BY <1>1, <3>1, <3>2 DEF Delivery!ToSet
  <2>2. ASSUME NEW x \in Delivery!ToSet(Tail(s)) PROVE x \in Delivery!ToSet(s)
    <3>1. PICK i \in 1..(Len(s) - 1) : x = Tail(s)[i]
      BY <1>1 DEF Delivery!ToSet
    <3>2. i + 1 \in 1..Len(s) /\ x = s[i + 1]
      BY <1>1, <3>1
    <3>3. QED
      BY <1>1, <3>2 DEF Delivery!ToSet
  <2>3. Head(s) \in Delivery!ToSet(s)
    BY <1>1 DEF Delivery!ToSet
  <2>4. QED
    BY <2>1, <2>2, <2>3
<1>4. QED
  BY <1>1, <1>3

LEMMA SeqInSet ==
  ASSUME NEW S, NEW s \in Seq(S)
  PROVE  s \in Seq(Delivery!ToSet(s))
<1>1. Len(s) \in Nat /\ DOMAIN s = 1..Len(s) /\ s \in [1..Len(s) -> S]
  BY LenProperties
<1>2. s \in [1..Len(s) -> Delivery!ToSet(s)]
  BY <1>1 DEF Delivery!ToSet
<1>3. QED
  BY <1>1, <1>2, SeqDef

LEMMA RememberKeeps ==
  ASSUME Remembered, NEW c, Delivery!RememberProcessed(c), once' = once \cup {c}
  PROVE  Remembered'
<1> DEFINE grown == Append(processed, c)
<1>1. /\ grown \in Seq(Delivery!ToSet(grown)) /\ grown # <<>>
      /\ Delivery!ToSet(grown) = Delivery!ToSet(processed) \cup {c}
  <2>1. processed \in Seq(Delivery!ToSet(processed) \cup {c})
    BY SeqMonotonic DEF Remembered
  <2>2. grown # <<>>
    BY <2>1, AppendProperties
  <2>3. QED
    BY <2>1, <2>2, ToSetAppend DEF Remembered
<1>2. CASE processed' = Tail(grown) /\ evicted' = (evicted \ {c}) \cup {Head(grown)}
  <2>1. /\ processed' \in Seq(Delivery!ToSet(processed'))
        /\ Delivery!ToSet(grown) = {Head(grown)} \cup Delivery!ToSet(processed')
    BY <1>1, <1>2, ToSetTail, SeqInSet
  <2>2. QED
    BY <1>1, <1>2, <2>1 DEF Remembered
<1>3. CASE processed' = grown /\ evicted' = evicted \ {c}
  BY <1>1, <1>3 DEF Remembered
<1>4. QED
  BY <1>2, <1>3 DEF Delivery!RememberProcessed

LEMMA DeliveryInit == Delivery!Init => Remembered
BY EmptySeq DEF Delivery!Init, Remembered, Delivery!ToSet

LEMMA DeliveryStep ==
  ASSUME Remembered, [Delivery!Next]_deliveryVars
  PROVE  Remembered' /\ \A s \in Slots : Delivery!RunsAgain(s) => Head(batch[s]) \in evicted
<1>1. \A s \in Slots : Delivery!RunsAgain(s) => Head(batch[s]) \in evicted
  BY DEF Delivery!RunsAgain, Delivery!RunCommand, Delivery!Seen, Remembered
<1>2. CASE UNCHANGED <<processed, once, evicted>>
  BY <1>1, <1>2 DEF Remembered
<1>3. ASSUME NEW s \in Slots, Delivery!RunCommand(s) PROVE Remembered'
  BY <1>3, RememberKeeps DEF Delivery!RunCommand
<1>4. CASE Delivery!Crash
  <2>1. processed' = <<>> /\ once' = {}
    BY <1>4 DEF Delivery!Crash
  <2>2. <<>> \in Seq(Delivery!ToSet(<<>>))
    BY EmptySeq
  <2>3. QED
    BY <1>1, <2>1, <2>2 DEF Remembered
<1>5. CASE \/ \E c \in Commands : Delivery!Push(c)
           \/ \E ids \in SUBSET Commands : Delivery!Deliver(ids)
           \/ \E ids \in acks : Delivery!AckLands(ids) \/ Delivery!AckFails(ids)
           \/ \E s \in Slots : Delivery!Skip(s) \/ Delivery!Settle(s)
           \/ Delivery!StartPollingFallback \/ UNCHANGED deliveryVars
  <2>1. UNCHANGED <<processed, once, evicted>>
    BY <1>5 DEF Delivery!Push, Delivery!Deliver, Delivery!AckLands, Delivery!AckFails,
                Delivery!Skip, Delivery!Settle, Delivery!StartPollingFallback, deliveryVars
  <2>2. QED
    BY <1>2, <2>1
<1>6. QED
  BY <1>1, <1>3, <1>4, <1>5 DEF Delivery!Next, Delivery!GoesThrough

-----------------------------------------------------------------------------
(* What the delivery loses: nothing that the backend has drained and no process has
   had in hand.  An ack on its way names only what was received with it; what is
   remembered, and the command at work, was handed over. *)
InHand == Delivery!InBatch \cup ran \cup dropped \cup malformed

Received ==
  /\ Delivery!DrainedWasReceived
  /\ \A ids \in acks : ids \subseteq InHand
  /\ Delivery!ToSet(processed) \subseteq ran
  /\ \A s \in Slots : running[s] => batch[s] # <<>> /\ Head(batch[s]) \in ran

DeliveryInv == Delivery!TypeOK /\ Received

LEMMA FilteredIs ==
  ASSUME NEW q \in Seq(Commands), NEW S, NEW r \in Delivery!Filtered(q, S)
  PROVE  r \in Seq(Commands) /\ Delivery!ToSet(r) = Delivery!ToSet(q) \cap S
<1>1. Len(q) \in Nat
  BY LenProperties
<1>2. PICK n \in 0..Len(q) : r \in [1..n -> Commands]
  BY DEF Delivery!Filtered, Delivery!BoundedSeq, Delivery!SeqOf
<1>3. r \in Seq(Commands)
  BY <1>1, <1>2, SeqDef
<1>4. QED
  BY <1>3 DEF Delivery!Filtered

LEMMA ToSetIn ==
  ASSUME NEW S, NEW s \in Seq(S)
  PROVE  /\ Delivery!ToSet(s) \subseteq S
         /\ s # <<>> => Head(s) \in Delivery!ToSet(s) /\ Delivery!Last(s) \in Delivery!ToSet(s)
<1>1. Len(s) \in Nat /\ DOMAIN s = 1..Len(s) /\ \A i \in 1..Len(s) : s[i] \in S
  BY LenProperties, ElementOfSeq
<1>2. s # <<>> => Len(s) > 0 /\ Head(s) = s[1]
  BY <1>1, HeadTailProperties, EmptySeq, LenProperties
<1>3. QED
  BY <1>1, <1>2 DEF Delivery!ToSet, Delivery!Last

LEMMA BatchesAre ==
  ASSUME batch \in [Slots -> Seq(Commands)]
  PROVE  \A c : c \in Delivery!InBatch <=> \E s \in Slots : c \in Delivery!ToSet(batch[s])
BY DEF Delivery!InBatch

LEMMA BatchBecomes ==
  ASSUME batch \in [Slots -> Seq(Commands)], NEW s \in Slots, NEW r \in Seq(Commands),
         batch' = [batch EXCEPT ![s] = r]
  PROVE  /\ batch' \in [Slots -> Seq(Commands)]
         /\ Delivery!ToSet(r) \subseteq Delivery!InBatch'
         /\ Delivery!InBatch \subseteq Delivery!InBatch' \cup Delivery!ToSet(batch[s])
<1>1. batch' \in [Slots -> Seq(Commands)] /\ batch'[s] = r
      /\ \A t \in Slots \ {s} : batch'[t] = batch[t]
  OBVIOUS
<1>2. Delivery!ToSet(r) \subseteq Delivery!InBatch'
  BY <1>1 DEF Delivery!InBatch
<1>3. ASSUME NEW c \in Delivery!InBatch, c \notin Delivery!ToSet(batch[s])
      PROVE  c \in Delivery!InBatch'
  <2>1. PICK t \in Slots : c \in Delivery!ToSet(batch[t])
    BY <1>3 DEF Delivery!InBatch
  <2>2. t # s /\ batch'[t] = batch[t]
    BY <1>1, <1>3, <2>1
  <2>3. c \in Delivery!ToSet(batch'[t])
    BY <2>1, <2>2
  <2>4. QED
    BY <2>3 DEF Delivery!InBatch
<1>4. QED
  BY <1>1, <1>2, <1>3

LEMMA ReceivedInit == Delivery!Init => DeliveryInv
<1> SUFFICES ASSUME Delivery!Init PROVE DeliveryInv
  OBVIOUS
<1> USE DEF Delivery!Init
<1>1. Delivery!ToSet(<<>>) = {} /\ <<>> \in Seq(Commands) /\ Len(<<>>) = 0
  BY EmptySeq DEF Delivery!ToSet
<1>2. Delivery!TypeOK
  BY <1>1, StartAssumption, LockAssumption DEF Delivery!TypeOK
<1>3. Received
  BY <1>1 DEF Received, Delivery!DrainedWasReceived
<1>4. QED
  BY <1>2, <1>3 DEF DeliveryInv

(* A dispatch goes on past its head, which has been handed over. *)
LEMMA GoesOnKeeps ==
  ASSUME DeliveryInv, NEW s \in Slots, batch[s] # <<>>, Head(batch[s]) \in ran,
         Delivery!GoesOn(s, Tail(batch[s])),
         running' \in [Slots -> BOOLEAN], ~running'[s], \A t \in Slots \ {s} : running'[t] = running[t],
         UNCHANGED <<queue, pushed, malformed, acks, processed, crashes, ran, once, evicted, dropped>>
  PROVE  DeliveryInv'
<1> USE DEF DeliveryInv, Delivery!TypeOK
<1>1. batch[s] \in Seq(Commands)
  OBVIOUS
<1>2. /\ Tail(batch[s]) \in Seq(Commands)
      /\ Delivery!ToSet(batch[s]) = {Head(batch[s])} \cup Delivery!ToSet(Tail(batch[s]))
  BY <1>1, ToSetTail
<1>3. batch' = [batch EXCEPT ![s] = Tail(batch[s])] /\ channel' \in {"poll", channel}
  BY DEF Delivery!GoesOn
<1>4. /\ batch' \in [Slots -> Seq(Commands)]
      /\ Delivery!ToSet(Tail(batch[s])) \subseteq Delivery!InBatch'
      /\ Delivery!InBatch \subseteq Delivery!InBatch' \cup Delivery!ToSet(batch[s])
  BY <1>2, <1>3, BatchBecomes
<1>5. InHand \subseteq InHand'
  BY <1>2, <1>4 DEF InHand
<1>6. Delivery!TypeOK'
  BY <1>3, <1>4
<1>7. Delivery!DrainedWasReceived'
  BY <1>5 DEF Received, Delivery!DrainedWasReceived, InHand
<1>8. \A t \in Slots : running'[t] => batch'[t] # <<>> /\ Head(batch'[t]) \in ran'
  BY <1>3 DEF Received
<1>9. \A ids \in acks' : ids \subseteq InHand'
  BY <1>5 DEF Received
<1>10. QED
  BY <1>6, <1>7, <1>8, <1>9 DEF Received

LEMMA ReceivedStep == DeliveryInv /\ [Delivery!Next]_deliveryVars => DeliveryInv'
<1> SUFFICES ASSUME DeliveryInv, [Delivery!Next]_deliveryVars PROVE DeliveryInv'
  OBVIOUS
<1>t. /\ queue \in Seq(Commands) /\ batch \in [Slots -> Seq(Commands)]
      /\ acks \subseteq SUBSET Commands /\ processed \in Seq(Commands)
      /\ running \in [Slots -> BOOLEAN] /\ Delivery!ToSet(queue) \subseteq Commands
  BY ToSetIn DEF DeliveryInv, Delivery!TypeOK
<1>1. ASSUME NEW c \in Commands, Delivery!Push(c) PROVE DeliveryInv'
  <2>1. /\ queue' \in Seq(Commands) /\ Delivery!ToSet(queue') = Delivery!ToSet(queue) \cup {c}
        /\ pushed' = pushed \cup {c}
        /\ UNCHANGED <<malformed, channel, acks, batch, running, processed, crashes, ran, once,
                       evicted, dropped>>
    BY <1>1, <1>t, ToSetAppend, AppendProperties DEF Delivery!Push
  <2>2. Delivery!InBatch' = Delivery!InBatch
    BY <2>1 DEF Delivery!InBatch
  <2>3. Delivery!TypeOK'
    BY <2>1 DEF DeliveryInv, Delivery!TypeOK
  <2>4. QED
    BY <2>1, <2>2, <2>3 DEF DeliveryInv, Received, InHand, Delivery!DrainedWasReceived
<1>2. ASSUME NEW ids \in SUBSET Commands, Delivery!Deliver(ids) PROVE DeliveryInv'
  <2> DEFINE s == CHOOSE t \in {t \in Slots : batch[t] = <<>>} : TRUE
  <2>1. /\ s \in Slots /\ batch[s] = <<>> /\ queue # <<>>
        /\ ids \in {Delivery!ToSet(queue), {Delivery!Last(queue)}}
        /\ channel' \in {"stream", "poll"} \cup Slots
        /\ acks' = acks \cup ({ids \ malformed, ids \cap malformed} \ {{}})
        /\ UNCHANGED <<queue, pushed, malformed, running, processed, crashes, ran, once,
                       evicted, dropped>>
    BY <1>2 DEF Delivery!Deliver, Delivery!MayPoll
  <2>2. PICK r \in Delivery!Filtered(queue, ids \ malformed) : batch' = [batch EXCEPT ![s] = r]
    BY <1>2 DEF Delivery!Deliver
  <2> HIDE DEF s
  <2>3. /\ r \in Seq(Commands) /\ ids \subseteq Delivery!ToSet(queue)
        /\ Delivery!ToSet(r) = ids \ malformed
    <3>1. r \in Seq(Commands) /\ Delivery!ToSet(r) = Delivery!ToSet(queue) \cap (ids \ malformed)
      BY <1>t, <2>2, FilteredIs
    <3>2. Delivery!Last(queue) \in Delivery!ToSet(queue)
      BY <1>t, <2>1, ToSetIn
    <3>3. QED
      BY <2>1, <3>1, <3>2
  <2>4. /\ batch' \in [Slots -> Seq(Commands)] /\ ids \ malformed \subseteq Delivery!InBatch'
        /\ Delivery!InBatch \subseteq Delivery!InBatch' \cup Delivery!ToSet(batch[s])
    BY <1>t, <2>1, <2>2, <2>3, BatchBecomes
  <2>5. Delivery!InBatch \subseteq Delivery!InBatch'
    BY <2>1, <2>4 DEF Delivery!ToSet
  <2>6. InHand \subseteq InHand' /\ ids \subseteq InHand'
    BY <2>1, <2>4, <2>5 DEF InHand
  <2>7. Delivery!TypeOK'
    BY <2>1, <2>4 DEF DeliveryInv, Delivery!TypeOK
  <2>8. Delivery!DrainedWasReceived' /\ \A a \in acks' : a \subseteq InHand'
    BY <2>1, <2>6 DEF DeliveryInv, Received, Delivery!DrainedWasReceived, InHand
  <2>9. ASSUME NEW t \in Slots, running'[t] PROVE batch'[t] # <<>> /\ Head(batch'[t]) \in ran'
    <3>1. running[t] /\ batch[t] # <<>> /\ Head(batch[t]) \in ran
      BY <2>1, <2>9 DEF DeliveryInv, Received
    <3>2. t # s /\ batch'[t] = batch[t]
      BY <1>t, <2>1, <2>2, <3>1
    <3>3. QED
      BY <2>1, <3>1, <3>2
  <2>10. QED
    BY <2>1, <2>7, <2>8, <2>9 DEF DeliveryInv, Received
<1>3. ASSUME NEW ids \in acks, Delivery!AckLands(ids) \/ Delivery!AckFails(ids) PROVE DeliveryInv'
  <2>1. /\ acks' = acks \ {ids}
        /\ UNCHANGED <<pushed, malformed, channel, batch, running, processed, crashes, ran, once,
                       evicted, dropped>>
        /\ queue' = queue \/ queue' \in Delivery!Filtered(queue, Commands \ ids)
    BY <1>3 DEF Delivery!AckLands, Delivery!AckFails, Delivery!Drain
  <2>2. /\ queue' \in Seq(Commands)
        /\ Delivery!ToSet(queue) \subseteq Delivery!ToSet(queue') \cup ids
    BY <1>t, <2>1, FilteredIs
  <2>3. InHand' = InHand
    BY <2>1 DEF InHand, Delivery!InBatch
  <2>4. ids \subseteq InHand
    BY DEF DeliveryInv, Received
  <2>5. Delivery!TypeOK'
    BY <2>1, <2>2 DEF DeliveryInv, Delivery!TypeOK
  <2>6. Delivery!DrainedWasReceived'
    BY <2>1, <2>2, <2>3, <2>4 DEF DeliveryInv, Received, Delivery!DrainedWasReceived, InHand
  <2>7. QED
    BY <2>1, <2>3, <2>5, <2>6 DEF DeliveryInv, Received
<1>4. ASSUME NEW s \in Slots, Delivery!Skip(s) PROVE DeliveryInv'
  <2>1. batch[s] # <<>> /\ Head(batch[s]) \in ran
    BY <1>4 DEF Delivery!Skip, Delivery!Seen, DeliveryInv, Received
  <2>2. QED
    BY <1>4, <1>t, <2>1, GoesOnKeeps DEF Delivery!Skip
<1>5. ASSUME NEW s \in Slots, Delivery!RunCommand(s) PROVE DeliveryInv'
  <2> DEFINE c == Head(batch[s])
  <2> DEFINE grown == Append(processed, c)
  <2>1. /\ batch[s] # <<>> /\ Delivery!RememberProcessed(c)
        /\ running' = [running EXCEPT ![s] = TRUE] /\ ran' = ran \cup {c} /\ once' = once \cup {c}
        /\ UNCHANGED <<queue, pushed, malformed, channel, acks, batch, crashes, dropped>>
    BY <1>5 DEF Delivery!RunCommand
  <2>2. c \in Commands
    BY <1>t, <2>1, ToSetIn
  <2>3. /\ grown \in Seq(Commands) /\ grown # <<>> /\ Len(grown) = Len(processed) + 1
        /\ Delivery!ToSet(grown) = Delivery!ToSet(processed) \cup {c}
    <3> HIDE DEF c
    <3>1. grown \in Seq(Commands) /\ grown # <<>> /\ Len(grown) = Len(processed) + 1
      BY <1>t, <2>2, AppendProperties
    <3>2. Delivery!ToSet(grown) = Delivery!ToSet(processed) \cup {c}
      BY <1>t, ToSetAppend
    <3>3. QED
      BY <3>1, <3>2
  <2>4. /\ Tail(grown) \in Seq(Commands) /\ Len(Tail(grown)) = Len(grown) - 1
        /\ Delivery!ToSet(Tail(grown)) \subseteq Delivery!ToSet(grown) /\ Head(grown) \in Commands
    BY <2>3, ToSetTail, ToSetIn, HeadTailProperties
  <2>5. Len(processed) \in Nat /\ Len(processed) <= Cap /\ Cap \in Nat
    BY <1>t, LenProperties, StartAssumption DEF DeliveryInv, Delivery!TypeOK
  <2>6. /\ processed' \in Seq(Commands) /\ Len(processed') <= Cap /\ evicted' \subseteq Commands
        /\ Delivery!ToSet(processed') \subseteq Delivery!ToSet(processed) \cup {c}
    <3>0. \/ Len(grown) > Cap /\ processed' = Tail(grown)
             /\ evicted' = (evicted \ {c}) \cup {Head(grown)}
          \/ ~(Len(grown) > Cap) /\ processed' = grown /\ evicted' = evicted \ {c}
      BY <2>1 DEF Delivery!RememberProcessed
    <3>e. evicted \subseteq Commands
      BY DEF DeliveryInv, Delivery!TypeOK
    <3> HIDE DEF c, grown
    <3>1. CASE Len(grown) > Cap
      <4>1. processed' = Tail(grown) /\ evicted' = (evicted \ {c}) \cup {Head(grown)}
        BY <3>0, <3>1
      <4>2. Len(processed') <= Cap
        BY <2>3, <2>4, <2>5, <4>1
      <4>3. processed' \in Seq(Commands) /\ evicted' \subseteq Commands
        BY <2>4, <3>e, <4>1
      <4>4. Delivery!ToSet(processed') \subseteq Delivery!ToSet(grown)
        BY <2>4, <4>1
      <4>5. QED
        BY <2>3, <4>2, <4>3, <4>4
    <3>2. CASE ~(Len(grown) > Cap)
      BY <2>3, <2>5, <3>0, <3>e, <3>2
    <3>3. QED
      BY <3>1, <3>2
  <2>7. Delivery!InBatch' = Delivery!InBatch
    BY <2>1 DEF Delivery!InBatch
  <2>8. InHand \subseteq InHand'
    BY <2>1, <2>7 DEF InHand
  <2>9. Delivery!TypeOK'
    BY <2>1, <2>2, <2>6 DEF DeliveryInv, Delivery!TypeOK
  <2>10. Delivery!DrainedWasReceived'
    BY <2>1, <2>8 DEF DeliveryInv, Received, Delivery!DrainedWasReceived, InHand
  <2>11. \A t \in Slots : running'[t] => batch'[t] # <<>> /\ Head(batch'[t]) \in ran'
    BY <1>t, <2>1 DEF DeliveryInv, Received
  <2>12. QED
    BY <2>1, <2>6, <2>8, <2>9, <2>10, <2>11 DEF DeliveryInv, Received
<1>6. ASSUME NEW s \in Slots, Delivery!Settle(s) PROVE DeliveryInv'
  <2>1. batch[s] # <<>> /\ Head(batch[s]) \in ran
    BY <1>6 DEF Delivery!Settle, DeliveryInv, Received
  <2>2. QED
    BY <1>6, <1>t, <2>1, GoesOnKeeps DEF Delivery!Settle, Delivery!RestOf
<1>7. CASE Delivery!StartPollingFallback \/ UNCHANGED deliveryVars
  <2>1. /\ channel' \in {"poll", channel}
        /\ UNCHANGED <<queue, pushed, malformed, acks, batch, running, processed, crashes, ran, once,
                       evicted, dropped>>
    BY <1>7 DEF Delivery!StartPollingFallback, deliveryVars
  <2>2. QED
    BY <2>1 DEF DeliveryInv, Delivery!TypeOK, Received, InHand, Delivery!InBatch,
       Delivery!DrainedWasReceived
<1>8. CASE Delivery!Crash
  <2>1. /\ batch' = [s \in Slots |-> <<>>] /\ running' = [s \in Slots |-> FALSE]
        /\ channel' = "stream" /\ processed' = <<>> /\ once' = {} /\ evicted' = {}
        /\ dropped' = dropped \cup (Delivery!InBatch \ ran) /\ crashes' \in 0..MaxCrashes
        /\ UNCHANGED <<queue, pushed, malformed, acks, ran>>
    BY <1>8, LockAssumption DEF Delivery!Crash, DeliveryInv, Delivery!TypeOK
  <2>2. Delivery!InBatch \subseteq Commands
    BY <1>t, BatchesAre, ToSetIn
  <2>3. <<>> \in Seq(Commands) /\ Len(<<>>) = 0 /\ Delivery!ToSet(<<>>) = {}
    BY EmptySeq DEF Delivery!ToSet
  <2>4. InHand \subseteq InHand'
    BY <2>1 DEF InHand
  <2>5. Delivery!TypeOK'
    BY <2>1, <2>2, <2>3, StartAssumption DEF DeliveryInv, Delivery!TypeOK
  <2>6. Delivery!DrainedWasReceived'
    BY <2>1, <2>4 DEF DeliveryInv, Received, Delivery!DrainedWasReceived, InHand
  <2>7. QED
    BY <2>1, <2>3, <2>4, <2>5, <2>6 DEF DeliveryInv, Received
<1>9. QED
  BY <1>1, <1>2, <1>3, <1>4, <1>5, <1>6, <1>7, <1>8 DEF Delivery!Next, Delivery!GoesThrough

-----------------------------------------------------------------------------
(* The gate.  Commands arrive once each; the queue holds some of those that have
   arrived, in the order they came. *)
InOrder ==
  /\ order \in Seq(Gate!Cmds) /\ waiting \in Seq(Gate!Cmds)
  /\ at \in [Gate!Cmds -> {"none", "queued", "probe", "handle", "done", "refused"}]
  /\ \A i \in 1..Len(order) : at[order[i]] # "none"
  /\ \A i, j \in 1..Len(order) : order[i] = order[j] => i = j
  /\ \A i \in 1..Len(waiting) : \E j \in 1..Len(order) : order[j] = waiting[i]
  /\ \A i, j \in 1..Len(waiting) : i < j => Gate!Before(waiting[i], waiting[j])

GateInv == InOrder /\ Gate!QueueNotOvertaken

LEMMA NotBothBefore ==
  ASSUME InOrder, NEW c, NEW d, Gate!Before(c, d)
  PROVE  ~Gate!Before(d, c) /\ c # d
<1>1. PICK i, j \in 1..Len(order) : i < j /\ order[i] = c /\ order[j] = d
  BY DEF Gate!Before
<1>2. \A k, l \in 1..Len(order) : k < l /\ order[k] = d /\ order[l] = c => FALSE
  BY <1>1, LenProperties DEF InOrder
<1>3. QED
  BY <1>1, <1>2, LenProperties DEF Gate!Before, InOrder

(* A command that proceeds goes on to its probe or to its handler, or is refused. *)
LEMMA ProceedMoves ==
  ASSUME NEW c, Gate!Proceed(c)
  PROVE  \E l \in {"refused", "probe", "handle"} : at' = [at EXCEPT ![c] = l]
BY DEF Gate!Proceed

LEMMA Pops ==
  ASSUME InOrder, NEW c, Gate!Popped(c)
  PROVE  waiting' = waiting \/ (waiting # <<>> /\ Head(waiting) = c /\ waiting' = Tail(waiting))
BY DEF Gate!Popped, Gate!WithoutHead

(* What the gate does with a command at its turn: the queue keeps its order, and
   what is waiting was waiting. *)
LEMMA TurnKeepsOrder ==
  ASSUME InOrder, NEW c \in Gate!Cmds, NEW l \in {"probe", "handle", "done", "refused"},
         at' = [at EXCEPT ![c] = l], order' = order,
         waiting' = waiting \/ (waiting # <<>> /\ waiting' = Tail(waiting))
  PROVE  InOrder' /\ Gate!Queued' \subseteq Gate!Queued
<1>1. at' \in [Gate!Cmds -> {"none", "queued", "probe", "handle", "done", "refused"}]
      /\ \A i \in 1..Len(order) : at'[order[i]] # "none"
  BY DEF InOrder
<1>2. \A d, e : Gate!Before(d, e)' <=> Gate!Before(d, e)
  BY DEF Gate!Before
<1>3. CASE waiting' = waiting
  BY <1>1, <1>2, <1>3 DEF InOrder, Gate!Queued
<1>4. CASE waiting # <<>> /\ waiting' = Tail(waiting)
  <2>1. /\ waiting' \in Seq(Gate!Cmds) /\ Len(waiting') = Len(waiting) - 1 /\ Len(waiting) \in Nat
        /\ \A i \in 1..Len(waiting') : waiting'[i] = waiting[i + 1] /\ i + 1 \in 1..Len(waiting)
    BY <1>4, HeadTailProperties, LenProperties, EmptySeq DEF InOrder
  <2>2. \A i, j \in 1..Len(waiting') : i < j => Gate!Before(waiting'[i], waiting'[j])
    <3>1. ASSUME NEW i \in 1..Len(waiting'), NEW j \in 1..Len(waiting'), i < j
          PROVE  Gate!Before(waiting'[i], waiting'[j])
      <4>1. i + 1 < j + 1 /\ i + 1 \in 1..Len(waiting) /\ j + 1 \in 1..Len(waiting)
        BY <2>1, <3>1
      <4>2. Gate!Before(waiting[i + 1], waiting[j + 1])
        BY <4>1 DEF InOrder
      <4>3. waiting'[i] = waiting[i + 1] /\ waiting'[j] = waiting[j + 1]
        BY <2>1
      <4>4. QED
        BY <4>2, <4>3
    <3>2. QED
      BY <3>1
  <2>3. \A i \in 1..Len(waiting') : \E j \in 1..Len(order) : order[j] = waiting'[i]
    BY <2>1 DEF InOrder
  <2>4. Gate!Queued' \subseteq Gate!Queued
    BY <2>1 DEF Gate!Queued
  <2>5. QED
    BY <1>1, <1>2, <2>1, <2>2, <2>3, <2>4 DEF InOrder
<1>5. QED
  BY <1>3, <1>4

LEMMA ArriveKeepsOrder ==
  ASSUME InOrder, NEW c \in Gate!Cmds, Gate!Arrive(c)
  PROVE  /\ InOrder'
         /\ \A d, e : Gate!Before(d, e)' <=> \/ Gate!Before(d, e)
                                             \/ e = c /\ \E i \in 1..Len(order) : order[i] = d
<1>1. /\ at[c] = "none" /\ order' = Append(order, c)
      /\ \/ Gate!Proceed(c) /\ waiting' = waiting /\ waiting = <<>>
         \/ waiting' = Append(waiting, c) /\ at' = [at EXCEPT ![c] = "queued"]
  BY DEF Gate!Arrive, Gate!Inline
<1>2. /\ order' \in Seq(Gate!Cmds) /\ Len(order') = Len(order) + 1 /\ Len(order) \in Nat
      /\ \A i \in 1..Len(order) : order'[i] = order[i]
      /\ order'[Len(order) + 1] = c
  BY <1>1, AppendProperties, LenProperties DEF InOrder
<1>3. \A i \in 1..Len(order) : order[i] # c
  BY <1>1 DEF InOrder
<1>4. \A d, e : Gate!Before(d, e)' <=> \/ Gate!Before(d, e)
                                       \/ e = c /\ \E i \in 1..Len(order) : order[i] = d
  <2>1. \A i \in 1..Len(order') : i \in 1..Len(order) \/ i = Len(order) + 1
    BY <1>2
  <2>2. QED
    BY <1>2, <2>1 DEF Gate!Before
<1>5. PICK l \in {"queued", "refused", "probe", "handle"} : at' = [at EXCEPT ![c] = l]
  BY <1>1, ProceedMoves
<1>6. /\ at' \in [Gate!Cmds -> {"none", "queued", "probe", "handle", "done", "refused"}]
      /\ \A i \in 1..Len(order') : at'[order'[i]] # "none"
      /\ \A i, j \in 1..Len(order') : order'[i] = order'[j] => i = j
  <2>1. at' \in [Gate!Cmds -> {"none", "queued", "probe", "handle", "done", "refused"}]
        /\ at'[c] # "none" /\ \A d \in Gate!Cmds \ {c} : at'[d] = at[d]
    BY <1>5 DEF InOrder
  <2>2. \A i \in 1..Len(order') : i \in 1..Len(order) \/ (i = Len(order) + 1 /\ order'[i] = c)
    BY <1>2
  <2>3. \A i \in 1..Len(order) : order[i] \in Gate!Cmds \ {c} /\ order'[i] = order[i]
    BY <1>2, <1>3, ElementOfSeq DEF InOrder
  <2>4. \A i \in 1..Len(order') : at'[order'[i]] # "none"
    BY <2>1, <2>2, <2>3 DEF InOrder
  <2>5. \A i, j \in 1..Len(order') : order'[i] = order'[j] => i = j
    BY <2>2, <2>3 DEF InOrder
  <2>6. QED
    BY <2>1, <2>4, <2>5
<1>7. \A x : (\E j \in 1..Len(order) : order[j] = x) => \E j \in 1..Len(order') : order'[j] = x
  BY <1>2
<1>8. CASE waiting' = waiting
  <2>1. (\A i, j \in 1..Len(waiting) : i < j => Gate!Before(waiting[i], waiting[j]))'
    BY <1>4, <1>8 DEF InOrder
  <2>2. \A i \in 1..Len(waiting') : \E j \in 1..Len(order') : order'[j] = waiting'[i]
    BY <1>7, <1>8 DEF InOrder
  <2>3. QED
    BY <1>2, <1>4, <1>6, <1>8, <2>1, <2>2 DEF InOrder
<1>9. CASE waiting' = Append(waiting, c)
  <2>1. /\ waiting' \in Seq(Gate!Cmds) /\ Len(waiting') = Len(waiting) + 1 /\ Len(waiting) \in Nat
        /\ \A i \in 1..Len(waiting) : waiting'[i] = waiting[i]
        /\ waiting'[Len(waiting) + 1] = c
    BY <1>9, AppendProperties, LenProperties DEF InOrder
  <2>2. \A i \in 1..Len(waiting') : i \in 1..Len(waiting) \/ (i = Len(waiting) + 1 /\ waiting'[i] = c)
    BY <2>1
  <2>3. \E j \in 1..Len(order') : order'[j] = c
    BY <1>2
  <2>4. \A i \in 1..Len(waiting') : \E j \in 1..Len(order') : order'[j] = waiting'[i]
    <3>1. \A i \in 1..Len(waiting) : \E j \in 1..Len(order') : order'[j] = waiting[i]
      BY <1>7 DEF InOrder
    <3>2. QED
      BY <2>1, <2>2, <2>3, <3>1
  <2>5. ASSUME NEW i \in 1..Len(waiting'), NEW j \in 1..Len(waiting'), i < j
        PROVE  Gate!Before(waiting[i], waiting[j])'
    <3>1. i \in 1..Len(waiting) /\ waiting'[i] = waiting[i]
      BY <2>1, <2>5
    <3>2. CASE j \in 1..Len(waiting)
      <4>1. Gate!Before(waiting[i], waiting[j]) /\ waiting'[j] = waiting[j]
        BY <2>1, <2>5, <3>1, <3>2 DEF InOrder
      <4>2. QED
        BY <1>4, <3>1, <4>1
    <3>3. CASE waiting'[j] = c
      <4>1. \E k \in 1..Len(order) : order[k] = waiting[i]
        BY <3>1 DEF InOrder
      <4>2. QED
        BY <1>4, <3>1, <3>3, <4>1
    <3>4. QED
      BY <2>2, <3>2, <3>3
  <2>6. QED
    BY <1>2, <1>4, <1>6, <2>1, <2>4, <2>5 DEF InOrder
<1>10. QED
  BY <1>1, <1>4, <1>8, <1>9

LEMMA GateInit == Gate!Init => GateInv
BY EmptySeq, LenProperties DEF Gate!Init, GateInv, InOrder, Gate!QueueNotOvertaken

LEMMA GateStep == GateInv /\ [Gate!Next]_gateVars => GateInv'
<1> SUFFICES ASSUME GateInv, [Gate!Next]_gateVars PROVE GateInv'
  OBVIOUS
<1> USE DEF GateInv
<1>1. \A d, e : order' = order => (Gate!Before(d, e)' <=> Gate!Before(d, e))
  BY DEF Gate!Before
<1>2. ASSUME NEW c \in Gate!Cmds, NEW l \in {"probe", "handle", "done", "refused"},
             at' = [at EXCEPT ![c] = l], order' = order,
             waiting' = waiting \/ (waiting # <<>> /\ waiting' = Tail(waiting)),
             l \in {"probe", "handle"} =>
               at[c] \in {"probe", "handle"} \/ (waiting # <<>> /\ c = Head(waiting))
      PROVE  GateInv'
  <2>1. InOrder' /\ Gate!Queued' \subseteq Gate!Queued
    BY <1>2, TurnKeepsOrder
  <2>2. ASSUME NEW e \in Gate!Cmds, NEW d \in Gate!Cmds, at'[e] \in {"probe", "handle"},
               Gate!Before(d, e), d # e
        PROVE  d \notin Gate!Queued
    <3>1. CASE at[e] \in {"probe", "handle"}
      BY <2>2, <3>1 DEF Gate!QueueNotOvertaken
    <3>2. CASE at[e] \notin {"probe", "handle"}
      <4>1. e = c /\ waiting # <<>> /\ c = Head(waiting)
        BY <1>2, <2>2, <3>2 DEF InOrder
      <4>2. c = waiting[1] /\ 1 \in 1..Len(waiting)
        BY <4>1, HeadTailProperties, LenProperties, EmptySeq DEF InOrder
      <4>3. ASSUME NEW i \in 1..Len(waiting), waiting[i] = d PROVE FALSE
        <5>1. 1 < i
          BY <2>2, <4>1, <4>2, <4>3
        <5>2. Gate!Before(c, d)
          BY <4>2, <4>3, <5>1 DEF InOrder
        <5>3. QED
          BY <2>2, <4>1, <5>2, NotBothBefore
      <4>4. QED
        BY <4>3 DEF Gate!Queued
    <3>3. QED
      BY <3>1, <3>2
  <2>3. Gate!QueueNotOvertaken'
    BY <1>1, <1>2, <2>1, <2>2 DEF Gate!QueueNotOvertaken
  <2>4. QED
    BY <2>1, <2>3
<1>3. ASSUME NEW c \in Gate!Cmds, Gate!Arrive(c) PROVE GateInv'
  <2>1. /\ InOrder'
        /\ \A d, e : Gate!Before(d, e)' <=> \/ Gate!Before(d, e)
                                            \/ e = c /\ \E i \in 1..Len(order) : order[i] = d
    BY <1>3, ArriveKeepsOrder
  <2>2. CASE waiting' = waiting /\ waiting = <<>>
    <3>1. Gate!Queued' = {}
      BY <2>2, LenProperties, EmptySeq DEF Gate!Queued
    <3>2. QED
      BY <2>1, <3>1 DEF Gate!QueueNotOvertaken
  <2>3. CASE waiting' = Append(waiting, c) /\ at' = [at EXCEPT ![c] = "queued"]
    <3>1. Gate!Queued' \subseteq Gate!Queued \cup {c}
      BY <2>3, AppendProperties, LenProperties DEF Gate!Queued, InOrder
    <3>2. \A e : ~Gate!Before(c, e)
      BY <1>3 DEF Gate!Before, Gate!Arrive, InOrder
    <3>3. \A e \in Gate!Cmds : at'[e] \in {"probe", "handle"} => e # c /\ at[e] = at'[e]
      BY <2>3 DEF InOrder
    <3>4. Gate!QueueNotOvertaken'
      BY <2>1, <3>1, <3>2, <3>3 DEF Gate!QueueNotOvertaken
    <3>5. QED
      BY <2>1, <3>4
  <2>4. QED
    BY <1>3, <2>2, <2>3 DEF Gate!Arrive, Gate!Inline
<1>4. ASSUME NEW c \in Gate!Cmds, Gate!Dequeue(c) PROVE GateInv'
  <2>1. PICK l \in {"refused", "probe", "handle"} : at' = [at EXCEPT ![c] = l]
    BY <1>4, ProceedMoves DEF Gate!Dequeue
  <2>2. waiting # <<>> /\ c = Head(waiting) /\ order' = order
    BY <1>4 DEF Gate!Dequeue
  <2>3. waiting' = waiting \/ (waiting # <<>> /\ waiting' = Tail(waiting))
    BY <1>4, Pops DEF Gate!Dequeue
  <2>4. QED
    BY <1>2, <2>1, <2>2, <2>3
<1>5. ASSUME NEW c \in Gate!Cmds, Gate!ProbeAnswers(c) PROVE GateInv'
  <2>1. PICK l \in {"refused", "handle"} : at' = [at EXCEPT ![c] = l]
    BY <1>5 DEF Gate!ProbeAnswers
  <2>2. at[c] = "probe" /\ order' = order
    BY <1>5 DEF Gate!ProbeAnswers
  <2>3. waiting' = waiting \/ (waiting # <<>> /\ waiting' = Tail(waiting))
    BY <1>5, Pops DEF Gate!ProbeAnswers
  <2>4. QED
    BY <1>2, <2>1, <2>2, <2>3
<1>6. ASSUME NEW c \in Gate!Cmds, Gate!Handled(c) PROVE GateInv'
  <2>1. at' = [at EXCEPT ![c] = "done"] /\ order' = order
    BY <1>6 DEF Gate!Handled
  <2>2. waiting' = waiting \/ (waiting # <<>> /\ waiting' = Tail(waiting))
    BY <1>6, Pops DEF Gate!Handled
  <2>3. QED
    BY <1>2, <2>1, <2>2
<1>7. CASE UNCHANGED <<order, waiting, at>>
  <2>1. (\A i, j \in 1..Len(waiting) : i < j => Gate!Before(waiting[i], waiting[j]))'
    BY <1>1, <1>7 DEF InOrder
  <2>2. InOrder'
    BY <1>7, <2>1 DEF InOrder
  <2>3. Gate!QueueNotOvertaken'
    BY <1>1, <1>7 DEF Gate!QueueNotOvertaken, Gate!Queued
  <2>4. QED
    BY <2>2, <2>3
<1>8. CASE Gate!StartupSettles \/ Gate!AccountChanges \/ UNCHANGED gateVars
  BY <1>7, <1>8 DEF Gate!StartupSettles, Gate!AccountChanges, gateVars
<1>9. QED
  BY <1>3, <1>4, <1>5, <1>6, <1>8 DEF Gate!Next, Gate!GateWorks

-----------------------------------------------------------------------------
(* The states of the gate.  Only the head of the queue is being worked on; a command
   is at the agent only once that is up, a prompt only after some probe has not
   answered "out". *)
GateTypes ==
  /\ phase \in {"starting", "ready", "failed"}
  /\ signedIn \in BOOLEAN /\ authProbe \in Gate!Answers \cup {"none"}
  /\ asked \in [Gate!Cmds -> Gate!Answers \cup {"none"}]
  /\ account \in {"in", "out"} /\ signIns \in 0..MaxSignIns /\ outSince \subseteq Gate!Arrived

OnlyHeadWorks ==
  /\ \A c \in Gate!Cmds : at[c] = "queued" => \E i \in 1..Len(waiting) : waiting[i] = c
  /\ \A i \in 1..Len(waiting) :
       at[waiting[i]] = "queued" \/ (i = 1 /\ at[waiting[i]] \in {"probe", "handle"})

NotOut == \E d \in Prompts : asked[d] \in {"in", "unknown"}

Probes ==
  /\ signedIn => NotOut
  /\ \A c \in Gate!Cmds :
       /\ at[c] \in {"none", "queued"} => asked[c] = "none"
       /\ at[c] = "probe" => phase = "ready" /\ c \in Prompts /\ asked[c] \in Gate!Answers
       /\ at[c] \in {"handle", "done"} => phase = "ready" /\ (c \in Prompts => NotOut)

ReadyInv == GateTypes /\ OnlyHeadWorks /\ Probes

LEMMA ReadyInit == Gate!Init => ReadyInv
<1> SUFFICES ASSUME Gate!Init PROVE ReadyInv
  OBVIOUS
<1>1. Len(waiting) = 0
  BY EmptySeq DEF Gate!Init
<1>2. /\ asked = [c \in Gate!Cmds |-> "none"] /\ at = [c \in Gate!Cmds |-> "none"] /\ signIns = 0
      /\ phase = "starting" /\ signedIn = FALSE /\ authProbe = "none" /\ account \in {"in", "out"}
      /\ outSince = {}
  BY DEF Gate!Init
<1>3. GateTypes
  <2>1. signIns \in 0..MaxSignIns
    BY <1>2, StartAssumption
  <2>2. QED
    BY <1>2, <2>1 DEF GateTypes
<1>4. OnlyHeadWorks /\ Probes
  BY <1>1, <1>2 DEF OnlyHeadWorks, Probes
<1>5. QED
  BY <1>3, <1>4 DEF ReadyInv

LEMMA StaysNotOut ==
  ASSUME Probes, asked \in [Gate!Cmds -> Gate!Answers \cup {"none"}], NotOut,
         NEW c \in Gate!Cmds, at[c] \in {"none", "queued"}, NEW a, asked' = [asked EXCEPT ![c] = a]
  PROVE  NotOut'
<1>1. PICK d \in Prompts : asked[d] \in {"in", "unknown"}
  BY DEF NotOut
<1>2. d # c
  BY <1>1 DEF Probes
<1>3. asked'[d] = asked[d]
  BY <1>1, <1>2 DEF Gate!Cmds
<1>4. QED
  BY <1>1, <1>3 DEF NotOut

(* proceed(): the command goes to the agent, to a probe, or is refused. *)
LEMMA ProceedReady ==
  ASSUME ReadyInv, InOrder, NEW c \in Gate!Cmds, at[c] \in {"none", "queued"},
         phase # "starting", Gate!Proceed(c), UNCHANGED <<phase, signedIn>>
  PROVE  Probes' /\ asked' \in [Gate!Cmds -> Gate!Answers \cup {"none"}]
<1> USE DEF ReadyInv, GateTypes
<1>t. at \in [Gate!Cmds -> {"none", "queued", "probe", "handle", "done", "refused"}]
  BY DEF InOrder
<1>1. CASE phase = "failed"
  <2>1. at' = [at EXCEPT ![c] = "refused"] /\ asked' = asked
    BY <1>1 DEF Gate!Proceed
  <2>2. QED
    BY <1>t, <2>1 DEF Probes, NotOut
<1>2. CASE phase # "failed" /\ Gate!NeedsProbe(c)
  <2>1. PICK a \in Gate!Answers : asked' = [asked EXCEPT ![c] = a]
    BY <1>2 DEF Gate!Proceed, Gate!Probed, Gate!Answers
  <2>2. at' = [at EXCEPT ![c] = "probe"] /\ c \in Prompts /\ phase = "ready"
    BY <1>2 DEF Gate!Proceed, Gate!NeedsProbe
  <2>3. NotOut => NotOut'
    BY <2>1, StaysNotOut
  <2>4. asked' \in [Gate!Cmds -> Gate!Answers \cup {"none"}]
    BY <2>1
  <2>5. QED
    BY <1>t, <2>1, <2>2, <2>3, <2>4 DEF Probes
<1>3. CASE phase # "failed" /\ ~Gate!NeedsProbe(c)
  <2>1. at' = [at EXCEPT ![c] = "handle"] /\ asked' = asked /\ phase = "ready"
        /\ (c \in Prompts => signedIn)
    BY <1>3 DEF Gate!Proceed, Gate!NeedsProbe
  <2>2. NotOut' = NotOut
    BY <2>1 DEF NotOut
  <2>3. QED
    BY <1>t, <2>1, <2>2 DEF Probes
<1>4. QED
  BY <1>1, <1>2, <1>3

(* A command at its turn leaves the queue when it is settled, and only then. *)
LEMMA TurnKeepsHead ==
  ASSUME InOrder, OnlyHeadWorks, NEW c \in Gate!Cmds, NEW l \in {"probe", "handle", "done", "refused"},
         at[c] \in {"probe", "handle"} \/ (at[c] = "queued" /\ waiting # <<>> /\ Head(waiting) = c),
         at' = [at EXCEPT ![c] = l], Gate!Popped(c)
  PROVE  OnlyHeadWorks'
<1>t. /\ at \in [Gate!Cmds -> {"none", "queued", "probe", "handle", "done", "refused"}]
      /\ waiting \in Seq(Gate!Cmds)
      /\ \A i, j \in 1..Len(waiting) : i < j => waiting[i] # waiting[j]
  BY NotBothBefore DEF InOrder
<1>n. /\ at'[c] = l /\ \A d \in Gate!Cmds \ {c} : at'[d] = at[d]
      /\ Len(waiting) \in Nat /\ \A i \in 1..Len(waiting) : waiting[i] \in Gate!Cmds
  BY <1>t, LenProperties, ElementOfSeq
<1>h. waiting # <<>> => Len(waiting) > 0 /\ Head(waiting) = waiting[1]
  BY <1>t, <1>n, EmptySeq, HeadTailProperties
<1>c. \A i \in 1..Len(waiting) : waiting[i] = c => i = 1
  <2> SUFFICES ASSUME NEW i \in 1..Len(waiting), waiting[i] = c, i # 1 PROVE FALSE
    OBVIOUS
  <2>1. at[c] = "queued"
    BY DEF OnlyHeadWorks
  <2>2. waiting[1] = c
    BY <1>h, <2>1
  <2>3. 1 \in 1..Len(waiting) /\ 1 < i
    BY <1>n
  <2>4. QED
    BY <1>t, <2>2, <2>3
<1>1. CASE waiting' = waiting /\ l \in {"probe", "handle"}
  BY <1>n, <1>c, <1>1 DEF OnlyHeadWorks
<1>2. CASE l \in {"done", "refused"} /\ waiting' = waiting /\ ~(waiting # <<>> /\ Head(waiting) = c)
  <2>1. \A i \in 1..Len(waiting) : waiting[i] # c
    BY <1>c, <1>h, <1>n, <1>2, EmptySeq
  <2>2. QED
    BY <1>n, <1>2, <2>1 DEF OnlyHeadWorks
<1>3. CASE l \in {"done", "refused"} /\ waiting' = Tail(waiting) /\ waiting # <<>> /\ Head(waiting) = c
  <2>1. /\ Len(waiting') = Len(waiting) - 1 /\ Len(waiting) > 0 /\ waiting[1] = c
        /\ \A i \in 1..Len(waiting') : waiting'[i] = waiting[i + 1]
    BY <1>t, <1>h, <1>3, HeadTailProperties
  <2>2. ASSUME NEW i \in 1..Len(waiting') PROVE at'[waiting'[i]] = "queued"
    <3>1. i + 1 \in 1..Len(waiting) /\ i + 1 # 1 /\ waiting'[i] = waiting[i + 1]
      BY <1>n, <2>1
    <3>2. waiting[i + 1] # c /\ at[waiting[i + 1]] = "queued"
      BY <1>c, <3>1 DEF OnlyHeadWorks
    <3>3. QED
      BY <1>n, <3>1, <3>2
  <2>3. ASSUME NEW d \in Gate!Cmds, at'[d] = "queued"
        PROVE  \E i \in 1..Len(waiting') : waiting'[i] = d
    <3>1. d # c /\ at[d] = "queued"
      BY <1>n, <1>3, <2>3
    <3>2. PICK i \in 1..Len(waiting) : waiting[i] = d
      BY <3>1 DEF OnlyHeadWorks
    <3>3. i # 1 /\ i - 1 \in 1..Len(waiting') /\ waiting'[i - 1] = waiting[(i - 1) + 1]
      BY <1>n, <2>1, <3>1, <3>2
    <3>4. (i - 1) + 1 = i
      BY <1>n
    <3>5. QED
      BY <3>2, <3>3, <3>4
  <2>4. QED
    BY <2>2, <2>3 DEF OnlyHeadWorks
<1>4. QED
  BY <1>n, <1>1, <1>2, <1>3 DEF Gate!Popped, Gate!WithoutHead, Gate!Settled

LEMMA ReadyStep == InOrder /\ ReadyInv /\ [Gate!Next]_gateVars => ReadyInv'
<1> SUFFICES ASSUME InOrder, ReadyInv, [Gate!Next]_gateVars PROVE ReadyInv'
  OBVIOUS
<1> USE DEF ReadyInv
<1>t. /\ at \in [Gate!Cmds -> {"none", "queued", "probe", "handle", "done", "refused"}]
      /\ waiting \in Seq(Gate!Cmds) /\ Len(waiting) \in Nat
  BY LenProperties DEF InOrder
(* Those that have arrived stay so. *)
<1>a. ASSUME NEW c \in Gate!Cmds, NEW l \in {"queued", "probe", "handle", "done", "refused"},
             at' = [at EXCEPT ![c] = l]
      PROVE  Gate!Arrived \subseteq Gate!Arrived' /\ c \in Gate!Arrived'
  BY <1>t, <1>a DEF Gate!Arrived
<1>1. CASE Gate!StartupSettles
  <2>1. /\ phase = "starting" /\ phase' \in {"ready", "failed"}
        /\ authProbe' \in Gate!Answers \cup {"none"}
        /\ UNCHANGED <<waiting, at, signedIn, asked, account, signIns, order, outSince>>
    BY <1>1 DEF Gate!StartupSettles, Gate!Probed, GateTypes, Gate!Answers
  <2>2. QED
    BY <2>1 DEF GateTypes, OnlyHeadWorks, Probes, NotOut, Gate!Arrived
<1>2. CASE Gate!AccountChanges
  <2>1. /\ signIns' \in 0..MaxSignIns /\ account' \in {"in", "out"}
        /\ outSince' \subseteq Gate!Arrived
        /\ UNCHANGED <<phase, waiting, at, signedIn, authProbe, asked, order>>
    BY <1>2, StartAssumption DEF Gate!AccountChanges, GateTypes
  <2>2. QED
    BY <2>1 DEF GateTypes, OnlyHeadWorks, Probes, NotOut, Gate!Arrived
<1>3. ASSUME NEW c \in Gate!Cmds, Gate!Arrive(c) PROVE ReadyInv'
  <2>1. /\ at[c] = "none" /\ outSince' \subseteq outSince \cup {c}
        /\ UNCHANGED <<phase, signedIn, authProbe, account, signIns>>
    BY <1>3 DEF Gate!Arrive
  <2>2. CASE Gate!Inline /\ Gate!Proceed(c) /\ waiting' = waiting
    <3>1. waiting = <<>> /\ Len(waiting) = 0 /\ phase # "starting"
      BY <2>2, EmptySeq DEF Gate!Inline, Gate!StartupOver
    <3>2. PICK l \in {"refused", "probe", "handle"} : at' = [at EXCEPT ![c] = l]
      BY <2>2, ProceedMoves
    <3>3. Probes' /\ asked' \in [Gate!Cmds -> Gate!Answers \cup {"none"}]
      BY <2>1, <2>2, <3>1, ProceedReady
    <3>4. OnlyHeadWorks'
      BY <1>t, <2>2, <3>1, <3>2 DEF OnlyHeadWorks
    <3>5. Gate!Arrived \cup {c} \subseteq Gate!Arrived'
      BY <1>a, <3>2
    <3>6. QED
      BY <2>1, <3>3, <3>4, <3>5 DEF GateTypes
  <2>3. CASE /\ waiting' = Append(waiting, c) /\ at' = [at EXCEPT ![c] = "queued"]
             /\ asked' = asked
    <3>1. /\ Len(waiting') = Len(waiting) + 1 /\ waiting'[Len(waiting) + 1] = c
          /\ \A i \in 1..Len(waiting) : waiting'[i] = waiting[i]
      BY <1>t, <2>3, AppendProperties
    <3>2. \A i \in 1..Len(waiting) : waiting[i] \in Gate!Cmds /\ waiting[i] # c
      BY <1>t, <2>1, ElementOfSeq DEF OnlyHeadWorks
    <3>3. OnlyHeadWorks'
      <4>1. ASSUME NEW i \in 1..Len(waiting')
            PROVE  at'[waiting'[i]] = "queued" \/ (i = 1 /\ at'[waiting'[i]] \in {"probe", "handle"})
        <5>1. CASE i \in 1..Len(waiting)
          BY <1>t, <2>3, <3>1, <3>2, <5>1 DEF OnlyHeadWorks
        <5>2. CASE i = Len(waiting) + 1
          BY <1>t, <2>3, <3>1, <5>2
        <5>3. QED
          BY <1>t, <3>1, <5>1, <5>2
      <4>2. ASSUME NEW d \in Gate!Cmds, at'[d] = "queued"
            PROVE  \E i \in 1..Len(waiting') : waiting'[i] = d
        <5>1. CASE d = c
          BY <1>t, <3>1, <5>1
        <5>2. CASE d # c
          <6>1. PICK i \in 1..Len(waiting) : waiting[i] = d
            BY <1>t, <2>3, <4>2, <5>2 DEF OnlyHeadWorks
          <6>2. i \in 1..Len(waiting') /\ waiting'[i] = d
            BY <1>t, <3>1, <6>1
          <6>3. QED
            BY <6>2
        <5>3. QED
          BY <5>1, <5>2
      <4>3. QED
        BY <4>1, <4>2 DEF OnlyHeadWorks
    <3>4. Probes'
      BY <1>t, <2>1, <2>3 DEF Probes, NotOut
    <3>5. Gate!Arrived \cup {c} \subseteq Gate!Arrived'
      BY <1>a, <2>3
    <3>6. QED
      BY <2>1, <2>3, <3>3, <3>4, <3>5 DEF GateTypes
  <2>4. QED
    BY <1>3, <2>2, <2>3 DEF Gate!Arrive
<1>4. ASSUME NEW c \in Gate!Cmds, Gate!Dequeue(c) PROVE ReadyInv'
  <2>1. /\ phase # "starting" /\ at[c] = "queued" /\ waiting # <<>> /\ Head(waiting) = c
        /\ Gate!Proceed(c) /\ Gate!Popped(c)
        /\ UNCHANGED <<phase, signedIn, authProbe, account, signIns, order, outSince>>
    BY <1>4 DEF Gate!Dequeue, Gate!StartupOver
  <2>2. PICK l \in {"refused", "probe", "handle"} : at' = [at EXCEPT ![c] = l]
    BY <2>1, ProceedMoves
  <2>3. Probes' /\ asked' \in [Gate!Cmds -> Gate!Answers \cup {"none"}]
    BY <2>1, ProceedReady
  <2>4. OnlyHeadWorks'
    BY <2>1, <2>2, TurnKeepsHead
  <2>5. Gate!Arrived \subseteq Gate!Arrived'
    BY <1>a, <2>2
  <2>6. QED
    BY <2>1, <2>3, <2>4, <2>5 DEF GateTypes
<1>5. ASSUME NEW c \in Gate!Cmds, Gate!ProbeAnswers(c) PROVE ReadyInv'
  <2>1. /\ at[c] = "probe" /\ authProbe' = "none" /\ Gate!Popped(c)
        /\ at' = [at EXCEPT ![c] = IF Gate!SignedOut(c) THEN "refused" ELSE "handle"]
        /\ signedIn' = (signedIn \/ ~Gate!SignedOut(c))
        /\ UNCHANGED <<phase, asked, account, signIns, order, outSince>>
    BY <1>5 DEF Gate!ProbeAnswers
  <2>2. NotOut' = NotOut /\ (~Gate!SignedOut(c) => NotOut)
    BY <2>1 DEF NotOut, Probes, Gate!SignedOut, Gate!Answers
  <2>3. PICK l \in {"refused", "handle"} : at' = [at EXCEPT ![c] = l] /\ (l = "handle" => NotOut)
    BY <2>1, <2>2
  <2>4. OnlyHeadWorks'
    BY <2>1, <2>3, TurnKeepsHead
  <2>5. Probes'
    BY <1>t, <2>1, <2>2, <2>3 DEF Probes
  <2>6. Gate!Arrived \subseteq Gate!Arrived' /\ signedIn' \in BOOLEAN
    BY <1>a, <2>1, <2>3 DEF GateTypes
  <2>7. QED
    BY <2>1, <2>4, <2>5, <2>6 DEF GateTypes
<1>6. ASSUME NEW c \in Gate!Cmds, Gate!Handled(c) PROVE ReadyInv'
  <2>1. /\ at[c] = "handle" /\ at' = [at EXCEPT ![c] = "done"] /\ Gate!Popped(c)
        /\ UNCHANGED <<phase, signedIn, authProbe, asked, account, signIns, order, outSince>>
    BY <1>6 DEF Gate!Handled
  <2>2. OnlyHeadWorks'
    BY <2>1, TurnKeepsHead
  <2>3. Probes'
    BY <1>t, <2>1 DEF Probes, NotOut
  <2>4. Gate!Arrived \subseteq Gate!Arrived'
    BY <1>a, <2>1
  <2>5. QED
    BY <2>1, <2>2, <2>3, <2>4 DEF GateTypes
<1>7. CASE UNCHANGED gateVars
  BY <1>7 DEF gateVars, GateTypes, OnlyHeadWorks, Probes, NotOut, Gate!Arrived
<1>8. QED
  BY <1>1, <1>2, <1>3, <1>4, <1>5, <1>6, <1>7 DEF Gate!Next, Gate!GateWorks

(* The queue names no command twice. *)
LEMMA QueueOfDistinct ==
  ASSUME InOrder
  PROVE  Cardinality(Gate!Queued) = Len(waiting)
<1>1. /\ waiting \in [1..Len(waiting) -> Gate!Queued] /\ Len(waiting) \in Nat
  BY LenProperties DEF InOrder, Gate!Queued
<1>2. \A i, j \in 1..Len(waiting) : waiting[i] = waiting[j] => i = j
  BY <1>1, NotBothBefore DEF InOrder
<1>3. waiting \in Surjection(1..Len(waiting), Gate!Queued)
  BY <1>1 DEF Surjection, Gate!Queued
<1>4. waiting \in Injection(1..Len(waiting), Gate!Queued)
  BY <1>1, <1>2 DEF Injection, IsInjective
<1>5. ExistsBijection(1..Len(waiting), Gate!Queued)
  BY <1>3, <1>4 DEF ExistsBijection, Bijection
<1>6. QED
  BY <1>1, <1>5, FS_CountingElements

LEMMA GateTypeOK == InOrder /\ ReadyInv => Gate!TypeOK /\ Gate!OnlyReadyAgents
<1> SUFFICES ASSUME InOrder, ReadyInv PROVE Gate!TypeOK /\ Gate!OnlyReadyAgents
  OBVIOUS
<1>1. \A S : Gate!Cardinality(S) = Cardinality(S)
  BY DEF Gate!Cardinality, Cardinality
<1>2. Gate!Cardinality(Gate!Queued) = Len(waiting)
  BY <1>1, QueueOfDistinct
<1>3. \A c \in Gate!Queued : at[c] \notin Gate!Settled \cup {"none"}
  BY DEF ReadyInv, OnlyHeadWorks, Gate!Queued, Gate!Settled
<1>4. \A c \in Gate!Cmds : at[c] = "queued" => c \in Gate!Queued
  BY DEF ReadyInv, OnlyHeadWorks, Gate!Queued
<1>5. at \in [Gate!Cmds -> {"none", "queued", "probe", "handle"} \cup Gate!Settled]
  BY DEF InOrder, Gate!Settled
<1>6. Gate!TypeOK
  BY <1>2, <1>3, <1>4, <1>5 DEF InOrder, ReadyInv, GateTypes, Gate!TypeOK
<1>7. QED
  BY <1>6 DEF ReadyInv, Probes, NotOut, Gate!OnlyReadyAgents

-----------------------------------------------------------------------------
(* The sum. *)
StartInv == LockInv /\ Remembered /\ DeliveryInv /\ GateInv /\ ReadyInv

LEMMA StartInvInit == StartInit => StartInv
BY LockInit, DeliveryInit, ReceivedInit, GateInit, ReadyInit DEF StartInit, StartInv

LEMMA StartStep ==
  ASSUME StartInv, [StartNext]_startVars
  PROVE  /\ StartInv'
         /\ [\A s \in Slots : Delivery!RunsAgain(s) => Head(batch[s]) \in evicted]_deliveryVars
<1> USE DEF StartInv
<1>1. [Next]_vars /\ [Delivery!Next]_deliveryVars /\ [Gate!Next]_gateVars
  BY DEF StartNext, LockMoves, DeliveryMoves, GateMoves, startVars
<1>2. LockInv'
  BY <1>1, LockStep
<1>3. DeliveryInv'
  BY <1>1, ReceivedStep
<1>4. GateInv' /\ ReadyInv'
  BY <1>1, GateStep, ReadyStep DEF GateInv
<1>5. QED
  BY <1>1, <1>2, <1>3, <1>4, DeliveryStep

LEMMA StartInvariant == StartSpec => []StartInv
BY StartInvInit, StartStep, PTL DEF StartSpec

(* withBeadsProvisionLock: two processes hold the lock only after one of them has
   removed a directory that it had not judged, or presumed a live holder dead, for any
   number of processes, wherever they die and whichever file-system calls fail.  A
   process that goes on because it could not lock is no holder. *)
THEOREM OneHolder == Spec => []MutexUnlessStolen
<1>1. LockInv => MutexUnlessStolen
  BY DEF LockInv, OneInside, Inside, MutexUnlessStolen
<1>2. QED
  BY LockInvariant, <1>1, PTL

(* makeStartupGate: the agent never sees a command before those that came earlier
   and wait, whatever the startup and the probes come to. *)
THEOREM NoOvertaking == StartSpec => []QueueNotOvertaken
<1>1. StartInv => QueueNotOvertaken
  BY DEF StartInv, GateInv, QueueNotOvertaken
<1>2. QED
  BY StartInvariant, <1>1, PTL

(* The relay's dispatch: a command is handed over again within one life of the
   CLI only if its id was evicted, for any number of overlapping batches. *)
THEOREM TwiceNeedsEviction == StartSpec => TwiceOnlyIfEvicted
<1>1. StartInv /\ [StartNext]_startVars =>
        [\A s \in Slots : Delivery!RunsAgain(s) => Head(batch[s]) \in evicted]_deliveryVars
  BY StartStep
<1>2. QED
  BY StartInvariant, <1>1, PTL DEF StartSpec, TwiceOnlyIfEvicted, Delivery!TwiceOnlyIfEvicted,
     Delivery!vars, deliveryVars

(* A command that the backend has drained was in hand: what is lost is lost by a
   crash between the ack and the handler. *)
THEOREM DrainedIsInHand == StartSpec => []Delivery!DrainedWasReceived
<1>1. StartInv => Delivery!DrainedWasReceived
  BY DEF StartInv, DeliveryInv, Received
<1>2. QED
  BY StartInvariant, <1>1, PTL

(* What the states of the three are; no command reaches an agent that is not up, no
   prompt one that every probe has seen signed out. *)
THEOREM TypeCorrect == StartSpec => []StartTypeOK
<1>1. StartInv => StartTypeOK
  BY GateTypeOK DEF StartInv, LockInv, GateInv, DeliveryInv, Received, StartTypeOK
<1>2. QED
  BY StartInvariant, <1>1, PTL
=============================================================================
