---------------------------- MODULE ProvisionLock ----------------------------
(***************************************************************************)
(* withBeadsProvisionLock (beads/provision-lock.ts): the machine-wide lock *)
(* under which the sessions of one computer provision beads.  The lock is  *)
(* a directory (mkdir is atomic) with the holder's pid in a file.  The     *)
(* processes interleave at each file-system call, and each call may fail.  *)
(* The directory's age is kept as the bracket the code tells apart: up to  *)
(* 10 s, up to STALE_LOCK_MS, older.                                       *)
(***************************************************************************)
EXTENDS FiniteSets, Naturals

CONSTANTS
  Procs,     \* CLI processes
  NoPid,     \* the directory has no pid file
  Empty,     \* the pid file has been opened and not written yet
  MaxCrashes,\* bound: processes that die
  MaxErrors  \* bound: file-system calls that fail

ASSUME LockAssumption ==
  /\ NoPid \notin Procs /\ Empty \notin Procs /\ NoPid # Empty
  /\ MaxCrashes \in Nat /\ MaxErrors \in Nat

VARIABLES
  dir,       \* the lock directory exists
  owner,     \* the pid in it
  opened,    \* processes that have the pid file in it open
  age,       \* its age bracket
  pc,        \* where each process is; "fn" as a holder, "bare" without the lock
  seenAge,   \* the age each process read
  errors,    \* calls that failed
  (* history *)
  maker,     \* the process that made the directory
  same,      \* the directory is still the one the process looked at
  unlocked,  \* processes that go on as holders because they could not lock
  stolen,    \* a process removed a directory other than the one it looked at
  outstayed  \* a live holder was presumed dead

lockv == <<dir, owner, opened, age>>
vars  == <<lockv, pc, seenAge, errors, maker, same, unlocked, stolen, outstayed>>

Making == {"open", "write", "openAgain", "writeAgain"}
Acquiring == Making \cup {"mkdir", "stat", "read", "remove", "again", "wait"}
Steps == Acquiring \cup {"fn", "bare", "release", "releaseRm", "done", "dead"}

Dead == {p \in Procs : pc[p] = "dead"}
Holders == {p \in Procs : pc[p] \in {"fn", "release", "releaseRm"}} \ unlocked

TypeOK ==
  /\ dir \in BOOLEAN /\ owner \in Procs \cup {NoPid, Empty} /\ age \in 0..2
  /\ opened \in SUBSET Procs
  /\ pc \in [Procs -> Steps] /\ seenAge \in [Procs -> 0..2]
  /\ errors \in 0..MaxErrors
  /\ maker \in Procs \cup {NoPid} /\ same \in [Procs -> BOOLEAN]
  /\ unlocked \in SUBSET Procs /\ stolen \in BOOLEAN /\ outstayed \in BOOLEAN
  /\ ~dir => owner = NoPid /\ age = 0 /\ maker = NoPid
  /\ owner = NoPid => opened = {}
  /\ \A p \in Procs : pc[p] # "read" => seenAge[p] = 0

Init ==
  /\ dir = FALSE /\ owner = NoPid /\ opened = {} /\ age = 0
  /\ pc = [p \in Procs |-> "mkdir"] /\ seenAge = [p \in Procs |-> 0] /\ errors = 0
  /\ maker = NoPid /\ same = [p \in Procs |-> FALSE]
  /\ unlocked = {} /\ stolen = FALSE /\ outstayed = FALSE

-----------------------------------------------------------------------------
Goto(p, l) == pc' = [pc EXCEPT ![p] = l]

Errs == errors < MaxErrors /\ errors' = errors + 1
ErrsUnless(b) == IF b THEN UNCHANGED errors ELSE Errs

(* mkdirSync of the lock directory; FALSE stands for EEXIST. *)
MakesAnyway == TRUE                              \* fault: exists check, then mkdir
Makes == ~dir

MakeDir(p) ==
  /\ dir' = TRUE /\ owner' = NoPid /\ opened' = {} /\ age' = 0 /\ maker' = p
  /\ same' = [q \in Procs |-> FALSE]

(* rmSync: whatever directory is there now, the pid file first. *)
RemoveDir(p) ==
  /\ dir' = FALSE /\ owner' = NoPid /\ opened' = {} /\ age' = 0
  /\ same' = [q \in Procs |-> FALSE]
  /\ stolen' = (stolen \/ (dir /\ ~same[p]))
  /\ maker' = NoPid /\ UNCHANGED errors

RemoveFails ==
  /\ Errs
  /\ \/ owner' = NoPid /\ opened' = {} /\ age' = 0
     \/ UNCHANGED <<owner, opened, age>>
  /\ UNCHANGED <<dir, maker, same, stolen>>

(* An error other than EEXIST: the first attempt counts as acquired ("can't lock,
   don't block"), the one after a removal does not. *)
CannotLock(p) ==
  IF pc[p] \in {"mkdir", "open", "write"}
  THEN Goto(p, "fn") /\ unlocked' = unlocked \cup {p}
  ELSE Goto(p, "wait") /\ UNCHANGED unlocked

Mkdir(p) ==
  /\ pc[p] = "mkdir"
  /\ \/ Makes /\ MakeDir(p) /\ Goto(p, "open") /\ UNCHANGED <<errors, unlocked>>
     \/ ~Makes /\ Goto(p, "stat") /\ UNCHANGED <<lockv, errors, maker, same, unlocked>>
     \/ Errs /\ CannotLock(p) /\ UNCHANGED <<lockv, maker, same>>
  /\ UNCHANGED <<seenAge, stolen, outstayed>>

(* writeFileSync of the pid: the file is opened, empty ... *)
OpenPid(p) ==
  /\ pc[p] \in {"open", "openAgain"}
  /\ \/ /\ dir
        /\ owner' = Empty /\ opened' = opened \cup {p}
        /\ age' = IF owner = NoPid THEN 0 ELSE age
        /\ Goto(p, IF pc[p] = "open" THEN "write" ELSE "writeAgain")
        /\ UNCHANGED <<dir, errors, unlocked>>
     \/ ErrsUnless(~dir) /\ CannotLock(p) /\ UNCHANGED lockv
  /\ UNCHANGED <<seenAge, maker, same, stolen, outstayed>>

(* ... and written, for nobody to read if it was removed meanwhile. *)
PidWritten(p) == IF p \in opened THEN p ELSE owner

WritePid(p) ==
  /\ pc[p] \in {"write", "writeAgain"}
  /\ opened' = opened \ {p}
  /\ \/ owner' = PidWritten(p) /\ Goto(p, "fn") /\ UNCHANGED <<errors, unlocked>>
     \/ Errs /\ CannotLock(p) /\ UNCHANGED owner
  /\ UNCHANGED <<dir, age, seenAge, maker, same, stolen, outstayed>>

Stat(p) ==
  /\ pc[p] = "stat"
  /\ \/ /\ dir /\ Goto(p, "read")
        /\ seenAge' = [seenAge EXCEPT ![p] = age]
        /\ same' = [same EXCEPT ![p] = TRUE]
        /\ UNCHANGED errors
     \/ ErrsUnless(~dir) /\ Goto(p, "again") /\ UNCHANGED <<seenAge, same>>
  /\ UNCHANGED <<lockv, maker, unlocked, stolen, outstayed>>

(* The pid file is read, or cannot be, and its process judged: alive and in time,
   about to write its pid, or presumed dead; so is one that has not written it yet. *)
Blocks(p, pid) == IF pid = NoPid THEN seenAge[p] = 0
                                 ELSE pid \in Procs \ Dead /\ seenAge[p] < 2

HolderLives == maker \in Holders \cup {q \in Procs : pc[q] \in Making}

ReadPid(p) ==
  /\ pc[p] = "read"
  /\ seenAge' = [seenAge EXCEPT ![p] = 0]
  /\ \E pid \in {owner, NoPid} :
       /\ ErrsUnless(pid = owner)
       /\ Goto(p, IF Blocks(p, pid) THEN "wait" ELSE "remove")
       /\ outstayed' = (outstayed \/ (~Blocks(p, pid) /\ HolderLives))
       /\ same' = [same EXCEPT ![p] = @ /\ ~Blocks(p, pid)]
  /\ UNCHANGED <<lockv, maker, unlocked, stolen>>

Remove(p) ==
  /\ pc[p] = "remove"
  /\ \/ RemoveDir(p) /\ Goto(p, "again")
     \/ RemoveFails /\ Goto(p, "wait")
  /\ UNCHANGED <<seenAge, unlocked, outstayed>>

(* tryAcquireOnce *)
MkdirAgain(p) ==
  /\ pc[p] = "again"
  /\ \/ Makes /\ MakeDir(p) /\ Goto(p, "openAgain") /\ UNCHANGED <<errors, unlocked>>
     \/ ErrsUnless(~Makes) /\ CannotLock(p) /\ UNCHANGED <<lockv, maker, same>>
  /\ UNCHANGED <<seenAge, stolen, outstayed>>

(* The loop of withBeadsProvisionLock: sleep and try again, or, past the
   deadline, run fn without the lock. *)
TryAgain(p) ==
  /\ pc[p] = "wait" /\ Goto(p, "mkdir")
  /\ UNCHANGED <<lockv, seenAge, errors, maker, same, unlocked, stolen, outstayed>>

HasDeadline == TRUE

RunAnyway(p) ==
  /\ pc[p] = "wait" /\ HasDeadline /\ Goto(p, "bare")
  /\ UNCHANGED <<lockv, seenAge, errors, maker, same, unlocked, stolen, outstayed>>

(* fn settles either way; the finally releases a lock that is still ours, if it
   can. *)
AfterFn(p) == IF pc[p] = "fn" THEN "release" ELSE "done"

FnSettles(p) ==
  /\ pc[p] \in {"fn", "bare"} /\ Goto(p, AfterFn(p))
  /\ UNCHANGED <<lockv, seenAge, errors, maker, same, unlocked, stolen, outstayed>>

Release(p) ==
  /\ pc[p] = "release"
  /\ \/ owner = p /\ Goto(p, "releaseRm") /\ same' = [same EXCEPT ![p] = TRUE] /\ UNCHANGED errors
     \/ ErrsUnless(owner # p) /\ Goto(p, "done") /\ UNCHANGED same
  /\ UNCHANGED <<lockv, seenAge, maker, unlocked, stolen, outstayed>>

ReleaseRm(p) ==
  /\ pc[p] = "releaseRm" /\ Goto(p, "done")
  /\ RemoveDir(p) \/ RemoveFails
  /\ UNCHANGED <<seenAge, unlocked, outstayed>>

Crash(p) ==
  /\ Cardinality(Dead) < MaxCrashes /\ pc[p] # "done"
  /\ pc' = [pc EXCEPT ![p] = "dead"] /\ seenAge' = [seenAge EXCEPT ![p] = 0]
  /\ opened' = opened \ {p}
  /\ UNCHANGED <<dir, owner, age, errors, maker, same, unlocked, stolen, outstayed>>

Ages ==
  /\ dir /\ age < 2
  /\ age' = age + 1
  /\ UNCHANGED <<dir, owner, opened, pc, seenAge, errors, maker, same, unlocked, stolen, outstayed>>

Run(p) ==
  \/ Mkdir(p) \/ OpenPid(p) \/ WritePid(p) \/ Stat(p) \/ ReadPid(p) \/ Remove(p)
  \/ MkdirAgain(p) \/ TryAgain(p) \/ Release(p) \/ ReleaseRm(p)

Next ==
  \/ \E p \in Procs : Run(p) \/ RunAnyway(p) \/ FnSettles(p) \/ Crash(p)
  \/ Ages

(* A live process goes on, and does not try again for ever; its fn may take for
   ever. *)
Spec == Init /\ [][Next]_vars /\ \A p \in Procs : WF_vars(Run(p)) /\ SF_vars(RunAnyway(p))

-----------------------------------------------------------------------------
(* Two processes hold the lock only after one of them removed a directory that
   was not the one it had judged, or presumed a live holder dead; a process that goes
   on because it could not lock does not hold it. *)
MutexUnlessStolen ==
  ~stolen /\ ~outstayed => \A p, q \in Holders : p = q

(* The header's "One beads provisioning at a time per machine", leaving aside
   those that run without the lock and a holder presumed dead while alive. *)
OneAtATime == ~outstayed => \A p, q \in Holders : p = q

(* No lock, not even a dead process's, and no fn that never ends keeps a session from
   provisioning. *)
EveryoneProvisions == \A p \in Procs : <>(pc[p] \in {"fn", "bare", "dead"})
=============================================================================
