----------------------------- MODULE StartupGate -----------------------------
(***************************************************************************)
(* makeStartupGate (baton/wire-baton.ts): what an agent-bound command gets *)
(* while the agent starts, when it could not start, and when its user is   *)
(* not signed in.  Commands that do not need the agent bypass the gate.    *)
(* The probe's answer is the sign-in state at its launch, or "unknown".    *)
(***************************************************************************)
EXTENDS Naturals, Sequences, FiniteSets

CONSTANTS
  Prompts,       \* start_task commands
  Others,        \* other agent-bound commands
  MaxSignIns     \* bound: changes of the sign-in state

VARIABLES
  phase,         \* "starting", "ready", "failed"
  waiting,       \* the queued commands; the head is the one being worked on
  at,            \* where each command is
  signedIn,      \* the flag
  authProbe,     \* answer of the warm probe, "none" without one
  asked,         \* answer of the probe a command awaits
  account,       \* the agent's real sign-in state
  signIns,
  (* history *)
  order,         \* commands in arrival order
  outSince       \* commands since whose arrival the account was signed out once

Cmds == Prompts \cup Others
Answers == {"in", "out", "unknown"}
Settled == {"done", "refused"}

vars == <<phase, waiting, at, signedIn, authProbe, asked, account, signIns, order, outSince>>

Arrived == {c \in Cmds : at[c] # "none"}
Queued == {waiting[i] : i \in 1..Len(waiting)}

TypeOK ==
  /\ phase \in {"starting", "ready", "failed"}
  /\ waiting \in Seq(Cmds) /\ Cardinality(Queued) = Len(waiting)
  /\ at \in [Cmds -> {"none", "queued", "probe", "handle"} \cup Settled]
  /\ \A c \in Cmds : at[c] = "queued" => c \in Queued
  /\ \A c \in Queued : at[c] \notin Settled \cup {"none"}
  /\ signedIn \in BOOLEAN /\ authProbe \in Answers \cup {"none"}
  /\ asked \in [Cmds -> Answers \cup {"none"}]
  /\ account \in {"in", "out"} /\ signIns \in 0..MaxSignIns
  /\ order \in Seq(Cmds) /\ outSince \subseteq Arrived

Init ==
  /\ phase = "starting" /\ waiting = <<>> /\ at = [c \in Cmds |-> "none"]
  /\ signedIn = FALSE /\ authProbe = "none" /\ asked = [c \in Cmds |-> "none"]
  /\ account \in {"in", "out"} /\ signIns = 0
  /\ order = <<>> /\ outSince = {}

-----------------------------------------------------------------------------
(* The probe: what it will answer, if launched now. *)
Probed == {account, "unknown"}

(* deps.startup settles; a ready agent is probed at once. *)
StartupSettles ==
  /\ phase = "starting"
  /\ \/ phase' = "ready" /\ authProbe' \in Probed
     \/ phase' = "failed" /\ UNCHANGED authProbe
  /\ UNCHANGED <<waiting, at, signedIn, asked, account, signIns, order, outSince>>

(* proceed(cmd), up to its first await. *)
NeedsProbe(c) == c \in Prompts /\ ~signedIn

Proceed(c) ==
  \/ /\ phase = "failed"
     /\ at' = [at EXCEPT ![c] = "refused"] /\ UNCHANGED asked
  \/ /\ phase # "failed" /\ NeedsProbe(c)
     /\ at' = [at EXCEPT ![c] = "probe"]
     /\ \E answer \in IF authProbe = "none" THEN Probed ELSE {authProbe} :
          asked' = [asked EXCEPT ![c] = answer]
  \/ /\ phase # "failed" /\ ~NeedsProbe(c)
     /\ at' = [at EXCEPT ![c] = "handle"] /\ UNCHANGED asked

(* The gate: inline once the agent is up and the queue is empty. *)
StartupOver == phase # "starting"

InlineWhenUp == StartupOver                      \* fault: overtakes the queue
Inline == StartupOver /\ waiting = <<>>

Arrive(c) ==
  /\ at[c] = "none"
  /\ order' = Append(order, c)
  /\ outSince' = IF account = "out" THEN outSince \cup {c} ELSE outSince
  /\ IF Inline
     THEN Proceed(c) /\ UNCHANGED waiting
     ELSE waiting' = Append(waiting, c) /\ at' = [at EXCEPT ![c] = "queued"] /\ UNCHANGED asked
  /\ UNCHANGED <<phase, signedIn, authProbe, account, signIns>>

(* The queue's head gets its turn; a settled head leaves the queue. *)
KeepsHead(c) == waiting                          \* fault: queued is not decremented
WithoutHead(c) == IF waiting # <<>> /\ Head(waiting) = c THEN Tail(waiting) ELSE waiting

Popped(c) == waiting' = IF at'[c] \in Settled THEN WithoutHead(c) ELSE waiting

Dequeue(c) ==
  /\ StartupOver /\ waiting # <<>> /\ Head(waiting) = c /\ at[c] = "queued"
  /\ Proceed(c) /\ Popped(c)
  /\ UNCHANGED <<phase, signedIn, authProbe, account, signIns, order, outSince>>

(* The awaited probe answers; "unknown" fails open. *)
SignedOut(c) == asked[c] = "out"

ProbeAnswers(c) ==
  /\ at[c] = "probe"
  /\ authProbe' = "none"
  /\ at' = [at EXCEPT ![c] = IF SignedOut(c) THEN "refused" ELSE "handle"]
  /\ signedIn' = (signedIn \/ ~SignedOut(c))
  /\ Popped(c)
  /\ UNCHANGED <<phase, asked, account, signIns, order, outSince>>

(* handle(cmd) settles. *)
Handled(c) ==
  /\ at[c] = "handle"
  /\ at' = [at EXCEPT ![c] = "done"] /\ Popped(c)
  /\ UNCHANGED <<phase, signedIn, authProbe, asked, account, signIns, order, outSince>>

(* The user signs in or out at the computer. *)
AccountChanges ==
  /\ signIns < MaxSignIns
  /\ signIns' = signIns + 1
  /\ account' = IF account = "in" THEN "out" ELSE "in"
  /\ outSince' = IF account' = "out" THEN Arrived ELSE outSince
  /\ UNCHANGED <<phase, waiting, at, signedIn, authProbe, asked, order>>

GateWorks(c) == Dequeue(c) \/ ProbeAnswers(c)

Next ==
  \/ StartupSettles \/ AccountChanges
  \/ \E c \in Cmds : Arrive(c) \/ GateWorks(c) \/ Handled(c)

(* The gate's own steps are taken, and a probe has a timeout.  The startup "can wait
   forever on an install prompt", and a handler may be a turn that never ends. *)
Spec == Init /\ [][Next]_vars /\ \A c \in Cmds : WF_vars(GateWorks(c))

-----------------------------------------------------------------------------
Before(d, c) ==
  \E i, j \in 1..Len(order) : i < j /\ order[i] = d /\ order[j] = c

(* A command never reaches the agent before a queued one that came earlier has
   been answered: a deferred prompt is not overtaken by the stop meant for it. *)
QueueNotOvertaken ==
  \A c, d \in Cmds : at[c] \in {"probe", "handle"} /\ Before(d, c) /\ c # d => d \notin Queued

(* A command reaches only an agent that is up, and a prompt only one that some
   probe has not seen signed out: none is typed into a sign-in screen. *)
OnlyReadyAgents ==
  \A c \in Cmds : at[c] \in {"handle", "done"} =>
    /\ phase = "ready"
    /\ c \in Prompts => \E d \in Prompts : asked[d] \in {"in", "unknown"}

(* "Re-probed on each prompt until it is signed in": a prompt is refused for
   the sign-in only if its user was signed out at some time since it came. *)
RefusedOnlySignedOut ==
  \A c \in Prompts : at[c] = "refused" /\ phase = "ready" => c \in outSince

(* The startup is under way, or the handler of the command or of the one at the
   head of the queue. *)
HeldUp(c) ==
  \/ phase = "starting" \/ at[c] = "handle"
  \/ c \in Queued /\ at[Head(waiting)] = "handle"

(* Every command is answered, whatever the startup comes to, unless the startup or a
   handler before it never settles: nothing else holds a command in the gate. *)
EveryCommandSettles ==
  \A c \in Cmds : (at[c] # "none" ~> at[c] \in Settled) \/ <>[]HeldUp(c)
=============================================================================
