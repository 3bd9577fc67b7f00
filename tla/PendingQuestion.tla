--------------------------- MODULE PendingQuestion ---------------------------
(***************************************************************************)
(* The one pending question of a session (StreamingState in                *)
(* agents/acp/runner.ts).  A permission request is first published to the  *)
(* phone, then registered with a TTL timer; the tap comes back as a        *)
(* select_option command that names an option but no question.  A turn     *)
(* that opens, a later request and the options found in a reply all take   *)
(* the slot over.  What the phone is told of it is a frame of the turn's:  *)
(* the notices of an expiry and of a request that the gate denies, which   *)
(* never takes the slot, are StreamedTurn's Notice.                        *)
(***************************************************************************)
EXTENDS Naturals, FiniteSets

CONSTANTS
  Perms,       \* permission requests
  NoQuestion, Freeform,
  MaxTurns     \* bound: turns that open, and replies that end in options

ASSUME QuestionAssumption ==
  NoQuestion # Freeform /\ {NoQuestion, Freeform} \cap Perms = {} /\ MaxTurns \in Nat

VARIABLES
  asked,       \* where each request is
  pending,     \* StreamingState.pending
  timers,      \* requests whose TTL timer is armed
  taps,        \* select_option commands on their way, by the question on the phone
  tapped,      \* questions the user has answered
  turns, replies,
  (* history *)
  superseded,  \* registered requests whose slot was taken over
  settledBy    \* request |-> the question whose tap settled it

vars == <<asked, pending, timers, taps, tapped, turns, replies, superseded, settledBy>>

Shown == {q \in Perms : asked[q] # "new"} \cup {Freeform}

TypeOK ==
  /\ asked \in [Perms -> {"new", "publishing", "registered", "answered", "expired"}]
  /\ pending \in Perms \cup {NoQuestion, Freeform}
  /\ timers \in SUBSET Perms
  /\ taps \in SUBSET (Perms \cup {Freeform}) /\ tapped \in SUBSET Perms
  /\ turns \in 0..MaxTurns /\ replies \in 0..MaxTurns
  /\ superseded \in SUBSET Perms
  /\ settledBy \in [Perms -> Perms \cup {NoQuestion, Freeform}]

Init ==
  /\ asked = [q \in Perms |-> "new"] /\ pending = NoQuestion /\ timers = {}
  /\ taps = {} /\ tapped = {} /\ turns = 0 /\ replies = 0
  /\ superseded = {} /\ settledBy = [q \in Perms |-> NoQuestion]

(* setPending: whatever held the slot loses it. *)
SetPending(next) ==
  /\ pending' = next
  /\ superseded' = superseded \cup (Perms \cap {pending})

-----------------------------------------------------------------------------
(* The adapter asks; the gate publishes the question and awaits the POST. *)
Ask(q) ==
  /\ asked[q] = "new"
  /\ asked' = [asked EXCEPT ![q] = "publishing"]
  /\ UNCHANGED <<pending, timers, taps, tapped, turns, replies, superseded, settledBy>>

NoTimer(q) == timers                             \* fault: no TTL
Armed(q) == timers \cup {q}

RegisterPermission(q) ==
  /\ asked[q] = "publishing"
  /\ asked' = [asked EXCEPT ![q] = "registered"]
  /\ SetPending(q) /\ timers' = Armed(q)
  /\ UNCHANGED <<taps, tapped, turns, replies, settledBy>>

(* A reply that ends in a question with numbered options. *)
RegisterFreeform ==
  /\ replies < MaxTurns
  /\ replies' = replies + 1
  /\ SetPending(Freeform)
  /\ UNCHANGED <<asked, timers, taps, tapped, turns, settledBy>>

(* beginTurn: a fresh prompt supersedes the question and stops its timer. *)
BeginTurn ==
  /\ turns < MaxTurns
  /\ turns' = turns + 1
  /\ timers' = timers \ {pending} /\ SetPending(NoQuestion)
  /\ UNCHANGED <<asked, taps, tapped, replies, settledBy>>

-----------------------------------------------------------------------------
(* The user taps an option of a question the phone shows. *)
Tap(q) ==
  /\ q \in Shown \ tapped /\ (q = Freeform => replies > 0)
  /\ taps' = taps \cup {q} /\ tapped' = tapped \cup (Perms \cap {q})
  /\ UNCHANGED <<asked, pending, timers, turns, replies, superseded, settledBy>>

Vacated == NoQuestion

(* resolveSelection: the slot's question is the one that is answered. *)
SelectOption(q) ==
  /\ q \in taps
  /\ taps' = taps \ {q}
  /\ timers' = timers \ {pending} /\ pending' = Vacated
  /\ IF pending \in Perms
     THEN /\ asked' = [asked EXCEPT ![pending] = "answered"]
          /\ settledBy' = [settledBy EXCEPT ![pending] = q]
     ELSE UNCHANGED <<asked, settledBy>>
  /\ UNCHANGED <<tapped, turns, replies, superseded>>

AnyPermission(q) == pending \in Perms            \* fault: questionId not compared
OwnQuestion(q) == pending = q

(* The adapter is told that it is cancelled, and the user in a notice. *)
TtlExpires(q) ==
  /\ q \in timers
  /\ timers' = timers \ {q}
  /\ IF OwnQuestion(q)
     THEN pending' = NoQuestion /\ asked' = [asked EXCEPT ![q] = "expired"]
     ELSE UNCHANGED <<pending, asked>>
  /\ UNCHANGED <<taps, tapped, turns, replies, superseded, settledBy>>

Next ==
  \/ \E q \in Perms : Ask(q) \/ RegisterPermission(q) \/ TtlExpires(q)
  \/ \E q \in Perms \cup {Freeform} : Tap(q) \/ SelectOption(q)
  \/ RegisterFreeform \/ BeginTurn

(* The publish POST settles, and timers fire. *)
Spec ==
  /\ Init /\ [][Next]_vars
  /\ \A q \in Perms : WF_vars(RegisterPermission(q)) /\ WF_vars(TtlExpires(q))

-----------------------------------------------------------------------------
Settled(q) == asked[q] \in {"answered", "expired"}

(* The permission in the slot is unsettled and its TTL is running, so it cannot
   stay there for ever. *)
SlotHasTtl ==
  pending \in Perms => pending \in timers /\ asked[pending] = "registered"

(* Only a takeover of the slot leaves the adapter without an answer: no tap and no
   timer of another question does. *)
LostOnlyByTakeover ==
  \A q \in Perms : asked[q] = "registered" => q \in superseded \cup {pending}

(* A request that is asked is answered, expires or loses the slot. *)
SettlesUnlessTakenOver ==
  \A q \in Perms : asked[q] = "publishing" ~> Settled(q) \/ q \in superseded

(* "any pending permission Promise is left to its own TTL". *)
EveryRequestSettles == \A q \in Perms : asked[q] = "publishing" ~> Settled(q)

(* "so the SSE-driven select_option relay command can resolve whichever is active
   without ambiguity": a tap settles the question it was given to. *)
TapSettlesItsQuestion ==
  \A q \in Perms : settledBy[q] \in {NoQuestion, q}
=============================================================================
