----------------------------- MODULE SessionStart -----------------------------
(***************************************************************************)
(* What a command goes through between the backend and the agent of a      *)
(* session that starts: its delivery (RelayDelivery), the gate that holds  *)
(* it back until the agent is up (StartupGate) and the lock under which    *)
(* the session provisions beads (ProvisionLock).  None of them reads what  *)
(* another one writes, so a behaviour follows one of them: interleaving    *)
(* two would show nothing that neither shows alone.                        *)
(***************************************************************************)
EXTENDS ProvisionLock

CONSTANTS
  Commands, Unparsable, Slots, Cap,   \* RelayDelivery (Cmds is Commands)
  Prompts, Others, MaxSignIns         \* StartupGate

ASSUME StartAssumption ==
  Cap \in Nat \ {0} /\ Prompts \cap Others = {} /\ MaxSignIns \in Nat

VARIABLES
  part,       \* the component that the behaviour follows
  queue, pushed, malformed, channel, acks, batch, running, processed, crashes, ran, once,
  evicted, dropped,
  phase, waiting, at, signedIn, authProbe, asked, account, signIns, order, outSince

Delivery == INSTANCE RelayDelivery WITH Cmds <- Commands
Gate == INSTANCE StartupGate

deliveryVars == <<queue, pushed, malformed, channel, acks, batch, running, processed, crashes, ran,
                  once, evicted, dropped>>
gateVars == <<phase, waiting, at, signedIn, authProbe, asked, account, signIns, order, outSince>>
startVars == <<part, vars, deliveryVars, gateVars>>

StartInit ==
  /\ part \in {"delivery", "gate", "lock"}
  /\ Init /\ Delivery!Init /\ Gate!Init
  /\ part # "gate" => account = "in"
  /\ part # "delivery" => malformed = {}

LockMoves == part = "lock" /\ Next /\ UNCHANGED <<part, deliveryVars, gateVars>>
DeliveryMoves == part = "delivery" /\ Delivery!Next /\ UNCHANGED <<part, vars, gateVars>>
GateMoves == part = "gate" /\ Gate!Next /\ UNCHANGED <<part, vars, deliveryVars>>

StartNext == LockMoves \/ DeliveryMoves \/ GateMoves

(* A live process goes on and does not try for ever to get the lock; the channel comes
   back after every outage and brings what is queued; the loop over a batch and the gate
   go on, and probes have a timeout.  The startup, what a process provisions and the
   handlers need not end. *)
StartSpec ==
  /\ StartInit /\ [][StartNext]_startVars
  /\ \A p \in Procs : WF_vars(part = "lock" /\ Run(p)) /\ SF_vars(part = "lock" /\ RunAnyway(p))
  /\ \A c \in Commands : SF_deliveryVars(part = "delivery" /\ Delivery!Brings(c))
  /\ \A s \in Slots : WF_deliveryVars(part = "delivery" /\ Delivery!GoesThrough(s))
  /\ \A c \in Gate!Cmds : WF_gateVars(part = "gate" /\ Gate!GateWorks(c))

-----------------------------------------------------------------------------
(* A command redelivered within one life of the CLI runs again only if its id
   was evicted since: no interleaving of batches lets it slip through the dedupe. *)
TwiceOnlyIfEvicted == Delivery!TwiceOnlyIfEvicted

(* Every command sent reaches a handler, or is taken by such a crash, or waits for a
   handler that never settles: behind it in its batch, or with the poll loop. *)
EveryCommandRuns == Delivery!EveryCommandRuns

(* A command never reaches the agent before a queued one that came earlier has
   been answered: a deferred prompt is not overtaken by the stop meant for it. *)
QueueNotOvertaken == Gate!QueueNotOvertaken

(* Nobody waits for ever for the lock or in the gate: no lock, not even a dead
   process's, keeps a session from provisioning, and whatever the startup comes to, every
   command is answered, unless the startup or a handler before it never settles. *)
EverybodyGetsThrough ==
  (part = "lock" => EveryoneProvisions) /\ Gate!EveryCommandSettles

(* The parts' type invariants; no command reaches an agent that is not up. *)
StartTypeOK == TypeOK /\ Delivery!TypeOK /\ Gate!TypeOK
  /\ Delivery!DrainedWasReceived /\ Gate!OnlyReadyAgents
=============================================================================
