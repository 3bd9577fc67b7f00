---------------------------- MODULE AgentAnnounce ----------------------------
(***************************************************************************)
(* Announcing the session's agent to the backend (reportAgents and         *)
(* reannounceAgents of services/command-relay.service.ts).  Every POST     *)
(* carries the agent current when it is sent, success latches              *)
(* agentsRegistered, and a 5 s timer posts again until it is latched.  An  *)
(* agent switch changes the agent and announces it again.  Agents are      *)
(* numbered in the order the session runs them; the backend keeps the last *)
(* one it received.                                                        *)
(***************************************************************************)
EXTENDS Naturals, FiniteSets

CONSTANTS
  Posts,        \* bound: POSTs in flight at once
  MaxSwitches   \* bound: agent switches

ASSUME AnnounceAssumption == MaxSwitches \in Nat

Agents == 0..MaxSwitches
NoAgent == MaxSwitches + 1

VARIABLES
  agent,        \* agentMeta
  running,
  registered,   \* agentsRegistered
  post,         \* POST |-> the agent it carries, or NoAgent
  landed,       \* POSTs the backend has taken, their answers on the way
  backend,      \* the agent the backend shows
  (* history *)
  overtaken     \* a POST of an earlier agent was in flight at the last switch

vars == <<agent, running, registered, post, landed, backend, overtaken>>

InFlight == {p \in Posts : post[p] # NoAgent}

TypeOK ==
  /\ agent \in Agents /\ running \in BOOLEAN /\ registered \in BOOLEAN
  /\ post \in [Posts -> Agents \cup {NoAgent}] /\ landed \in SUBSET InFlight
  /\ backend \in Agents \cup {NoAgent} /\ overtaken \in BOOLEAN

Init ==
  /\ agent = 0 /\ running = FALSE /\ registered = FALSE
  /\ post = [p \in Posts |-> NoAgent] /\ landed = {}
  /\ backend = NoAgent /\ overtaken = FALSE

(* reportAgents, with the agent of the moment. *)
Report(p, a) == p \notin InFlight /\ post' = [post EXCEPT ![p] = a]

-----------------------------------------------------------------------------
Start(p) ==
  /\ ~running
  /\ running' = TRUE /\ registered' = FALSE
  /\ Report(p, agent)
  /\ UNCHANGED <<agent, landed, backend, overtaken>>

KeepsLatch == registered                         \* fault: a switch keeps the latch
Unlatched == FALSE

(* setAgentMeta and reannounceAgents at the end of a switch; neither asks whether
   the relay runs. *)
Switch(p) ==
  /\ agent < MaxSwitches
  /\ agent' = agent + 1 /\ registered' = Unlatched
  /\ overtaken' = (InFlight # {})
  /\ Report(p, agent')
  /\ UNCHANGED <<running, landed, backend>>

Due == ~registered

TimerFires(p) ==
  /\ running /\ Due
  /\ Report(p, agent)
  /\ UNCHANGED <<agent, running, registered, landed, backend, overtaken>>

-----------------------------------------------------------------------------
(* The backend takes a POST; POSTs are not ordered among themselves. *)
Lands(p) ==
  /\ p \in InFlight \ landed
  /\ landed' = landed \cup {p} /\ backend' = post[p]
  /\ UNCHANGED <<agent, running, registered, post, overtaken>>

Answered(p) == landed \ {p}

Succeeds(p) ==
  /\ p \in landed
  /\ registered' = TRUE
  /\ post' = [post EXCEPT ![p] = NoAgent] /\ landed' = Answered(p)
  /\ UNCHANGED <<agent, running, backend, overtaken>>

(* Before or after the backend took it. *)
Fails(p) ==
  /\ p \in InFlight
  /\ post' = [post EXCEPT ![p] = NoAgent] /\ landed' = Answered(p)
  /\ UNCHANGED <<agent, running, registered, backend, overtaken>>

Next ==
  \E p \in Posts :
    Start(p) \/ (running /\ Switch(p)) \/ TimerFires(p) \/ Lands(p) \/ Succeeds(p) \/ Fails(p)

(* The timer keeps firing, and a backend that is tried for ever answers. *)
Spec ==
  /\ Init /\ [][Next]_vars
  /\ WF_vars(\E p \in Posts : TimerFires(p))
  /\ \A p \in Posts : SF_vars(Lands(p)) /\ SF_vars(Succeeds(p))

-----------------------------------------------------------------------------
(* The latch is never set on nothing: some agent of this session has reached the
   backend, and unless a POST of an earlier agent overlapped the switch it is the
   current one. *)
LatchedMeansKnown ==
  registered => backend # NoAgent /\ (backend = agent \/ overtaken)

(* "Resets agentsRegistered so the 5 s retry timer keeps trying until a POST
   lands": the backend comes to show the agent that runs. *)
EverySwitchAnnounced ==
  \A a \in Agents : running /\ agent = a ~> backend = a \/ agent # a
=============================================================================
