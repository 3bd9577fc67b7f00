------------------------------ MODULE AcpClient ------------------------------
(***************************************************************************)
(* AcpClient (agents/acp/client.ts): the process of the agent's adapter,   *)
(* the conversation it serves, and what replaces them: start() with its    *)
(* retries, the restart of a gone adapter under a prompt, the respawn that *)
(* binds new MCP servers, loadSession(), stop() and the exit of a process. *)
(* Prompts and respawns take turns on promptChain; start(), stop(),        *)
(* loadSession() and exits come at any of their awaits.  start() is called *)
(* as AcpDriver.start() does, whose deadline may have abandoned one call   *)
(* when the next one comes; the load that follows it is one step with it.  *)
(* this.connection is set and cleared with this.child, and stands with it. *)
(* Not modelled: an agent without session/load, a session the agent closes *)
(* between turns, newConversation(), and what a turn says.                 *)
(***************************************************************************)
EXTENDS Naturals, Sequences, FiniteSets

CONSTANTS
  Adapters,     \* adapter processes: a name is used again when nothing refers to it
  Drivers,      \* the calls of AcpDriver.start()
  Attempts,     \* MAX_START_ATTEMPTS
  Prompts,      \* the calls of prompt()
  MaxEvents,    \* bound: changes of the MCP servers, stop() calls, resume_session
                \* commands and adapters that die of themselves
  NoAdapter

ASSUME ClientAssumption ==
  /\ NoAdapter \notin Adapters
  /\ Attempts \in Nat \ {0} /\ MaxEvents \in Nat

VARIABLES
  c,            \* child, sessionId, stopping, startedOnce, startAbortReject
  proc,         \* what became of each adapter
  drv,          \* each call of AcpDriver.start(): where it is, its adapter, its attempts
  chain, pc,    \* promptChain, and where its first entry is
  at,           \* the adapter that entry waits for
  prev,         \* prevConversationId of the running respawn
  mcp,          \* opts.mcpServers, the pending set, the debounce timer and who waits for it
  load,         \* the adapter a resume_session waits for
  exited,       \* onUnexpectedExit(): the session ends
  asked, answered,  \* prompts called; prompts and changes whose promise has settled
  changes, upsets,
  (* history *)
  crossed,      \* a handshake began while another one was in flight
  stale         \* the servers changed while a respawn with older ones was still to run

bounds == <<asked, changes, upsets>>
hist == <<crossed, stale>>
vars == <<c, proc, drv, chain, pc, at, prev, mcp, load, exited, answered, bounds, hist>>

Sessions == {"none", "told", "fresh"}   \* sessionId: the caller's conversation, or another
Named == Adapters \cup {NoAdapter}

Entries == [kind : {"prompt", "respawn"}, set : 0..MaxEvents,
            who : SUBSET (Prompts \cup 1..MaxEvents)]

Gone == [st |-> "gone", deaf |-> FALSE, rej |-> FALSE]

TypeOK ==
  /\ c \in [child : Named, sid : Sessions, stopping : BOOLEAN, started : BOOLEAN, abort : Named]
  /\ proc \in [Adapters -> [st : {"alive", "told", "gone"}, deaf : BOOLEAN, rej : BOOLEAN]]
  /\ drv \in [Drivers -> [pc : {"no", "hand", "sleep", "up", "failed"}, g : Named,
                          try : 0..Attempts]]
  /\ chain \in Seq(Entries)
  /\ pc \in {"idle", "restart", "turn", "grace", "respawn", "load"}
  /\ at \in Named /\ load \in Named /\ prev \in Sessions
  /\ mcp \in [set : 0..MaxEvents, pend : 0..MaxEvents, timer : BOOLEAN, who : SUBSET (1..MaxEvents)]
  /\ exited \in BOOLEAN /\ asked \subseteq Prompts /\ answered \subseteq Prompts \cup 1..MaxEvents
  /\ changes \in 0..MaxEvents /\ upsets \in 0..MaxEvents /\ crossed \in BOOLEAN /\ stale \in BOOLEAN

Init ==
  /\ c = [child |-> NoAdapter, sid |-> "none", stopping |-> FALSE, started |-> FALSE,
          abort |-> NoAdapter]
  /\ proc = [g \in Adapters |-> Gone]
  /\ drv = [d \in Drivers |-> [pc |-> "no", g |-> NoAdapter, try |-> 0]]
  /\ chain = <<>> /\ pc = "idle" /\ at = NoAdapter /\ prev = "none" /\ load = NoAdapter
  /\ mcp = [set |-> 0, pend |-> 0, timer |-> FALSE, who |-> {}]
  /\ exited = FALSE /\ asked = {} /\ answered = {}
  /\ changes = 0 /\ upsets = 0
  /\ crossed = FALSE /\ stale = FALSE

-----------------------------------------------------------------------------
InHandshake ==
  {drv[d].g : d \in {e \in Drivers : drv[e].pc = "hand"}}
    \cup (IF pc \in {"restart", "respawn"} THEN {at} ELSE {})

Free == {g \in Adapters : proc[g].st = "gone" /\ g \notin InHandshake \cup {at, load, c.child}}
NewAdapter == CHOOSE g \in Free : TRUE

Up(cc) == cc.child # NoAdapter /\ cc.sid # "none"

Told(ps, g) ==
  IF g \in Adapters /\ ps[g].st = "alive" THEN [ps EXCEPT ![g].st = "told"] ELSE ps

(* startOnce() up to its first await, for a client without a child. *)
MaySpawn(cc) == cc.child = NoAdapter

Spawned(cc) ==
  /\ Free # {}
  /\ proc' = [proc EXCEPT ![NewAdapter] = [Gone EXCEPT !.st = "alive"]]
  /\ c' = [cc EXCEPT !.child = NewAdapter, !.abort = NewAdapter]
  /\ crossed' = (crossed \/ InHandshake # {})

(* The handshake is over. *)
Shaken(cc, sid) == [cc EXCEPT !.abort = NoAdapter, !.sid = sid, !.started = TRUE]

Broken(g) == proc[g].st = "gone" \/ proc[g].rej

(* A failure: the process died, which is worth a retry; or the agent refused, or
   had no session in time. *)
MayFail(g, transient) == Broken(g) => transient

(* cleanupAfterFailedStart() kills the adapter of the failed start and clears
   this.child, whoever's that is by now. *)
Undone(cc) == [cc EXCEPT !.child = NoAdapter, !.sid = "none", !.abort = NoAdapter]
Discarded(ps, g) == [Told(ps, g) EXCEPT ![g].deaf = TRUE]

(* stop(), up to its await: the waiters of a debounced respawn are answered. *)
Stopped(cc) ==
  IF cc.child = NoAdapter THEN [cc EXCEPT !.stopping = TRUE]
  ELSE [cc EXCEPT !.stopping = TRUE, !.child = NoAdapter, !.sid = "none"]

SparesProcess(ps, g) == ps                       \* fault: nothing is signalled
Signalled(ps, g) == Told(ps, g)

TellsWaiters == mcp.who

Cleared(m) == [m EXCEPT !.timer = FALSE, !.pend = 0, !.who = {}]

StopClient(cc, ps) ==
  /\ c' = Stopped(cc)
  /\ proc' = Signalled(ps, cc.child)
  /\ mcp' = Cleared(mcp)
  /\ answered' = answered \cup TellsWaiters

-----------------------------------------------------------------------------
Quiet == UNCHANGED <<exited, bounds, load>>
ChainStays == UNCHANGED <<chain, pc, at, prev>>

(* AcpDriver.start(), and a retry of start() after its sleep: an adapter that is
   there already is an error, and the driver's clean-up stops the client. *)
DriverFails(d, cc, ps) ==
  StopClient(cc, ps) /\ drv' = [drv EXCEPT ![d] = [pc |-> "failed", g |-> NoAdapter, try |-> 0]]

DriverSpawns(d) ==
  /\ ~exited /\ drv[d].pc \in {"no", "sleep"} /\ MaySpawn(c)
  /\ Spawned(c)
  /\ drv' = [drv EXCEPT ![d] = [pc |-> "hand", g |-> NewAdapter, try |-> @.try + 1]]
  /\ Quiet /\ ChainStays /\ UNCHANGED <<mcp, answered, stale>>

DriverRefused(d) ==
  /\ ~exited /\ drv[d].pc \in {"no", "sleep"} /\ ~MaySpawn(c)
  /\ DriverFails(d, c, proc)
  /\ Quiet /\ ChainStays /\ UNCHANGED hist

DriverShaken(d) ==
  /\ ~exited /\ drv[d].pc = "hand" /\ ~Broken(drv[d].g)
  /\ c' = Shaken(c, "told")
  /\ drv' = [drv EXCEPT ![d] = [pc |-> "up", g |-> NoAdapter, try |-> 0]]
  /\ Quiet /\ ChainStays /\ UNCHANGED <<proc, mcp, answered, hist>>

(* The start succeeded, and the load of the caller's conversation after it does not. *)
DriverNotLoaded(d) ==
  /\ ~exited /\ drv[d].pc = "hand" /\ ~Broken(drv[d].g)
  /\ DriverFails(d, Shaken(c, "fresh"), proc)
  /\ Quiet /\ ChainStays /\ UNCHANGED hist

DriverNotShaken(d, transient) ==
  /\ ~exited /\ drv[d].pc = "hand" /\ MayFail(drv[d].g, transient)
  /\ LET ps == Discarded(proc, drv[d].g) IN
       IF transient /\ drv[d].try < Attempts
       THEN /\ c' = Undone(c) /\ proc' = ps
            /\ drv' = [drv EXCEPT ![d].pc = "sleep", ![d].g = NoAdapter]
            /\ UNCHANGED <<mcp, answered>>
       ELSE DriverFails(d, Undone(c), ps)
  /\ Quiet /\ ChainStays /\ UNCHANGED hist

(* stop(): a hand-off, or a switch of the agent, after a start was called. *)
Stop ==
  /\ ~exited /\ \E d \in Drivers : drv[d].pc # "no"
  /\ changes + upsets < MaxEvents /\ upsets' = upsets + 1
  /\ StopClient(c, proc)
  /\ ChainStays /\ UNCHANGED <<drv, exited, load, asked, changes, hist>>

-----------------------------------------------------------------------------
(* A process ends: by itself, or because it was told to.  The handler knows no
   process: it rejects whatever handshake is in flight, or ends the session. *)
Exit(g) ==
  /\ ~exited /\ proc[g].st # "gone"
  /\ proc[g].st = "alive" => changes + upsets < MaxEvents
  /\ upsets' = upsets + (IF proc[g].st = "alive" THEN 1 ELSE 0)
  /\ LET heard == ~proc[g].deaf /\ ~c.stopping
         ps == [proc EXCEPT ![g] = Gone] IN
       /\ proc' = IF heard /\ c.abort # NoAdapter THEN [ps EXCEPT ![c.abort].rej = TRUE] ELSE ps
       /\ c' = IF heard THEN [c EXCEPT !.abort = NoAdapter] ELSE c
       /\ exited' = (heard /\ c.abort = NoAdapter)
  /\ ChainStays
  /\ UNCHANGED <<drv, mcp, load, answered, asked, changes, hist>>

(* The launch itself fails, which is told after the spawn: that listener looks for no
   handshake, and ends the session under the start that would have tried again. *)
SpawnFails(g) ==
  /\ ~exited /\ g \in InHandshake /\ proc[g].st = "alive"
  /\ changes + upsets < MaxEvents /\ upsets' = upsets + 1
  /\ proc' = [proc EXCEPT ![g] = Gone]
  /\ exited' = (~proc[g].deaf /\ ~c.stopping)
  /\ ChainStays
  /\ UNCHANGED <<c, drv, mcp, load, answered, asked, changes, hist>>

-----------------------------------------------------------------------------
Enqueued(kind, set, who) == chain' = Append(chain, [kind |-> kind, set |-> set, who |-> who])

(* The app prompts a session whose start it has seen through. *)
Ask(p) ==
  /\ ~exited /\ p \notin asked /\ \E d \in Drivers : drv[d].pc = "up"
  /\ asked' = asked \cup {p}
  /\ Enqueued("prompt", 0, {p})
  /\ UNCHANGED <<c, proc, drv, pc, at, prev, mcp, load, exited, answered, changes, upsets, hist>>

(* reprovisionMcp(): the set is kept whatever follows. *)
BindsLater(n) == [mcp EXCEPT !.pend = n]         \* fault: opts.mcpServers is not updated first
KeptFirst(n) == [mcp EXCEPT !.set = n, !.pend = n]

Change ==
  /\ ~exited /\ changes + upsets < MaxEvents /\ changes' = changes + 1
  /\ IF Up(c)
     THEN /\ mcp' = [KeptFirst(changes') EXCEPT !.timer = TRUE, !.who = @ \cup {changes'}]
          /\ UNCHANGED answered
     ELSE mcp' = [mcp EXCEPT !.set = changes'] /\ answered' = answered \cup {changes'}
  /\ stale' = (stale \/ (mcp.timer /\ ~Up(c))
                     \/ \E i \in DOMAIN chain : chain[i].kind = "respawn")
  /\ ChainStays
  /\ UNCHANGED <<c, proc, drv, load, exited, asked, upsets, crossed>>

Debounced ==
  /\ ~exited /\ mcp.timer
  /\ Enqueued("respawn", mcp.pend, mcp.who)
  /\ mcp' = Cleared(mcp)
  /\ Quiet /\ UNCHANGED <<c, proc, drv, pc, at, prev, answered, hist>>

-----------------------------------------------------------------------------
First(kind) == ~exited /\ pc = "idle" /\ chain # <<>> /\ Head(chain).kind = kind

(* The first entry settles, and the next one may run. *)
Pops == chain' = Tail(chain) /\ pc' = "idle" /\ at' = NoAdapter /\ prev' = "none"
Settles == Pops /\ answered' = answered \cup Head(chain).who
Goes(where, g) == pc' = where /\ at' = g /\ UNCHANGED <<chain, prev, answered>>

(* runPrompt(): sent, or the adapter is gone: then a client that once was up gets a
   new one. *)
PromptSent ==
  /\ First("prompt") /\ Up(c)
  /\ Goes("turn", c.child)
  /\ Quiet /\ UNCHANGED <<c, proc, drv, mcp, hist>>

PromptRestarts ==
  /\ First("prompt") /\ ~Up(c) /\ c.started /\ MaySpawn(c)
  /\ Spawned([c EXCEPT !.stopping = FALSE])
  /\ Goes("restart", NewAdapter)
  /\ Quiet /\ UNCHANGED <<drv, mcp, stale>>

PromptRefused ==
  /\ First("prompt") /\ ~Up(c) /\ (~c.started \/ ~MaySpawn(c))
  /\ c' = IF c.started THEN [c EXCEPT !.stopping = FALSE] ELSE c
  /\ Settles
  /\ Quiet /\ UNCHANGED <<proc, drv, mcp, hist>>

PromptRestarted ==
  /\ ~exited /\ pc = "restart" /\ ~Broken(at)
  /\ c' = Shaken(c, "fresh")
  /\ IF Up(c') THEN Goes("turn", c'.child) ELSE Settles
  /\ Quiet /\ UNCHANGED <<proc, drv, mcp, hist>>

(* Answered, refused, abandoned by the watchdog and cancelled, or rejected with the
   connection of an adapter that is gone. *)
TurnEnds ==
  /\ ~exited /\ pc = "turn" /\ Settles
  /\ Quiet /\ UNCHANGED <<c, proc, drv, mcp, hist>>

(* runReprovisionMcp(): its stop() comes first, with its effect on newer changes. *)
RespawnRuns ==
  /\ First("respawn") /\ Up(c)
  /\ c' = Stopped(c) /\ proc' = Signalled(proc, c.child)
  /\ mcp' = [Cleared(mcp) EXCEPT !.set = Head(chain).set]
  /\ answered' = answered \cup TellsWaiters
  /\ prev' = c.sid /\ pc' = "grace"
  /\ Quiet /\ UNCHANGED <<chain, at, drv, hist>>

RespawnDeferred ==
  /\ First("respawn") /\ ~Up(c)
  /\ mcp' = [mcp EXCEPT !.set = Head(chain).set]
  /\ Settles
  /\ Quiet /\ UNCHANGED <<c, proc, drv, hist>>

(* The old process is gone, or was sent SIGKILL when its two seconds were over. *)
GraceOver ==
  /\ ~exited /\ pc = "grace" /\ MaySpawn(c)
  /\ Spawned([c EXCEPT !.stopping = FALSE])
  /\ Goes("respawn", NewAdapter)
  /\ Quiet /\ UNCHANGED <<drv, mcp, stale>>

GraceLost ==
  /\ ~exited /\ pc = "grace" /\ ~MaySpawn(c)
  /\ c' = [c EXCEPT !.stopping = FALSE]
  /\ Settles
  /\ Quiet /\ UNCHANGED <<proc, drv, mcp, hist>>

Respawned ==
  /\ ~exited /\ pc = "respawn" /\ ~Broken(at)
  /\ c' = Shaken(c, "fresh")
  /\ IF Up(c') THEN Goes("load", c'.child) ELSE Settles
  /\ Quiet /\ UNCHANGED <<proc, drv, mcp, hist>>

Reloaded(ok) ==
  /\ ~exited /\ pc = "load" /\ (ok => proc[at].st # "gone")
  /\ c' = IF ok THEN [c EXCEPT !.sid = prev] ELSE c
  /\ Settles
  /\ Quiet /\ UNCHANGED <<proc, drv, mcp, hist>>

(* startOnce() under a prompt or a respawn fails, and is not tried again. *)
ChainNotShaken(transient) ==
  /\ ~exited /\ pc \in {"restart", "respawn"} /\ MayFail(at, transient)
  /\ c' = Undone(c) /\ proc' = Discarded(proc, at)
  /\ Settles
  /\ Quiet /\ UNCHANGED <<drv, mcp, hist>>

-----------------------------------------------------------------------------
(* resume_session: loadSession() beside the chain. *)
Load ==
  /\ ~exited /\ changes + upsets < MaxEvents /\ load = NoAdapter /\ c.child # NoAdapter
  /\ upsets' = upsets + 1 /\ load' = c.child
  /\ ChainStays
  /\ UNCHANGED <<c, proc, drv, mcp, exited, answered, asked, changes, hist>>

Loaded(ok) ==
  /\ ~exited /\ load # NoAdapter /\ (ok => proc[load].st # "gone")
  /\ load' = NoAdapter
  /\ c' = IF ok THEN [c EXCEPT !.sid = "told"] ELSE c
  /\ ChainStays
  /\ UNCHANGED <<proc, drv, mcp, exited, answered, bounds, hist>>

ChainStep ==
  \/ PromptRestarts \/ PromptSent \/ PromptRefused
  \/ RespawnRuns \/ RespawnDeferred \/ GraceOver \/ GraceLost
  \/ \E ok \in BOOLEAN : Reloaded(ok)

ChainHandshake ==
  \/ PromptRestarted \/ Respawned
  \/ \E transient \in BOOLEAN : ChainNotShaken(transient)

DriverStep(d) ==
  \/ DriverSpawns(d) \/ DriverRefused(d) \/ DriverShaken(d) \/ DriverNotLoaded(d)
  \/ \E transient \in BOOLEAN : DriverNotShaken(d, transient)

Next ==
  \/ ChainStep \/ TurnEnds \/ ChainHandshake \/ Debounced \/ Change \/ Stop \/ Load
  \/ \E ok \in BOOLEAN : Loaded(ok)
  \/ \E p \in Prompts : Ask(p)
  \/ \E d \in Drivers : DriverStep(d)
  \/ \E g \in Adapters : Exit(g) \/ SpawnFails(g)

(* The timer fires, a load is answered or times out, and a process that was told to
   end does.  Nothing makes an adapter answer `initialize`, which has no timeout, or
   end a turn: the watchdog is held off while a tool runs or a permission is open.
   Once the adapter is gone, both are rejected with its connection. *)
Fairness ==
  /\ WF_vars(ChainStep) /\ WF_vars(Debounced)
  /\ WF_vars(TurnEnds /\ proc[at].st = "gone")
  /\ WF_vars(ChainNotShaken(TRUE) /\ Broken(at))
  /\ WF_vars(\E ok \in BOOLEAN : Loaded(ok))
  /\ \A g \in Adapters : WF_vars(proc[g].st = "told" /\ Exit(g))

Spec == Init /\ [][Next]_vars /\ Fairness

-----------------------------------------------------------------------------
(* An adapter that nobody told to end is the client's: no start, failure, respawn or
   stop loses one, unless two handshakes were under way at once. *)
NoStrayAdapter == ~crossed => \A g \in Adapters : proc[g].st = "alive" => g = c.child

(* A new set of servers binds at the next start at the latest, whatever stops or
   fails, unless a respawn with an older set was still to run. *)
NewestSetIsKept == mcp.set = changes \/ stale


-----------------------------------------------------------------------------
(* stop(): "Kill the adapter process and tear down the connection": only a start
   brings an adapter back. *)
StopIsFinal ==
  [][c.stopping /\ pc = "idle" /\ pc' = "restart" => FALSE]_vars

(* onUnexpectedExit: "Called when the adapter process exits unexpectedly". *)
DeathIsNoticed ==
  c.child # NoAdapter /\ c.child \notin InHandshake => proc[c.child].st # "gone" \/ exited

(* The set is updated first, "so even a failed respawn leaves the new set to bind on
   the next natural re-establishment". *)
NewSetIsKept == mcp.set = changes

(* A handshake is aborted by the death of its own adapter. *)
OldExitSparesNew ==
  [][\A g \in Adapters : ~proc[g].rej /\ proc'[g].rej => proc'[g].st = "gone"]_vars

(* A turn runs in the conversation the app shows. *)
TurnsKeepConversation == [][pc # "turn" /\ pc' = "turn" => c'.sid = "told"]_vars
=============================================================================
