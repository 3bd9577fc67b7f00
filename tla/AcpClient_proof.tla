--------------------------- MODULE AcpClient_proof ---------------------------
(***************************************************************************)
(* Proofs about AcpClient for any number of adapters, starts, prompts and  *)
(* changes of the servers.  While no two handshakes cross, the adapter of  *)
(* a handshake is the client's, or the client has none; while no change    *)
(* comes over a respawn that is still to run, whatever the debounce timer  *)
(* and the chain hold is the newest set.                                   *)
(***************************************************************************)
EXTENDS AcpClient, SequenceTheorems, TLAPS

Clients == [child : Named, sid : Sessions, stopping : BOOLEAN, started : BOOLEAN, abort : Named]
Procs == [Adapters -> [st : {"alive", "told", "gone"}, deaf : BOOLEAN, rej : BOOLEAN]]
Starts == [Drivers -> [pc : {"no", "hand", "sleep", "up", "failed"}, g : Named, try : 0..Attempts]]
Servers == [set : 0..MaxEvents, pend : 0..MaxEvents, timer : BOOLEAN, who : SUBSET (1..MaxEvents)]

(* An entry is under way only if there is one. *)
Busy == pc # "idle" => chain # <<>>

(* A start that is to be tried again has attempts left. *)
Tries ==
  \A d \in Drivers : drv[d].pc \in {"no", "sleep"} => drv[d].try < Attempts

(* Without crossed handshakes there is one adapter at a time. *)
OneAdapter ==
  ~crossed => /\ \A g \in Adapters : proc[g].st = "alive" => g = c.child
              /\ \A g \in InHandshake : c.child \in {g, NoAdapter}

(* What is still to be bound is the newest set. *)
NewestToCome ==
  ~stale => /\ mcp.set = changes
            /\ mcp.timer => mcp.pend = changes
            /\ \A i \in DOMAIN chain : chain[i].kind = "respawn" => chain[i].set = changes

Typed == TypeOK /\ Busy /\ Tries
IInv == Typed /\ OneAdapter /\ NewestToCome

-----------------------------------------------------------------------------
(* What the shared parts of the actions do. *)
LEMMA Types ==
  TypeOK <=> /\ c \in Clients /\ proc \in Procs /\ drv \in Starts /\ chain \in Seq(Entries)
             /\ pc \in {"idle", "restart", "turn", "grace", "respawn", "load"}
             /\ at \in Named /\ load \in Named /\ prev \in Sessions /\ mcp \in Servers
             /\ exited \in BOOLEAN /\ asked \subseteq Prompts
             /\ answered \subseteq Prompts \cup 1..MaxEvents
             /\ changes \in 0..MaxEvents /\ upsets \in 0..MaxEvents
             /\ crossed \in BOOLEAN /\ stale \in BOOLEAN
BY DEF TypeOK, Clients, Procs, Starts, Servers

LEMMA TypesNext ==
  ASSUME c' \in Clients, proc' \in Procs, drv' \in Starts, chain' \in Seq(Entries),
         pc' \in {"idle", "restart", "turn", "grace", "respawn", "load"},
         at' \in Named, load' \in Named, prev' \in Sessions, mcp' \in Servers,
         exited' \in BOOLEAN, asked' \subseteq Prompts,
         answered' \subseteq Prompts \cup 1..MaxEvents,
         changes' \in 0..MaxEvents, upsets' \in 0..MaxEvents,
         crossed' \in BOOLEAN, stale' \in BOOLEAN
  PROVE  TypeOK'
BY DEF TypeOK, Clients, Procs, Starts, Servers

LEMMA ToldDoes ==
  ASSUME NEW ps \in Procs, NEW g \in Named
  PROVE  /\ Told(ps, g) \in Procs
         /\ \A x \in Adapters : Told(ps, g)[x].st = "alive" => ps[x].st = "alive" /\ x # g
<1>1. CASE g \in Adapters /\ ps[g].st = "alive"
  <2>1. Told(ps, g) = [ps EXCEPT ![g] = [ps[g] EXCEPT !.st = "told"]]
    BY <1>1 DEF Told, Procs
  <2>2. [ps[g] EXCEPT !.st = "told"] \in [st : {"alive", "told", "gone"}, deaf : BOOLEAN, rej : BOOLEAN]
        /\ [ps[g] EXCEPT !.st = "told"].st = "told"
    BY <1>1 DEF Procs
  <2>3. QED
    BY <1>1, <2>1, <2>2 DEF Procs
<1>2. CASE ~(g \in Adapters /\ ps[g].st = "alive")
  BY <1>2 DEF Told
<1>3. QED
  BY <1>1, <1>2

LEMMA DiscardedDoes ==
  ASSUME NEW ps \in Procs, NEW g \in Named
  PROVE  /\ Discarded(ps, g) \in Procs
         /\ \A x \in Adapters : Discarded(ps, g)[x].st = "alive" => ps[x].st = "alive" /\ x # g
<1> DEFINE t == Told(ps, g)
<1>1. /\ t \in Procs
      /\ \A x \in Adapters : t[x].st = "alive" => ps[x].st = "alive" /\ x # g
  BY ToldDoes
<1>2. Discarded(ps, g) = [t EXCEPT ![g].deaf = TRUE]
  BY DEF Discarded
<1> HIDE DEF t
<1>3. QED
  BY <1>1, <1>2 DEF Procs

LEMMA ClientChanges ==
  ASSUME NEW cc \in Clients, NEW sid \in Sessions
  PROVE  /\ Stopped(cc) \in Clients /\ Stopped(cc).child = NoAdapter
         /\ Undone(cc) \in Clients /\ Undone(cc).child = NoAdapter
         /\ Shaken(cc, sid) \in Clients /\ Shaken(cc, sid).child = cc.child
         /\ [cc EXCEPT !.stopping = FALSE] \in Clients
         /\ [cc EXCEPT !.stopping = FALSE].child = cc.child
         /\ [cc EXCEPT !.sid = sid] \in Clients /\ [cc EXCEPT !.sid = sid].child = cc.child
         /\ [cc EXCEPT !.abort = NoAdapter] \in Clients
         /\ [cc EXCEPT !.abort = NoAdapter].child = cc.child
BY DEF Clients, Stopped, Undone, Shaken, Named, Sessions

LEMMA SpawnDoes ==
  ASSUME TypeOK, NEW cc \in Clients, cc.child = NoAdapter, Spawned(cc)
  PROVE  /\ NewAdapter \in Adapters /\ c' \in Clients /\ c'.child = NewAdapter
         /\ proc' \in Procs /\ crossed' \in BOOLEAN
         /\ \A x \in Adapters : proc'[x].st = "alive" => proc[x].st = "alive" \/ x = NewAdapter
<1>1. NewAdapter \in Free
  BY Zenon DEF Spawned, NewAdapter
<1>2. NewAdapter \in Adapters
  BY <1>1 DEF Free
<1>3. crossed' \in BOOLEAN
  BY Zenon DEF Spawned
<1>4. proc' = [proc EXCEPT ![NewAdapter] = [Gone EXCEPT !.st = "alive"]]
      /\ c' = [cc EXCEPT !.child = NewAdapter, !.abort = NewAdapter]
  BY DEF Spawned
<1>5. QED
  BY <1>2, <1>3, <1>4, Types DEF Gone, Procs, Clients, Named

LEMMA ClearedDoes ==
  ASSUME NEW m \in Servers
  PROVE  Cleared(m) \in Servers /\ Cleared(m).set = m.set /\ ~Cleared(m).timer
<1>1. 0 \in 0..MaxEvents
  BY ClientAssumption
<1>2. QED
  BY <1>1 DEF Cleared, Servers

LEMMA StopDoes ==
  ASSUME TypeOK, NEW cc \in Clients, NEW ps \in Procs, StopClient(cc, ps)
  PROVE  /\ c' \in Clients /\ c'.child = NoAdapter /\ proc' \in Procs
         /\ \A x \in Adapters : proc'[x].st = "alive" => ps[x].st = "alive" /\ x # cc.child
         /\ mcp' \in Servers /\ mcp'.set = mcp.set /\ ~mcp'.timer
         /\ answered' \subseteq Prompts \cup 1..MaxEvents
<1>1. cc.child \in Named
  BY DEF Clients
<1>2. proc' = Told(ps, cc.child) /\ c' = Stopped(cc) /\ mcp' = Cleared(mcp)
      /\ answered' = answered \cup mcp.who
  BY DEF StopClient, Signalled, TellsWaiters
<1>3. mcp \in Servers /\ mcp.who \subseteq 1..MaxEvents /\ answered \subseteq Prompts \cup 1..MaxEvents
  BY Types DEF Servers
<1>4. Stopped(cc) \in Clients /\ Stopped(cc).child = NoAdapter
  BY ClientChanges DEF Sessions
<1>5. QED
  BY <1>1, <1>2, <1>3, <1>4, ToldDoes, ClearedDoes

(* The first entry is an entry, and what is left of the chain was in it. *)
LEMMA FirstEntry ==
  ASSUME TypeOK, chain # <<>>
  PROVE  /\ Head(chain) \in Entries /\ Head(chain) = chain[1] /\ 1 \in DOMAIN chain
         /\ Tail(chain) \in Seq(Entries)
         /\ \A i \in DOMAIN Tail(chain) : i + 1 \in DOMAIN chain /\ Tail(chain)[i] = chain[i + 1]
BY DEF TypeOK

LEMMA SettlesDoes ==
  ASSUME TypeOK, chain # <<>>, Settles
  PROVE  /\ chain' \in Seq(Entries) /\ pc' = "idle" /\ at' = NoAdapter /\ prev' = "none"
         /\ answered' \subseteq Prompts \cup 1..MaxEvents
         /\ \A i \in DOMAIN chain' : i + 1 \in DOMAIN chain /\ chain'[i] = chain[i + 1]
<1>1. Head(chain).who \subseteq Prompts \cup 1..MaxEvents
  BY FirstEntry DEF Entries
<1>2. QED
  BY <1>1, FirstEntry DEF Settles, Pops, TypeOK

LEMMA EnqueuedDoes ==
  ASSUME TypeOK, NEW kind \in {"prompt", "respawn"}, NEW set \in 0..MaxEvents,
         NEW who \in SUBSET (Prompts \cup 1..MaxEvents), Enqueued(kind, set, who)
  PROVE  /\ chain' \in Seq(Entries) /\ chain' # <<>>
         /\ \A i \in DOMAIN chain' :
              \/ i \in DOMAIN chain /\ chain'[i] = chain[i]
              \/ chain'[i].kind = kind /\ chain'[i].set = set
<1> DEFINE e == [kind |-> kind, set |-> set, who |-> who]
<1>1. e \in Entries /\ e.kind = kind /\ e.set = set
  BY DEF Entries
<1>2. chain' = Append(chain, e) /\ chain \in Seq(Entries)
  BY DEF Enqueued, TypeOK
<1> HIDE DEF e
<1>3. QED
  BY <1>1, <1>2

-----------------------------------------------------------------------------
(* The types, that an entry under way is there, and the attempts. *)
LEMMA InitTyped == Init => Typed
<1> SUFFICES ASSUME Init PROVE Typed
  OBVIOUS
<1>1. c \in Clients /\ proc \in Procs
  BY DEF Init, Clients, Procs, Named, Sessions, Gone
<1>2. drv \in Starts /\ mcp \in Servers /\ changes \in 0..MaxEvents /\ upsets \in 0..MaxEvents
  BY ClientAssumption DEF Init, Starts, Servers, Named
<1>3. Tries /\ chain \in Seq(Entries)
  BY ClientAssumption DEF Init, Tries
<1>4. QED
  BY <1>1, <1>2, <1>3, Types DEF Init, Typed, Busy, Named, Sessions

(* The calls of AcpDriver.start(). *)
LEMMA DriverTyped ==
  ASSUME Typed, NEW d \in Drivers, DriverStep(d)
  PROVE  Typed'
<1> USE DEF Typed
<1>0. /\ c \in Clients /\ proc \in Procs /\ drv \in Starts /\ 0 \in 0..Attempts
      /\ NoAdapter \in Named /\ drv[d].g \in Named /\ drv[d].try \in 0..Attempts
      /\ "told" \in Sessions /\ "fresh" \in Sessions
  BY Types, ClientAssumption DEF Starts, Named, Sessions
<1>d. ASSUME c' \in Clients, proc' \in Procs, drv' \in Starts, Tries', mcp' \in Servers,
             answered' \subseteq Prompts \cup 1..MaxEvents, crossed' \in BOOLEAN, stale' = stale,
             Quiet, ChainStays
      PROVE  Typed'
  BY <1>d, Types, TypesNext DEF Quiet, ChainStays, bounds, Busy
<1>s. ASSUME NEW cc \in Clients, NEW ps \in Procs, DriverFails(d, cc, ps),
             Quiet, ChainStays, UNCHANGED hist
      PROVE  Typed'
  <2>1. StopClient(cc, ps) /\ drv' = [drv EXCEPT ![d] = [pc |-> "failed", g |-> NoAdapter, try |-> 0]]
    BY <1>s DEF DriverFails
  <2>2. drv' \in Starts /\ Tries'
    BY <1>0, <2>1 DEF Starts, Tries
  <2>3. QED
    BY <1>d, <1>s, <2>1, <2>2, StopDoes, Types DEF hist
<1>1. CASE DriverSpawns(d)
  <2>1. NewAdapter \in Adapters /\ c' \in Clients /\ proc' \in Procs /\ crossed' \in BOOLEAN
    BY <1>0, <1>1, SpawnDoes DEF DriverSpawns, MaySpawn
  <2>2. drv' \in Starts /\ Tries'
    <3>1. drv[d].try + 1 \in 0..Attempts
      BY <1>0, <1>1, ClientAssumption DEF DriverSpawns, Tries
    <3>2. drv' = [drv EXCEPT ![d] = [pc |-> "hand", g |-> NewAdapter, try |-> drv[d].try + 1]]
      BY <1>0, <1>1 DEF DriverSpawns, Starts
    <3>3. QED
      BY <1>0, <2>1, <3>1, <3>2 DEF Starts, Named, Tries
  <2>3. QED
    BY <1>0, <1>1, <1>d, <2>1, <2>2, Types DEF DriverSpawns
<1>2. CASE DriverRefused(d)
  BY <1>0, <1>2, <1>s DEF DriverRefused
<1>3. CASE DriverShaken(d)
  <2>1. c' \in Clients
    BY <1>0, <1>3, ClientChanges DEF DriverShaken
  <2>2. drv' \in Starts /\ Tries'
    BY <1>0, <1>3 DEF DriverShaken, Starts, Tries
  <2>3. QED
    BY <1>3, <1>d, <2>1, <2>2, Types DEF DriverShaken, hist
<1>4. CASE DriverNotLoaded(d)
  <2>1. Shaken(c, "fresh") \in Clients
    BY <1>0, ClientChanges
  <2>2. QED
    BY <1>0, <1>4, <1>s, <2>1 DEF DriverNotLoaded
<1>5. ASSUME NEW transient \in BOOLEAN, DriverNotShaken(d, transient) PROVE Typed'
  <2> DEFINE ps == Discarded(proc, drv[d].g)
  <2>1. ps \in Procs /\ Undone(c) \in Clients
    BY <1>0, DiscardedDoes, ClientChanges
  <2>2. CASE transient /\ drv[d].try < Attempts
    <3>1. /\ c' = Undone(c) /\ proc' = ps /\ UNCHANGED <<mcp, answered>>
          /\ drv' = [drv EXCEPT ![d].pc = "sleep", ![d].g = NoAdapter]
          /\ Quiet /\ ChainStays /\ UNCHANGED hist
      BY <1>5, <2>2 DEF DriverNotShaken
    <3>2. drv' \in Starts /\ Tries'
      BY <1>0, <2>2, <3>1 DEF Starts, Tries
    <3> HIDE DEF ps
    <3>3. QED
      BY <1>d, <2>1, <3>1, <3>2, Types DEF hist
  <2>3. CASE ~(transient /\ drv[d].try < Attempts)
    BY <1>5, <1>s, <2>1, <2>3 DEF DriverNotShaken
  <2>4. QED
    BY <2>2, <2>3
<1>6. QED
  BY <1>1, <1>2, <1>3, <1>4, <1>5 DEF DriverStep

(* The entries of the chain. *)
LEMMA ChainTyped ==
  ASSUME Typed, ChainStep \/ TurnEnds \/ ChainHandshake
  PROVE  Typed'
<1> USE DEF Typed
<1>0. /\ TypeOK /\ c \in Clients /\ proc \in Procs /\ mcp \in Servers /\ c.child \in Named /\ at \in Named
      /\ c.sid \in Sessions /\ prev \in Sessions /\ NoAdapter \in Named
      /\ "told" \in Sessions /\ "fresh" \in Sessions /\ "none" \in Sessions
  BY Types DEF Clients, Named, Sessions
<1>t. drv' = drv => Tries'
  BY DEF Tries
<1>p. ASSUME chain # <<>>, Settles, Quiet, c' \in Clients, proc' \in Procs, mcp' \in Servers,
             drv' = drv, crossed' \in BOOLEAN, stale' = stale
      PROVE  Typed'
  BY <1>0, <1>p, <1>t, SettlesDoes, Types, TypesNext DEF Quiet, bounds, Busy
<1>g. ASSUME NEW where \in {"restart", "turn", "respawn", "load"}, NEW g \in Named, Goes(where, g),
             chain # <<>>, Quiet, c' \in Clients, proc' \in Procs, mcp' \in Servers,
             drv' = drv, crossed' \in BOOLEAN, stale' = stale
      PROVE  Typed'
  BY <1>g, <1>t, Types, TypesNext DEF Goes, Quiet, bounds, Busy
<1>n. /\ \A kind : First(kind) => chain # <<>>
      /\ pc # "idle" => chain # <<>>
      /\ crossed \in BOOLEAN /\ UNCHANGED hist => crossed' \in BOOLEAN /\ stale' = stale
  BY <1>0, Types DEF First, Busy, hist
<1>r. /\ [c EXCEPT !.stopping = FALSE] \in Clients
      /\ [c EXCEPT !.stopping = FALSE].child = c.child
  BY <1>0, ClientChanges
<1>k. /\ Shaken(c, "fresh") \in Clients /\ Shaken(c, "fresh").child \in Named
      /\ [c EXCEPT !.sid = prev] \in Clients
  BY <1>0, ClientChanges
<1>1. CASE PromptRestarts
  <2>1. /\ NewAdapter \in Adapters /\ c' \in Clients /\ proc' \in Procs /\ crossed' \in BOOLEAN
    BY <1>0, <1>1, <1>r, SpawnDoes DEF PromptRestarts, MaySpawn
  <2>2. NewAdapter \in Named
    BY <2>1 DEF Named
  <2>3. QED
    BY <1>0, <1>1, <1>g, <1>n, <2>1, <2>2 DEF PromptRestarts
<1>2. CASE PromptSent
  BY <1>0, <1>2, <1>g, <1>n, Types DEF PromptSent
<1>3. CASE PromptRefused
  <2>1. c' \in Clients
    BY <1>0, <1>3, <1>r DEF PromptRefused
  <2>2. QED
    BY <1>0, <1>3, <1>p, <1>n, <2>1, Types DEF PromptRefused
<1>4. CASE TurnEnds
  BY <1>0, <1>4, <1>p, <1>n, Types DEF TurnEnds
<1>5. CASE RespawnRuns
  <2>1. c' \in Clients /\ proc' \in Procs
    BY <1>0, <1>5, ClientChanges, ToldDoes DEF RespawnRuns, Signalled
  <2>2. /\ chain # <<>> /\ Head(chain).set \in 0..MaxEvents
        /\ mcp.who \subseteq 1..MaxEvents
    BY <1>0, <1>5, <1>n, FirstEntry DEF RespawnRuns, Entries, Servers
  <2>3. mcp' \in Servers
    <3>1. Cleared(mcp) \in Servers
      BY <1>0, ClearedDoes
    <3>2. mcp' = [Cleared(mcp) EXCEPT !.set = Head(chain).set]
      BY <1>5 DEF RespawnRuns
    <3>3. QED
      BY <2>2, <3>1, <3>2 DEF Servers
  <2>4. answered' \subseteq Prompts \cup 1..MaxEvents
    BY <1>5, <2>2, Types DEF RespawnRuns, TellsWaiters
  <2>5. crossed' \in BOOLEAN /\ stale' = stale
    BY <1>5, <1>n, Types DEF RespawnRuns
  <2>6. QED
    BY <1>0, <1>5, <1>t, <2>1, <2>2, <2>3, <2>4, <2>5, Types, TypesNext DEF RespawnRuns, Quiet, bounds, Busy
<1>6. CASE RespawnDeferred
  <2>1. chain # <<>> /\ Head(chain).set \in 0..MaxEvents
    BY <1>0, <1>6, <1>n, FirstEntry DEF RespawnDeferred, Entries
  <2>2. mcp' \in Servers
    BY <1>0, <1>6, <2>1 DEF RespawnDeferred, Servers
  <2>3. QED
    BY <1>0, <1>6, <1>n, <1>p, <2>1, <2>2, Types DEF RespawnDeferred
<1>7. CASE GraceOver
  <2>1. /\ NewAdapter \in Adapters /\ c' \in Clients /\ proc' \in Procs /\ crossed' \in BOOLEAN
    BY <1>0, <1>7, <1>r, SpawnDoes DEF GraceOver, MaySpawn
  <2>2. NewAdapter \in Named
    BY <2>1 DEF Named
  <2>3. QED
    BY <1>0, <1>7, <1>g, <1>n, <2>1, <2>2 DEF GraceOver
<1>8. CASE GraceLost
  BY <1>0, <1>8, <1>p, <1>n, <1>r, Types DEF GraceLost
<1>9. ASSUME NEW ok \in BOOLEAN, Reloaded(ok) PROVE Typed'
  <2>1. c' \in Clients
    BY <1>0, <1>9, <1>k DEF Reloaded
  <2>2. QED
    BY <1>0, <1>9, <1>p, <1>n, <2>1, Types DEF Reloaded
<1>10. CASE PromptRestarted
  <2>1. c' \in Clients /\ c'.child \in Named
    BY <1>10, <1>k DEF PromptRestarted
  <2>2. QED
    BY <1>0, <1>10, <1>g, <1>p, <1>n, <2>1, Types DEF PromptRestarted
<1>11. CASE Respawned
  <2>1. c' \in Clients /\ c'.child \in Named
    BY <1>11, <1>k DEF Respawned
  <2>2. QED
    BY <1>0, <1>11, <1>g, <1>p, <1>n, <2>1, Types DEF Respawned
<1>12. ASSUME NEW transient \in BOOLEAN, ChainNotShaken(transient) PROVE Typed'
  <2>1. c' \in Clients /\ proc' \in Procs
    BY <1>0, <1>12, ClientChanges, DiscardedDoes DEF ChainNotShaken
  <2>2. QED
    BY <1>0, <1>12, <1>p, <1>n, <2>1, Types DEF ChainNotShaken
<1>13. QED
  BY <1>1, <1>2, <1>3, <1>4, <1>5, <1>6, <1>7, <1>8, <1>9, <1>10, <1>11, <1>12
     DEF ChainStep, ChainHandshake

(* What comes from outside: prompts, new servers, stops, loads and exits. *)
LEMMA OutsideTyped ==
  ASSUME Typed,
         \/ Debounced \/ Change \/ Stop \/ Load
         \/ \E ok \in BOOLEAN : Loaded(ok)
         \/ \E p \in Prompts : Ask(p)
         \/ \E g \in Adapters : Exit(g) \/ SpawnFails(g)
  PROVE  Typed'
<1> USE DEF Typed
<1>0. /\ TypeOK /\ c \in Clients /\ proc \in Procs /\ mcp \in Servers /\ c.child \in Named
      /\ MaxEvents \in Nat /\ changes \in 0..MaxEvents /\ upsets \in 0..MaxEvents
  BY Types, ClientAssumption DEF Clients
<1>t. drv' = drv => Tries'
  BY DEF Tries
<1>1. CASE Debounced
  <2>1. mcp.pend \in 0..MaxEvents /\ mcp.who \in SUBSET (Prompts \cup 1..MaxEvents)
    BY <1>0 DEF Servers
  <2>2. chain' \in Seq(Entries) /\ chain' # <<>>
    BY <1>0, <1>1, <2>1, EnqueuedDoes DEF Debounced
  <2>3. mcp' \in Servers
    BY <1>0, <1>1, ClearedDoes DEF Debounced
  <2>4. QED
    BY <1>1, <1>t, <2>2, <2>3, Types, TypesNext DEF Debounced, Quiet, bounds, hist, Busy
<1>2. CASE Change
  <2>1. changes' \in 1..MaxEvents
    BY <1>0, <1>2 DEF Change
  <2>2. changes' \in 0..MaxEvents
    BY <1>0, <2>1
  <2>3. mcp' \in Servers
    <3>1. CASE Up(c)
      <4> DEFINE m == [mcp EXCEPT !.set = changes', !.pend = changes']
      <4>1. m \in Servers /\ m.who = mcp.who
        BY <1>0, <2>1, <2>2 DEF Servers
      <4>2. mcp' = [m EXCEPT !.timer = TRUE, !.who = mcp.who \cup {changes'}]
        BY <1>0, <1>2, <3>1, <4>1 DEF Change, KeptFirst, Servers
      <4> HIDE DEF m
      <4>3. QED
        BY <1>0, <2>1, <4>1, <4>2 DEF Servers
    <3>2. CASE ~Up(c)
      BY <1>0, <1>2, <2>2, <3>2 DEF Change, Servers
    <3>3. QED
      BY <3>1, <3>2
  <2>4. answered' \subseteq Prompts \cup 1..MaxEvents
    BY <1>0, <1>2, <2>1, Types DEF Change
  <2>5. stale' \in BOOLEAN
    BY <1>2, Zenon DEF Change
  <2>6. QED
    BY <1>2, <1>t, <2>2, <2>3, <2>4, <2>5, Types, TypesNext DEF Change, ChainStays, Busy
<1>3. CASE Stop
  <2>1. /\ c' \in Clients /\ proc' \in Procs /\ mcp' \in Servers
        /\ answered' \subseteq Prompts \cup 1..MaxEvents
    BY <1>0, <1>3, StopDoes DEF Stop
  <2>2. upsets' \in 0..MaxEvents
    BY <1>0, <1>3 DEF Stop
  <2>3. QED
    BY <1>3, <1>t, <2>1, <2>2, Types, TypesNext DEF Stop, ChainStays, hist, Busy
<1>4. CASE Load
  <2>1. upsets' \in 0..MaxEvents
    BY <1>0, <1>4 DEF Load
  <2>2. QED
    BY <1>0, <1>4, <1>t, <2>1, Types, TypesNext DEF Load, ChainStays, hist, Busy
<1>5. ASSUME NEW ok \in BOOLEAN, Loaded(ok) PROVE Typed'
  <2>1. c' \in Clients /\ load' \in Named
    BY <1>0, <1>5, ClientChanges DEF Loaded, Named, Sessions
  <2>2. QED
    BY <1>5, <1>t, <2>1, Types, TypesNext DEF Loaded, ChainStays, bounds, hist, Busy
<1>6. ASSUME NEW p \in Prompts, Ask(p) PROVE Typed'
  <2>1. chain' \in Seq(Entries) /\ chain' # <<>>
    BY <1>0, <1>6, EnqueuedDoes DEF Ask
  <2>2. QED
    BY <1>6, <1>t, <2>1, Types, TypesNext DEF Ask, hist, Busy
<1>7. ASSUME NEW g \in Adapters, Exit(g) PROVE Typed'
  <2> DEFINE ps == [proc EXCEPT ![g] = Gone]
  <2>1. ps \in Procs
    BY <1>0 DEF Procs, Gone
  <2>2. proc' \in Procs
    <3>1. proc' \in {ps, [ps EXCEPT ![c.abort].rej = TRUE]}
      BY <1>7 DEF Exit
    <3> HIDE DEF ps
    <3>2. QED
      BY <2>1, <3>1 DEF Procs
  <2>3. c' \in Clients /\ exited' \in BOOLEAN
    <3>1. c' \in {c, [c EXCEPT !.abort = NoAdapter]}
      BY <1>7 DEF Exit
    <3>2. exited' \in BOOLEAN
      BY <1>7, Zenon DEF Exit
    <3>3. QED
      BY <1>0, <3>1, <3>2, ClientChanges DEF Sessions
  <2>4. upsets' \in 0..MaxEvents
    BY <1>0, <1>7, Types DEF Exit, Procs
  <2>5. QED
    BY <1>7, <1>t, <2>2, <2>3, <2>4, Types, TypesNext DEF Exit, ChainStays, hist, Busy
<1>8. ASSUME NEW g \in Adapters, SpawnFails(g) PROVE Typed'
  <2>1. proc' \in Procs
    BY <1>0, <1>8 DEF SpawnFails, Procs, Gone
  <2>2. exited' \in BOOLEAN
    BY <1>8, Zenon DEF SpawnFails
  <2>3. upsets' \in 0..MaxEvents
    BY <1>0, <1>8 DEF SpawnFails
  <2>4. QED
    BY <1>8, <1>t, <2>1, <2>2, <2>3, Types, TypesNext DEF SpawnFails, ChainStays, hist, Busy
<1>9. QED
  BY <1>1, <1>2, <1>3, <1>4, <1>5, <1>6, <1>7, <1>8

LEMMA NextTyped == Typed /\ [Next]_vars => Typed'
<1> SUFFICES ASSUME Typed, [Next]_vars PROVE Typed'
  OBVIOUS
<1>1. CASE UNCHANGED vars
  BY <1>1, Types, TypesNext DEF Typed, vars, bounds, hist, Busy, Tries
<1>2. CASE Next
  BY <1>2, DriverTyped, ChainTyped, OutsideTyped DEF Next
<1>3. QED
  BY <1>1, <1>2

-----------------------------------------------------------------------------
(* One adapter: a step that spawns one finds the client without, and says so if a
   handshake was under way; every other step only takes adapters away. *)
Fewer == \A x \in Adapters : proc'[x].st = "alive" => proc[x].st = "alive"
Loses == \A x \in Adapters : proc'[x].st = "alive" => proc[x].st = "alive" /\ x # c.child

LEMMA SpawnKeepsOne ==
  ASSUME TypeOK, OneAdapter, NEW cc \in Clients, cc.child = c.child, c.child = NoAdapter,
         Spawned(cc), InHandshake' \subseteq InHandshake \cup {NewAdapter}
  PROVE  OneAdapter'
<1>1. /\ c'.child = NewAdapter
      /\ \A x \in Adapters : proc'[x].st = "alive" => proc[x].st = "alive" \/ x = NewAdapter
  BY SpawnDoes
<1>2. crossed' = (crossed \/ InHandshake # {})
  BY DEF Spawned
<1>3. \A x \in Adapters : x # NoAdapter
  BY ClientAssumption
<1>4. ASSUME ~crossed' PROVE ~crossed /\ InHandshake = {}
  BY <1>2, <1>4, Zenon
<1>5. QED
  BY <1>1, <1>3, <1>4 DEF OneAdapter

LEMMA LosesKeepsOne ==
  ASSUME OneAdapter, Loses, crossed' = crossed
  PROVE  ~crossed => \A g \in Adapters : proc'[g].st # "alive"
BY DEF OneAdapter, Loses

(* The client keeps its adapter, or is left without one and nothing is alive. *)
LEMMA KeepsOne ==
  ASSUME OneAdapter, crossed' = crossed, InHandshake' \subseteq InHandshake,
         \/ Fewer /\ c'.child = c.child
         \/ c'.child = NoAdapter /\ (~crossed => \A g \in Adapters : proc'[g].st # "alive")
  PROVE  OneAdapter'
BY DEF OneAdapter, Fewer

LEMMA HandshakeStays ==
  ASSUME UNCHANGED <<drv, pc, at>>
  PROVE  InHandshake' = InHandshake
BY DEF InHandshake

LEMMA DriverOne ==
  ASSUME Typed, OneAdapter, NEW d \in Drivers, DriverStep(d)
  PROVE  OneAdapter'
<1>0. /\ TypeOK /\ c \in Clients /\ proc \in Procs /\ drv \in Starts /\ drv[d].g \in Named
      /\ "told" \in Sessions /\ "fresh" \in Sessions
  BY Types DEF Typed, Starts, Sessions
<1>h. ASSUME UNCHANGED <<pc, at>>, \A e \in Drivers \ {d} : drv'[e] = drv[e]
      PROVE  /\ drv'[d].pc # "hand" => InHandshake' \subseteq InHandshake
             /\ InHandshake' \subseteq InHandshake \cup {drv'[d].g}
  BY <1>0, <1>h DEF InHandshake
<1>s. ASSUME NEW cc \in Clients, NEW ps \in Procs, DriverFails(d, cc, ps),
             \A x \in Adapters : ps[x].st = "alive" =>
               proc[x].st = "alive" /\ (x = cc.child \/ x # c.child \/ crossed),
             UNCHANGED <<pc, at, crossed>>
      PROVE  OneAdapter'
  <2>1. /\ c'.child = NoAdapter
        /\ \A x \in Adapters : proc'[x].st = "alive" => ps[x].st = "alive" /\ x # cc.child
    BY <1>0, <1>s, StopDoes DEF DriverFails
  <2>2. ~crossed => \A g \in Adapters : proc'[g].st # "alive"
    BY <1>s, <2>1 DEF OneAdapter
  <2>3. InHandshake' \subseteq InHandshake
    BY <1>0, <1>h, <1>s DEF DriverFails, Starts
  <2>4. QED
    BY <1>s, <2>1, <2>2, <2>3, KeepsOne
<1>1. CASE DriverSpawns(d)
  <2>1. InHandshake' \subseteq InHandshake \cup {NewAdapter}
    <3>1. drv' = [drv EXCEPT ![d] = [pc |-> "hand", g |-> NewAdapter, try |-> drv[d].try + 1]]
      BY <1>0, <1>1 DEF DriverSpawns, Starts
    <3>2. QED
      BY <1>0, <1>1, <1>h, <3>1 DEF DriverSpawns, ChainStays, Starts
  <2>2. QED
    BY <1>0, <1>1, <2>1, SpawnKeepsOne DEF DriverSpawns, MaySpawn
<1>2. CASE DriverRefused(d)
  BY <1>0, <1>2, <1>s DEF DriverRefused, ChainStays, hist
<1>3. CASE DriverShaken(d)
  <2>1. c'.child = c.child
    BY <1>0, <1>3, ClientChanges DEF DriverShaken
  <2>2. InHandshake' \subseteq InHandshake
    BY <1>0, <1>3, <1>h DEF DriverShaken, ChainStays, Starts
  <2>3. QED
    BY <1>3, <2>1, <2>2, KeepsOne DEF DriverShaken, Fewer, hist
<1>4. CASE DriverNotLoaded(d)
  <2>1. Shaken(c, "fresh") \in Clients /\ Shaken(c, "fresh").child = c.child
    BY <1>0, ClientChanges
  <2>2. QED
    BY <1>0, <1>4, <1>s, <2>1 DEF DriverNotLoaded, ChainStays, hist
<1>5. ASSUME NEW transient \in BOOLEAN, DriverNotShaken(d, transient) PROVE OneAdapter'
  <2> DEFINE ps == Discarded(proc, drv[d].g)
  <2>1. /\ ps \in Procs /\ Undone(c) \in Clients /\ Undone(c).child = NoAdapter
        /\ \A x \in Adapters : ps[x].st = "alive" => proc[x].st = "alive" /\ x # drv[d].g
    BY <1>0, DiscardedDoes, ClientChanges
  <2>2. ~crossed => \A x \in Adapters : ps[x].st # "alive"
    <3>1. drv[d].g \in InHandshake
      BY <1>5 DEF DriverNotShaken, InHandshake
    <3>2. \A x \in Adapters : x # NoAdapter
      BY ClientAssumption
    <3>3. QED
      BY <2>1, <3>1, <3>2 DEF OneAdapter
  <2> HIDE DEF ps
  <2>3. CASE transient /\ drv[d].try < Attempts
    <3>1. /\ c' = Undone(c) /\ proc' = ps /\ ChainStays /\ UNCHANGED hist
          /\ drv' = [drv EXCEPT ![d].pc = "sleep", ![d].g = NoAdapter]
      BY <1>5, <2>3 DEF DriverNotShaken, ps
    <3>2. InHandshake' \subseteq InHandshake
      BY <1>0, <3>1 DEF InHandshake, ChainStays, Starts
    <3>3. QED
      BY <2>1, <2>2, <3>1, <3>2, KeepsOne DEF hist
  <2>4. CASE ~(transient /\ drv[d].try < Attempts)
    <3>1. DriverFails(d, Undone(c), ps) /\ UNCHANGED <<pc, at, crossed>>
      BY <1>5, <2>4 DEF DriverNotShaken, ps, ChainStays, hist
    <3>2. QED
      BY <1>s, <2>1, <2>2, <3>1
  <2>5. QED
    BY <2>3, <2>4
<1>6. QED
  BY <1>1, <1>2, <1>3, <1>4, <1>5 DEF DriverStep

LEMMA ChainOne ==
  ASSUME Typed, OneAdapter, ChainStep \/ TurnEnds \/ ChainHandshake
  PROVE  OneAdapter'
<1>0. /\ TypeOK /\ c \in Clients /\ proc \in Procs /\ c.child \in Named /\ at \in Named
      /\ c.sid \in Sessions /\ prev \in Sessions
      /\ "told" \in Sessions /\ "fresh" \in Sessions /\ "none" \in Sessions
  BY Types DEF Typed, Clients, Sessions
<1>h. ASSUME UNCHANGED drv, pc' \notin {"restart", "respawn"}
      PROVE  InHandshake' \subseteq InHandshake
  BY <1>h DEF InHandshake
<1>q. ASSUME UNCHANGED <<drv, proc, crossed>>, pc' \notin {"restart", "respawn"}, c'.child = c.child
      PROVE  OneAdapter'
  BY <1>h, <1>q, KeepsOne DEF Fewer
<1>r. /\ [c EXCEPT !.stopping = FALSE] \in Clients
      /\ [c EXCEPT !.stopping = FALSE].child = c.child
      /\ Shaken(c, "fresh").child = c.child /\ [c EXCEPT !.sid = prev].child = c.child
  BY <1>0, ClientChanges
<1>1. CASE PromptRestarts \/ GraceOver
  <2>1. InHandshake' \subseteq InHandshake \cup {NewAdapter}
    BY <1>1 DEF PromptRestarts, GraceOver, Goes, InHandshake
  <2>2. QED
    BY <1>0, <1>1, <1>r, <2>1, SpawnKeepsOne DEF PromptRestarts, GraceOver, MaySpawn
<1>2. CASE PromptSent \/ PromptRefused \/ TurnEnds \/ RespawnDeferred \/ GraceLost
  <2>1. UNCHANGED <<drv, proc, crossed>> /\ pc' \notin {"restart", "respawn"}
    BY <1>2 DEF PromptSent, PromptRefused, TurnEnds, RespawnDeferred, GraceLost,
                Goes, Settles, Pops, hist
  <2>2. c'.child = c.child
    BY <1>2, <1>r DEF PromptSent, PromptRefused, TurnEnds, RespawnDeferred, GraceLost
  <2>3. QED
    BY <1>q, <2>1, <2>2
<1>3. CASE RespawnRuns
  <2>1. /\ c'.child = NoAdapter
        /\ \A x \in Adapters : proc'[x].st = "alive" => proc[x].st = "alive" /\ x # c.child
    BY <1>0, <1>3, ClientChanges, ToldDoes DEF RespawnRuns, Signalled
  <2>2. InHandshake' \subseteq InHandshake /\ crossed' = crossed
    BY <1>3, <1>h DEF RespawnRuns, hist
  <2>3. QED
    BY <2>1, <2>2, LosesKeepsOne, KeepsOne DEF Loses
<1>4. ASSUME NEW ok \in BOOLEAN, Reloaded(ok) PROVE OneAdapter'
  <2>1. UNCHANGED <<drv, proc, crossed>> /\ pc' = "idle" /\ c'.child = c.child
    BY <1>4, <1>r DEF Reloaded, Settles, Pops, hist
  <2>2. QED
    BY <1>q, <2>1
<1>5. CASE PromptRestarted \/ Respawned
  <2>1. UNCHANGED <<drv, proc, crossed>> /\ pc' \in {"idle", "turn", "load"} /\ c'.child = c.child
    BY <1>5, <1>r DEF PromptRestarted, Respawned, Goes, Settles, Pops, hist
  <2>2. QED
    BY <1>q, <2>1
<1>6. ASSUME NEW transient \in BOOLEAN, ChainNotShaken(transient) PROVE OneAdapter'
  <2>1. /\ c'.child = NoAdapter
        /\ \A x \in Adapters : proc'[x].st = "alive" => proc[x].st = "alive" /\ x # at
    BY <1>0, <1>6, ClientChanges, DiscardedDoes DEF ChainNotShaken
  <2>2. ~crossed => \A x \in Adapters : proc'[x].st # "alive"
    <3>1. at \in InHandshake
      BY <1>6 DEF ChainNotShaken, InHandshake
    <3>2. \A x \in Adapters : x # NoAdapter
      BY ClientAssumption
    <3>3. QED
      BY <2>1, <3>1, <3>2 DEF OneAdapter
  <2>3. InHandshake' \subseteq InHandshake /\ crossed' = crossed
    BY <1>6, <1>h DEF ChainNotShaken, Settles, Pops, hist
  <2>4. QED
    BY <2>1, <2>2, <2>3, KeepsOne
<1>7. QED
  BY <1>1, <1>2, <1>3, <1>4, <1>5, <1>6 DEF ChainStep, ChainHandshake

LEMMA OutsideOne ==
  ASSUME Typed, OneAdapter,
         \/ Debounced \/ Change \/ Stop \/ Load
         \/ \E ok \in BOOLEAN : Loaded(ok)
         \/ \E p \in Prompts : Ask(p)
         \/ \E g \in Adapters : Exit(g) \/ SpawnFails(g)
  PROVE  OneAdapter'
<1>0. TypeOK /\ c \in Clients /\ proc \in Procs /\ "told" \in Sessions
  BY Types DEF Typed, Sessions
<1>1. CASE Debounced \/ Change \/ Load \/ \E p \in Prompts : Ask(p)
  <2>1. UNCHANGED <<c, proc, drv, pc, at, crossed>>
    BY <1>1 DEF Debounced, Change, Load, Ask, ChainStays, hist
  <2>2. QED
    BY <2>1, HandshakeStays, KeepsOne DEF Fewer
<1>2. ASSUME NEW ok \in BOOLEAN, Loaded(ok) PROVE OneAdapter'
  <2>1. UNCHANGED <<proc, drv, pc, at, crossed>> /\ c'.child = c.child
    BY <1>0, <1>2, ClientChanges DEF Loaded, ChainStays, hist
  <2>2. QED
    BY <2>1, HandshakeStays, KeepsOne DEF Fewer
<1>3. CASE Stop
  <2>1. /\ c'.child = NoAdapter
        /\ \A x \in Adapters : proc'[x].st = "alive" => proc[x].st = "alive" /\ x # c.child
    BY <1>0, <1>3, StopDoes DEF Stop
  <2>2. UNCHANGED <<drv, pc, at, crossed>>
    BY <1>3 DEF Stop, ChainStays, hist
  <2>3. QED
    BY <2>1, <2>2, HandshakeStays, LosesKeepsOne, KeepsOne DEF Loses
<1>4. ASSUME NEW g \in Adapters, Exit(g) PROVE OneAdapter'
  <2> DEFINE ps == [proc EXCEPT ![g] = Gone]
  <2>1. \A x \in Adapters : ps[x].st = "alive" => proc[x].st = "alive"
    BY <1>0 DEF Procs, Gone
  <2>2. proc' \in {ps, [ps EXCEPT ![c.abort].rej = TRUE]} /\ ps \in Procs
    BY <1>0, <1>4 DEF Exit, Procs, Gone
  <2> HIDE DEF ps
  <2>3. Fewer
    BY <2>1, <2>2 DEF Procs, Fewer
  <2>4. c'.child = c.child
    <3>1. c' \in {c, [c EXCEPT !.abort = NoAdapter]}
      BY <1>4 DEF Exit
    <3>2. QED
      BY <1>0, <3>1, ClientChanges
  <2>5. UNCHANGED <<drv, pc, at, crossed>>
    BY <1>4 DEF Exit, ChainStays, hist
  <2>6. QED
    BY <2>3, <2>4, <2>5, HandshakeStays, KeepsOne
<1>5. ASSUME NEW g \in Adapters, SpawnFails(g) PROVE OneAdapter'
  <2>1. Fewer
    BY <1>0, <1>5 DEF SpawnFails, Procs, Gone, Fewer
  <2>2. UNCHANGED <<c, drv, pc, at, crossed>>
    BY <1>5 DEF SpawnFails, ChainStays, hist
  <2>3. QED
    BY <2>1, <2>2, HandshakeStays, KeepsOne
<1>6. QED
  BY <1>1, <1>2, <1>3, <1>4, <1>5

LEMMA NextOne == Typed /\ OneAdapter /\ [Next]_vars => OneAdapter'
<1> SUFFICES ASSUME Typed, OneAdapter, [Next]_vars PROVE OneAdapter'
  OBVIOUS
<1>1. CASE UNCHANGED vars
  BY <1>1, HandshakeStays, KeepsOne DEF vars, hist, Fewer
<1>2. CASE Next
  BY <1>2, DriverOne, ChainOne, OutsideOne DEF Next
<1>3. QED
  BY <1>1, <1>2

-----------------------------------------------------------------------------
(* The servers: a step that neither changes them nor arms the timer keeps them, if
   the respawns it leaves in the chain were there. *)
FromChain ==
  \A i \in DOMAIN chain' :
    \/ chain'[i].kind = "prompt"
    \/ chain'[i].set = mcp.pend /\ mcp.timer
    \/ \E j \in DOMAIN chain : chain'[i].kind = chain[j].kind /\ chain'[i].set = chain[j].set

LEMMA KeepsNewest ==
  ASSUME NewestToCome, changes' = changes, stale' = stale, FromChain,
         \/ mcp'.set = mcp.set
         \/ \E j \in DOMAIN chain : chain[j].kind = "respawn" /\ mcp'.set = chain[j].set,
         mcp'.timer => mcp.timer /\ mcp'.pend = mcp.pend
  PROVE  NewestToCome'
BY DEF NewestToCome, FromChain

LEMMA SameChain ==
  ASSUME chain' = chain
  PROVE  FromChain
BY DEF FromChain

LEMMA ShorterChain ==
  ASSUME TypeOK, chain # <<>>, Settles
  PROVE  FromChain
<1>1. \A i \in DOMAIN chain' : i + 1 \in DOMAIN chain /\ chain'[i] = chain[i + 1]
  BY SettlesDoes
<1>2. QED
  BY <1>1 DEF FromChain

LEMMA DriverNewest ==
  ASSUME Typed, NewestToCome, NEW d \in Drivers, DriverStep(d)
  PROVE  NewestToCome'
<1>0. /\ TypeOK /\ c \in Clients /\ proc \in Procs /\ mcp \in Servers /\ drv[d].g \in Named
      /\ "told" \in Sessions /\ "fresh" \in Sessions
  BY Types DEF Typed, Starts, Sessions
<1>s. ASSUME NEW cc, NEW ps, DriverFails(d, cc, ps), Quiet, ChainStays, UNCHANGED hist
      PROVE  NewestToCome'
  <2>1. mcp'.set = mcp.set /\ ~mcp'.timer
    BY <1>0, <1>s, ClearedDoes DEF DriverFails, StopClient
  <2>2. QED
    BY <1>s, <2>1, SameChain, KeepsNewest DEF Quiet, ChainStays, bounds, hist
<1>q. ASSUME UNCHANGED mcp, Quiet, ChainStays, stale' = stale
      PROVE  NewestToCome'
  BY <1>q, SameChain, KeepsNewest DEF Quiet, ChainStays, bounds
<1>1. CASE DriverSpawns(d)
  BY <1>1, <1>q DEF DriverSpawns
<1>2. CASE DriverRefused(d)
  BY <1>2, <1>s DEF DriverRefused
<1>3. CASE DriverShaken(d)
  BY <1>3, <1>q DEF DriverShaken, hist
<1>4. CASE DriverNotLoaded(d)
  BY <1>4, <1>s DEF DriverNotLoaded
<1>5. ASSUME NEW transient \in BOOLEAN, DriverNotShaken(d, transient) PROVE NewestToCome'
  <2>1. CASE transient /\ drv[d].try < Attempts
    BY <1>5, <1>q, <2>1 DEF DriverNotShaken, hist
  <2>2. CASE ~(transient /\ drv[d].try < Attempts)
    BY <1>5, <1>s, <2>2 DEF DriverNotShaken
  <2>3. QED
    BY <2>1, <2>2
<1>6. QED
  BY <1>1, <1>2, <1>3, <1>4, <1>5 DEF DriverStep

LEMMA ChainNewest ==
  ASSUME Typed, NewestToCome, ChainStep \/ TurnEnds \/ ChainHandshake
  PROVE  NewestToCome'
<1>0. TypeOK /\ mcp \in Servers
  BY Types DEF Typed
<1>n. /\ \A kind : First(kind) => chain # <<>>
      /\ pc # "idle" => chain # <<>>
  BY DEF First, Typed, Busy
<1>p. ASSUME chain # <<>>, Settles, Quiet, UNCHANGED mcp, stale' = stale
      PROVE  NewestToCome'
  BY <1>0, <1>p, ShorterChain, KeepsNewest DEF Quiet, bounds
<1>g. ASSUME NEW where, NEW g, Goes(where, g), Quiet, UNCHANGED mcp, stale' = stale
      PROVE  NewestToCome'
  BY <1>g, SameChain, KeepsNewest DEF Goes, Quiet, bounds
<1>r. ASSUME First("respawn")
      PROVE  1 \in DOMAIN chain /\ chain[1].kind = "respawn" /\ Head(chain).set = chain[1].set
  BY <1>0, <1>n, <1>r, FirstEntry DEF First
<1>1. CASE PromptRestarts \/ PromptSent \/ GraceOver
  BY <1>1, <1>g DEF PromptRestarts, PromptSent, GraceOver, hist
<1>2. CASE PromptRefused \/ TurnEnds \/ GraceLost
  BY <1>2, <1>n, <1>p DEF PromptRefused, TurnEnds, GraceLost, hist
<1>3. CASE RespawnRuns
  <2>1. ~mcp'.timer /\ mcp'.set = Head(chain).set
    <3>1. Cleared(mcp) \in Servers /\ ~Cleared(mcp).timer
      BY <1>0, ClearedDoes
    <3>2. mcp' = [Cleared(mcp) EXCEPT !.set = Head(chain).set]
      BY <1>3 DEF RespawnRuns
    <3>3. QED
      BY <3>1, <3>2 DEF Servers
  <2>2. QED
    BY <1>3, <1>r, <2>1, SameChain, KeepsNewest DEF RespawnRuns, Quiet, bounds, hist
<1>4. CASE RespawnDeferred
  <2>1. mcp'.timer = mcp.timer /\ mcp'.pend = mcp.pend /\ mcp'.set = Head(chain).set
    BY <1>0, <1>4 DEF RespawnDeferred, Servers
  <2>2. FromChain
    BY <1>0, <1>4, <1>n, ShorterChain DEF RespawnDeferred
  <2>3. QED
    BY <1>4, <1>r, <2>1, <2>2, KeepsNewest DEF RespawnDeferred, Quiet, bounds, hist
<1>5. ASSUME NEW ok \in BOOLEAN, Reloaded(ok) PROVE NewestToCome'
  BY <1>5, <1>n, <1>p DEF Reloaded, hist
<1>6. CASE PromptRestarted \/ Respawned
  BY <1>6, <1>n, <1>p, <1>g DEF PromptRestarted, Respawned, hist
<1>7. ASSUME NEW transient \in BOOLEAN, ChainNotShaken(transient) PROVE NewestToCome'
  BY <1>7, <1>n, <1>p DEF ChainNotShaken, hist
<1>8. QED
  BY <1>1, <1>2, <1>3, <1>4, <1>5, <1>6, <1>7 DEF ChainStep, ChainHandshake

LEMMA OutsideNewest ==
  ASSUME Typed, NewestToCome,
         \/ Debounced \/ Change \/ Stop \/ Load
         \/ \E ok \in BOOLEAN : Loaded(ok)
         \/ \E p \in Prompts : Ask(p)
         \/ \E g \in Adapters : Exit(g) \/ SpawnFails(g)
  PROVE  NewestToCome'
<1>0. TypeOK /\ mcp \in Servers /\ 0 \in 0..MaxEvents /\ c \in Clients /\ proc \in Procs
  BY Types, ClientAssumption DEF Typed
<1>1. CASE Debounced
  <2>1. mcp.pend \in 0..MaxEvents /\ mcp.who \in SUBSET (Prompts \cup 1..MaxEvents)
    BY <1>0 DEF Servers
  <2>2. FromChain
    BY <1>0, <1>1, <2>1, EnqueuedDoes DEF Debounced, FromChain
  <2>3. mcp'.set = mcp.set /\ ~mcp'.timer
    BY <1>0, <1>1, ClearedDoes DEF Debounced
  <2>4. QED
    BY <1>1, <2>2, <2>3, KeepsNewest DEF Debounced, Quiet, bounds, hist
<1>2. CASE Change
  <2> SUFFICES ASSUME ~stale' PROVE NewestToCome'
    BY DEF NewestToCome
  <2>1. /\ ~stale /\ ~(mcp.timer /\ ~Up(c))
        /\ \A i \in DOMAIN chain : chain[i].kind # "respawn"
    BY <1>2, Zenon DEF Change
  <2>2. CASE Up(c)
    <3> DEFINE m == [mcp EXCEPT !.set = changes', !.pend = changes']
    <3>1. m.set = changes' /\ m.pend = changes' /\ mcp' = [m EXCEPT !.timer = TRUE, !.who = mcp.who \cup {changes'}]
      BY <1>0, <1>2, <2>2 DEF Change, KeptFirst, Servers
    <3>2. mcp'.set = changes' /\ mcp'.pend = changes'
      BY <1>0, <3>1 DEF Servers
    <3>3. QED
      BY <1>2, <2>1, <3>2 DEF Change, ChainStays, NewestToCome
  <2>3. CASE ~Up(c)
    <3>1. mcp'.set = changes' /\ ~mcp'.timer
      BY <1>0, <1>2, <2>1, <2>3 DEF Change, Servers
    <3>2. QED
      BY <1>2, <2>1, <3>1 DEF Change, ChainStays, NewestToCome
  <2>4. QED
    BY <2>2, <2>3
<1>3. CASE Stop
  <2>1. mcp'.set = mcp.set /\ ~mcp'.timer
    BY <1>0, <1>3, StopDoes DEF Stop
  <2>2. QED
    BY <1>3, <2>1, SameChain, KeepsNewest DEF Stop, ChainStays, hist
<1>4. CASE Load \/ (\E ok \in BOOLEAN : Loaded(ok)) \/ \E g \in Adapters : Exit(g) \/ SpawnFails(g)
  <2>1. UNCHANGED <<mcp, chain, changes, stale>>
    BY <1>4 DEF Load, Loaded, Exit, SpawnFails, ChainStays, bounds, hist
  <2>2. QED
    BY <2>1, SameChain, KeepsNewest
<1>5. ASSUME NEW p \in Prompts, Ask(p) PROVE NewestToCome'
  <2>1. FromChain
    BY <1>0, <1>5, EnqueuedDoes DEF Ask, FromChain
  <2>2. QED
    BY <1>5, <2>1, KeepsNewest DEF Ask, hist
<1>6. QED
  BY <1>1, <1>2, <1>3, <1>4, <1>5

LEMMA NextNewest == Typed /\ NewestToCome /\ [Next]_vars => NewestToCome'
<1> SUFFICES ASSUME Typed, NewestToCome, [Next]_vars PROVE NewestToCome'
  OBVIOUS
<1>1. CASE UNCHANGED vars
  BY <1>1, SameChain, KeepsNewest DEF vars, bounds, hist
<1>2. CASE Next
  BY <1>2, DriverNewest, ChainNewest, OutsideNewest DEF Next
<1>3. QED
  BY <1>1, <1>2

-----------------------------------------------------------------------------
LEMMA InitIInv == Init => IInv
<1> SUFFICES ASSUME Init PROVE IInv
  OBVIOUS
<1>1. OneAdapter
  BY DEF Init, OneAdapter, InHandshake, Gone
<1>2. NewestToCome
  BY DEF Init, NewestToCome
<1>3. QED
  BY <1>1, <1>2, InitTyped DEF IInv

LEMMA Invariance == Spec => []IInv
<1>1. IInv /\ [Next]_vars => IInv'
  BY NextTyped, NextOne, NextNewest DEF IInv
<1>2. QED
  BY <1>1, InitIInv, PTL DEF Spec

(* Client, adapters, starts, chain and servers keep their types, whatever crosses. *)
THEOREM TypeCorrect == Spec => []TypeOK
<1>1. IInv => TypeOK
  BY DEF IInv, Typed
<1>2. QED
  BY <1>1, Invariance, PTL

(* While no two handshakes cross, no start, failure, respawn or stop leaves behind an
   adapter that runs and is not the client's. *)
THEOREM AdaptersAreOwned == Spec => []NoStrayAdapter
<1>1. IInv => NoStrayAdapter
  BY DEF IInv, OneAdapter, NoStrayAdapter
<1>2. QED
  BY <1>1, Invariance, PTL

(* The newest set of servers is the one the next start binds, unless a change came
   over a respawn that was still to run. *)
THEOREM NewestSetBinds == Spec => []NewestSetIsKept
<1>1. IInv => NewestSetIsKept
  BY DEF IInv, NewestToCome, NewestSetIsKept
<1>2. QED
  BY <1>1, Invariance, PTL
=============================================================================
