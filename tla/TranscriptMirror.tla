--------------------------- MODULE TranscriptMirror ---------------------------
(***************************************************************************)
(* What the phone sees of a session that is driven from the terminal: the  *)
(* mirror that tails the agent's transcript (baton/transcript-mirror.ts)   *)
(* and the handler that shows its turns live and stores snapshots          *)
(* (baton/wire-baton.ts).  The controller publishes as BatonController     *)
(* does when no call of it is abandoned; the agents, which write the       *)
(* transcripts, are processes of their own.                                *)
(* A watch that cannot be set up, or breaks, leaves the mirror attached    *)
(* and deaf.  Not modelled: that one which fails as the controller starts  *)
(* a mirror makes the transition fail too, a transcript that gets shorter, *)
(* the POSTs of the state, the welcome message, and the end of the         *)
(* session.                                                                *)
(***************************************************************************)
EXTENDS Naturals, Sequences, SequencesExt, FiniteSets

CONSTANTS
  Convs, NoConv,
  MaxTurns,     \* bound: turns of a conversation
  MaxMirrors,   \* bound: mirrors, one for each time the TUI gets a conversation
  MaxHandoffs   \* bound: hand-offs, to the phone and back

VARIABLES
  state, conv,  \* _state and _conversationId of the controller
  up, at,       \* the driver that runs, and the conversation it is in
  seen,         \* what the TUI's switch watcher reported last; NoConv: there is none
  disk, turns,  \* the conversations with a transcript; the turns in it
  m,            \* the mirror of the moment, and its handler
  changed,      \* its watch has a callback to run
  chain,        \* publishChain of each mirror's handler
  live,         \* turns the phone has been shown as they happened
  snaps,        \* pushConversation() POSTs in flight
  handoffs,
  (* history *)
  overlooked,   \* a turn was written as nobody watched, or could not be read
  unread        \* the transcript a mirror started with could not be read

ctl == <<state, conv, handoffs>>
agents == <<up, at, disk, turns>>
mirror == <<m, changed, chain, snaps, overlooked, unread>>
vars == <<ctl, agents, seen, mirror, live>>

Mirrors == 1..MaxMirrors
Turns == Convs \X (1..MaxTurns)
States == {"LOCAL_DRIVE", "SWITCHING", "MOBILE_DRIVE"}

NoMirror == [id |-> 0, conv |-> NoConv, emitted |-> 0, att |-> "no", poll |-> FALSE,
             stopped |-> TRUE]

TypeOK ==
  /\ state \in States /\ conv \in Convs \cup {NoConv} /\ up \in {"tui", "acp"} /\ at \in Convs
  /\ seen \in Convs \cup {NoConv}
  /\ disk \subseteq Convs /\ turns \in [Convs -> 0..MaxTurns]
  /\ m \in [id : 0..MaxMirrors, conv : Convs \cup {NoConv}, emitted : 0..MaxTurns,
            att : {"no", "read", "watching", "deaf"}, poll : BOOLEAN, stopped : BOOLEAN]
  /\ changed \in BOOLEAN /\ chain \in [Mirrors -> Seq(Turns)] /\ live \subseteq Turns
  /\ snaps \subseteq [id : Mirrors, conv : Convs, n : 1..MaxTurns]
  /\ handoffs \in 0..MaxHandoffs /\ overlooked \in BOOLEAN /\ unread \in BOOLEAN

(* begin() has spawned the TUI, whose conversation is known at once (and may have
   an empty transcript already) or will be discovered from its transcript. *)
Init ==
  /\ state = "LOCAL_DRIVE" /\ up = "tui" /\ at \in Convs
  /\ conv \in {at, NoConv} /\ seen \in {conv, NoConv}
  /\ disk \in SUBSET {at} /\ (conv = NoConv => disk = {})
  /\ turns = [c \in Convs |-> 0]
  /\ m = IF conv = NoConv THEN NoMirror
         ELSE [NoMirror EXCEPT !.id = 1, !.conv = conv, !.stopped = FALSE, !.poll = (disk = {}),
                               !.att = IF disk = {} THEN "no" ELSE "read"]
  /\ changed = FALSE /\ chain = [k \in Mirrors |-> <<>>] /\ live = {}
  /\ snaps = {} /\ handoffs = 0 /\ overlooked = FALSE /\ unread = FALSE

-----------------------------------------------------------------------------
(* emit(): what the transcript has beyond what was emitted goes to the handler,
   which stores the whole conversation and shows the new turns, unless they are
   what the mirror found when it started. *)
Emits(mm, preexisting) ==
  LET n == turns[mm.conv]
      new == [j \in 1..(n - mm.emitted) |-> <<mm.conv, mm.emitted + j>>]
  IN IF n <= mm.emitted THEN m' = mm /\ UNCHANGED <<chain, snaps>>
     ELSE /\ m' = [mm EXCEPT !.emitted = n]
          /\ snaps' = snaps \cup {[id |-> mm.id, conv |-> mm.conv, n |-> n]}
          /\ chain' = IF preexisting THEN chain ELSE [chain EXCEPT ![mm.id] = @ \o new]

ReadFails(mm) == m' = mm /\ UNCHANGED <<chain, snaps>>
Behind(mm) == mm.emitted < turns[mm.conv]

(* tryAttach() of a mirror that has none: emit what is there; watching comes next. *)
Attaches(mm, preexisting) ==
  LET reading == [mm EXCEPT !.att = "read"] IN
  /\ mm.conv \in disk
  /\ \/ Emits(reading, preexisting) /\ overlooked' = FALSE /\ UNCHANGED unread
     \/ /\ ReadFails(reading) /\ Behind(mm)
        /\ overlooked' = TRUE /\ unread' = (unread \/ preexisting)

(* The CLI does nothing else between the read and the watch. *)
Free == m.att # "read" \/ m.stopped

(* startMirror(c): the previous one is stopped, the new one attaches or polls. *)
AtStart(c) == c \in disk

StartMirror(c) ==
  LET new == [NoMirror EXCEPT !.id = m.id + 1, !.conv = c, !.stopped = FALSE] IN
  /\ m.id < MaxMirrors /\ changed' = FALSE
  /\ IF c \in disk THEN Attaches(new, AtStart(c))
     ELSE /\ m' = [new EXCEPT !.poll = TRUE] /\ overlooked' = FALSE
          /\ UNCHANGED <<chain, snaps, unread>>

StopMirror ==
  /\ m' = [m EXCEPT !.stopped = TRUE, !.poll = FALSE,
                    !.att = IF @ = "watching" THEN "deaf" ELSE @]
  /\ changed' = FALSE
  /\ UNCHANGED <<chain, snaps, overlooked, unread>>

(* The poll of the first ten minutes, and the poke of each heartbeat. *)
PollTick ==
  /\ Free /\ m.poll /\ UNCHANGED changed
  /\ \/ m.att = "no" /\ Attaches([m EXCEPT !.poll = FALSE], FALSE)
     \/ /\ m.att # "no" \/ m.conv \notin disk
        /\ m' = [m EXCEPT !.poll = FALSE] /\ UNCHANGED <<chain, snaps, overlooked, unread>>
  /\ UNCHANGED <<ctl, agents, seen, live>>

PokesAny(mm) == mm.id # 0                        \* fault: stop() is not the end
PokesPolling(mm) == ~mm.stopped /\ mm.poll       \* fault: the wait is over for good
MayPoke(mm) == ~mm.stopped

Poke ==
  /\ Free /\ MayPoke(m) /\ m.att = "no" /\ Attaches(m, FALSE) /\ UNCHANGED changed
  /\ UNCHANGED <<ctl, agents, seen, live>>

WatchBegins ==
  /\ m.att = "read" /\ m' = [m EXCEPT !.att = "watching"]
  /\ UNCHANGED <<ctl, agents, seen, changed, chain, snaps, overlooked, unread, live>>

(* fs.watch throws, after `attached` is set, or its watcher breaks: nothing tries
   again, and the process guards keep the CLI alive. *)
WatchFails ==
  /\ ~m.stopped /\ m.att \in {"read", "watching"} /\ m' = [m EXCEPT !.att = "deaf"]
  /\ changed' = FALSE /\ overlooked' = (overlooked \/ changed)
  /\ UNCHANGED <<ctl, agents, seen, chain, snaps, unread, live>>

OnChange ==
  /\ Free /\ changed /\ changed' = FALSE
  /\ \/ Emits(m, FALSE) /\ overlooked' = FALSE
     \/ ReadFails(m) /\ Behind(m) /\ overlooked' = TRUE
  /\ UNCHANGED <<ctl, agents, seen, unread, live>>

-----------------------------------------------------------------------------
(* The handler's POSTs: turns one after the other, snapshots side by side. *)
ShowNext(k) ==
  /\ chain[k] # <<>> /\ chain' = [chain EXCEPT ![k] = Tail(@)]
  /\ live' \in {live, live \cup {Head(chain[k])}}
  /\ UNCHANGED <<ctl, agents, seen, m, changed, snaps, overlooked, unread>>

SnapshotEnds(s) ==
  /\ s \in snaps /\ snaps' = snaps \ {s}
  /\ UNCHANGED <<ctl, agents, seen, m, changed, chain, overlooked, unread, live>>

-----------------------------------------------------------------------------
(* publishState: the mirror is armed or stopped. *)
Publish(s, c) ==
  /\ state' = s /\ conv' = c
  /\ IF s = "LOCAL_DRIVE" /\ c # NoConv THEN StartMirror(c)
     ELSE IF s # "LOCAL_DRIVE" THEN StopMirror ELSE UNCHANGED mirror
  /\ UNCHANGED live

(* The agent ends a turn.  An ACP turn has been shown while it went on. *)
TurnEnds ==
  LET n == turns[at] + 1
      tailed == m.conv = at /\ ~m.stopped IN
  /\ n <= MaxTurns /\ turns' = [turns EXCEPT ![at] = n] /\ disk' = disk \cup {at}
  /\ changed' = (changed \/ (tailed /\ m.att = "watching"))
  /\ overlooked' = (overlooked \/ (tailed /\ m.att \in {"read", "deaf"}))
  /\ live' = IF up = "acp" THEN live \cup {<<at, n>>} ELSE live
  /\ UNCHANGED <<ctl, up, at, seen, m, chain, snaps, unread>>

(* /clear, or /resume; and what the switch watcher makes of it. *)
TuiSwitches(c) ==
  /\ up = "tui" /\ c # at /\ at' = c /\ disk' = disk \cup {c}
  /\ UNCHANGED <<ctl, up, seen, turns, mirror, live>>

SwitchConversation ==
  /\ Free /\ up = "tui" /\ seen \notin {at, NoConv} /\ seen' = at
  /\ IF state = "LOCAL_DRIVE" /\ conv # at THEN Publish("LOCAL_DRIVE", at)
     ELSE UNCHANGED <<state, conv, mirror, live>>
  /\ UNCHANGED <<agents, handoffs>>

(* Discovery found the transcript of the first turn. *)
RebindConversation ==
  /\ Free /\ state = "LOCAL_DRIVE" /\ conv = NoConv /\ at \in disk
  /\ Publish("LOCAL_DRIVE", at)
  /\ UNCHANGED <<agents, seen, handoffs>>

-----------------------------------------------------------------------------
(* A hand-off: the driver goes on until it yields, then the other one runs, on the
   conversation of the controller or, if that has no turns, on a new one. *)
Yields ==
  /\ Free /\ state # "SWITCHING" /\ handoffs < MaxHandoffs /\ handoffs' = handoffs + 1
  /\ Publish("SWITCHING", conv) /\ UNCHANGED <<agents, seen>>

Resumes(c) == IF conv \in disk THEN c = conv ELSE c \notin disk \cup {conv, at}

ToMobile ==
  /\ state = "SWITCHING" /\ up = "tui" /\ up' = "acp"
  /\ \E c \in Convs : Resumes(c) /\ at' = c /\ Publish("MOBILE_DRIVE", c)
  /\ UNCHANGED <<disk, turns, seen, handoffs>>

(* The TUI resumes c; an agent may have no switch watcher. *)
TuiIn(c) == at' = c /\ seen' \in {c, NoConv}

ToLocal ==
  /\ state = "SWITCHING" /\ up = "acp" /\ up' = "tui"
  /\ TuiIn(conv) /\ Publish("LOCAL_DRIVE", conv)
  /\ UNCHANGED <<disk, turns, handoffs>>

(* It fails, and the driver that has not stopped goes on, or is started again, as a
   TUI without an id in a conversation whose id comes late if not at once. *)
TuiRevived ==
  /\ up = "tui"
  /\ \/ conv # NoConv /\ TuiIn(conv) /\ Publish("LOCAL_DRIVE", conv)
     \/ \E c \in Convs \ (disk \cup {at}) :
          /\ conv = NoConv /\ at' = c /\ seen' = NoConv
          /\ \E id \in {c, NoConv} : Publish("LOCAL_DRIVE", id)

AcpRevived ==
  /\ up = "acp" /\ UNCHANGED seen
  /\ \E c \in Convs : Resumes(c) /\ at' = c /\ Publish("MOBILE_DRIVE", c)

Reverts ==
  /\ state = "SWITCHING" /\ UNCHANGED <<up, disk, turns, handoffs>>
  /\ \/ /\ Publish(IF up = "tui" THEN "LOCAL_DRIVE" ELSE "MOBILE_DRIVE", conv)
        /\ UNCHANGED <<at, seen>>
     \/ TuiRevived \/ AcpRevived

Next ==
  \/ PollTick \/ Poke \/ WatchBegins \/ WatchFails \/ OnChange
  \/ (\E k \in Mirrors : ShowNext(k)) \/ (\E s \in snaps : SnapshotEnds(s))
  \/ TurnEnds \/ (\E c \in Convs : TuiSwitches(c)) \/ SwitchConversation \/ RebindConversation
  \/ Yields \/ ToMobile \/ ToLocal \/ Reverts

(* Heartbeats go on and callbacks run. *)
Spec ==
  /\ Init /\ [][Next]_vars
  /\ WF_vars(Poke) /\ WF_vars(WatchBegins) /\ WF_vars(OnChange)

-----------------------------------------------------------------------------
(* Turns on their way to the phone. *)
Pending(k) == ToSet(chain[k])

(* No turn is shown live twice, by two mirrors or by a mirror and the adapter: a
   stopped mirror stays stopped, and what a mirror found when it started is history,
   as long as it could be read then. *)
ShownOnce ==
  unread \/ \A k \in Mirrors :
    /\ Pending(k) \cap live = {} /\ Cardinality(Pending(k)) = Len(chain[k])
    /\ \A l \in Mirrors \ {k} : Pending(k) \cap Pending(l) = {}

(* What is written in the conversation of the mirror is read, whenever its
   transcript appears, unless it was written between the first read and the watch
   or could not be read, when the next turn brings it, or the watch failed. *)
EveryTurnIsRead ==
  \A c \in Convs, n \in 1..MaxTurns :
    ~m.stopped /\ m.conv = c /\ turns[c] >= n
      ~> m.stopped \/ m.conv # c \/ m.emitted >= n \/ overlooked

(* "ONLY LIVE CONTENT MAY BE LIVE-PUBLISHED": a mirror that could not read the
   transcript when it started shows all of it with the next turn. *)
HistoryStaysSilent ==
  \A k \in Mirrors : Pending(k) \cap live = {}

(* "its first turn arrives flagged live": an agent whose conversation is discovered
   from its transcript has its first turn read as history. *)
FirstTurnIsLive ==
  m.id = 1 /\ ~m.stopped /\ m.emitted > 0 => <<m.conv, 1>> \in live \cup Pending(1)

(* "so reconnect/cold-open always reflects the complete conversation": two snapshots
   of one conversation may be on their way, and the older one replace the newer. *)
SnapshotsOneByOne == \A s, t \in snaps : s.conv = t.conv => s = t

(* "can't interleave their HTTP posts out of order": each mirror has a chain of its
   own, and the next one does not wait for it. *)
LiveInOrder ==
  [][\A t \in live' \ live : \A k \in Mirrors :
       \A u \in Pending(k) : u[1] = t[1] => u[2] >= t[2]]_vars
=============================================================================
