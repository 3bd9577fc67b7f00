----------------------------- MODULE Relay_proof -----------------------------
(***************************************************************************)
(* Proofs about what links a session to the backend, for any number of     *)
(* requests, beats, posts, conversations, turns, mirrors and hand-offs:    *)
(* the command channel (RelayChannel), what the backend is told            *)
(* (RelayPresence) and the mirror of the terminal's transcript             *)
(* (TranscriptMirror).                                                     *)
(***************************************************************************)
EXTENDS Relay, Sequences, SequenceTheorems, FiniteSetTheorems, TLAPS

-----------------------------------------------------------------------------
(* The channel.  While a request is on its way or open it is the only way; without
   one there is a timer, or a poll loop, but not both. *)
OneWay ==
  streaming /\ ~doubled =>
    /\ Channel!Talking = {} \/ (Channel!Talking = {current} /\ timer = 0 /\ loops = 0)
    /\ (timer = 0 /\ loops <= 1) \/ loops = 0
    /\ \A i \in Conns : conn[i] = "open" => watchdog

(* A request whose failure has been acted upon without falling back to the api host
   will not fall back when it reports it again. *)
ResetHasCounted ==
  streaming => \A i \in Conns : conn[i] = "reset" => fellBack \/ i \in delivered

(* A poll loop past its first round is one of the loops. *)
PollingIsCounted == streaming /\ pollTimer => loops # 0

ChannelInv ==
  /\ Channel!TypeOK /\ Channel!AlwaysAWayBack
  /\ PollingIsCounted /\ ResetHasCounted /\ OneWay

Places == {"free", "connecting", "open", "refused", "reset"}

LEMMA ChannelInit == Channel!Init => ChannelInv
<1> SUFFICES ASSUME Channel!Init PROVE ChannelInv
  OBVIOUS
<1> USE DEF Channel!Init
<1>1. current \in Conns /\ conn = [i \in Conns |-> IF i = current THEN "connecting" ELSE "free"]
  OBVIOUS
<1>2. Channel!Talking = {current} /\ \A i \in Conns : conn[i] \in {"connecting", "free"}
  BY <1>1 DEF Channel!Talking
<1>3. Channel!TypeOK
  <2>1. onStream \in SUBSET Conns /\ current \in Conns \cup {NoConn}
    BY <1>1
  <2>2. conn \in [Conns -> {"free", "connecting", "open", "refused", "reset"}]
    BY <1>1
  <2>3. /\ streaming \in BOOLEAN /\ watchdog \in BOOLEAN /\ fellBack \in BOOLEAN
        /\ pollTimer \in BOOLEAN /\ refused \in BOOLEAN /\ heard \in BOOLEAN /\ doubled \in BOOLEAN
    BY Zenon
  <2>4. failures \in 0..2 /\ timer \in 0..1 /\ loops \in 0..2 /\ delivered \in SUBSET Conns
    OBVIOUS
  <2>5. QED
    BY <2>1, <2>2, <2>3, <2>4 DEF Channel!TypeOK
<1>4. QED
  BY <1>2, <1>3 DEF ChannelInv, Channel!AlwaysAWayBack, PollingIsCounted, ResetHasCounted, OneWay

(* connectSSE leaves a request on its way beside those that f has. *)
LEMMA Connects ==
  ASSUME streaming, NEW f \in [Conns -> Places], Channel!ConnectSSE(f)
  PROVE  /\ current' \in Conns /\ conn'[current'] = "connecting" /\ f[current'] = "free"
         /\ \A i \in Conns \ {current'} : conn'[i] = f[i] /\ (i \in delivered' <=> i \in delivered)
BY DEF Channel!ConnectSSE

LEMMA ConnectTypes ==
  ASSUME Channel!TypeOK, NEW f \in [Conns -> Places], Channel!ConnectSSE(f)
  PROVE  /\ conn' \in [Conns -> Places] /\ current' \in Conns \cup {NoConn}
         /\ onStream' \in SUBSET Conns /\ delivered' \in SUBSET Conns
BY DEF Channel!ConnectSSE, Channel!Stay, Channel!TypeOK, Places

(* A failure that counts leaves a way back, and no second one. *)
LEMMA StrikeWays ==
  ASSUME Channel!TypeOK, PollingIsCounted, Channel!Strike
  PROVE  /\ timer' \in 0..1 /\ failures' \in 0..2 /\ loops' \in 0..2
         /\ streaming => timer' # 0 \/ loops' # 0
         /\ timer = 0 /\ loops = 0 => (timer' = 0 /\ loops' <= 1) \/ loops' = 0
         /\ loops # 0 => loops' # 0
         /\ fellBack' = fellBack
BY DEF Channel!TypeOK, PollingIsCounted, Channel!Strike, Channel!Strikes, Channel!PollLoops,
   Channel!Armed

Ways == Channel!AlwaysAWayBack /\ PollingIsCounted /\ ResetHasCounted /\ OneWay

(* The request i is over, for the relay, and the next one goes to the api host. *)
LEMMA WayByApi ==
  ASSUME ChannelInv, streaming, UNCHANGED <<streaming, pollTimer>>,
         NEW i \in Conns, NEW x \in Places \ {"connecting", "open"},
         Channel!FallBackToApiHost([conn EXCEPT ![i] = x]),
         ~doubled' => ~doubled /\ i \in Channel!Talking
  PROVE  Ways'
<1> DEFINE f == [conn EXCEPT ![i] = x]
<1>1. f \in [Conns -> Places] /\ f[i] = x /\ \A j \in Conns \ {i} : f[j] = conn[j]
  BY DEF ChannelInv, Channel!TypeOK, Places
<1>2. Channel!ConnectSSE(f) /\ fellBack' = TRUE /\ UNCHANGED <<timer, loops>>
  BY DEF Channel!FallBackToApiHost
<1> HIDE DEF f
<1>3. /\ current' \in Conns /\ conn'[current'] = "connecting" /\ f[current'] = "free"
      /\ \A j \in Conns \ {current'} : conn'[j] = f[j]
  BY <1>1, <1>2, Connects
<1>4. Channel!AlwaysAWayBack'
  BY <1>3 DEF Channel!AlwaysAWayBack, Channel!Talking
<1>5. PollingIsCounted' /\ ResetHasCounted'
  BY <1>2 DEF PollingIsCounted, ResetHasCounted, ChannelInv
<1>6. ASSUME ~doubled' PROVE OneWay'
  <2>1. Channel!Talking = {i} /\ timer = 0 /\ loops = 0
    BY <1>6 DEF ChannelInv, OneWay
  <2>2. \A j \in Conns \ {i} : conn[j] \notin {"connecting", "open"}
    BY <2>1 DEF Channel!Talking
  <2>3. \A j \in Conns \ {current'} : conn'[j] \notin {"connecting", "open"}
    BY <1>1, <1>3, <2>2
  <2>4. Channel!Talking' = {current'} /\ \A j \in Conns : conn'[j] # "open"
    BY <1>3, <2>3 DEF Channel!Talking
  <2>5. QED
    BY <1>2, <2>1, <2>4 DEF OneWay
<1>7. QED
  BY <1>4, <1>5, <1>6 DEF Ways, OneWay

(* It is over, and what comes next is a timer or a poll loop. *)
LEMMA WayByStrike ==
  ASSUME ChannelInv, streaming, UNCHANGED <<streaming, pollTimer, delivered>>,
         NEW i \in Conns, NEW x \in Places \ {"connecting", "open"},
         conn' = [conn EXCEPT ![i] = x], fellBack' = fellBack,
         x = "reset" => fellBack \/ i \in delivered,
         timer' # 0 \/ loops' # 0, loops # 0 => loops' # 0,
         ~doubled' => /\ ~doubled
                      /\ i \in Channel!Talking \/ (conn[i] = "reset" /\ timer # 0 /\ UNCHANGED loops)
                      /\ timer = 0 /\ loops = 0 => (timer' = 0 /\ loops' <= 1) \/ loops' = 0
  PROVE  Ways'
<1>1. conn'[i] = x /\ \A j \in Conns \ {i} : conn'[j] = conn[j]
  BY DEF ChannelInv, Channel!TypeOK
<1>2. Channel!AlwaysAWayBack' /\ PollingIsCounted'
  BY DEF Channel!AlwaysAWayBack, PollingIsCounted, ChannelInv
<1>3. ResetHasCounted'
  BY <1>1 DEF ResetHasCounted, ChannelInv
<1>4. ASSUME ~doubled' PROVE OneWay'
  <2>1. /\ Channel!Talking = {} \/ (Channel!Talking = {i} /\ timer = 0 /\ loops = 0)
        /\ (timer = 0 /\ loops <= 1) \/ loops = 0
    BY <1>4 DEF ChannelInv, OneWay
  <2>2. \A j \in Conns : conn'[j] \notin {"connecting", "open"}
    BY <1>1, <2>1 DEF Channel!Talking
  <2>3. Channel!Talking' = {} /\ \A j \in Conns : conn'[j] # "open"
    BY <2>2 DEF Channel!Talking
  <2>4. (timer' = 0 /\ loops' <= 1) \/ loops' = 0
    BY <1>4, <2>1 DEF Channel!Talking
  <2>5. QED
    BY <2>3, <2>4 DEF OneWay
<1>5. QED
  BY <1>2, <1>3, <1>4 DEF Ways, OneWay

LEMMA ChannelTypes == ChannelInv /\ Channel!Next => Channel!TypeOK'
<1> SUFFICES ASSUME Channel!TypeOK, PollingIsCounted, Channel!Next PROVE Channel!TypeOK'
  BY DEF ChannelInv
<1> USE DEF Channel!ladder
<1>t. /\ conn \in [Conns -> Places] /\ onStream \in SUBSET Conns /\ delivered \in SUBSET Conns
      /\ current \in Conns \cup {NoConn}
  BY DEF Channel!TypeOK, Places
<1>s. ASSUME NEW f \in [Conns -> Places], Channel!Stay(f)
      PROVE  /\ conn' \in [Conns -> Places] /\ current' \in Conns \cup {NoConn}
             /\ onStream' \in SUBSET Conns /\ delivered' \in SUBSET Conns
  BY <1>s, <1>t DEF Channel!Stay
<1>c. ASSUME NEW f \in [Conns -> Places],
             \/ Channel!FallBackToApiHost(f) \/ (Channel!Strike /\ Channel!Stay(f))
             \/ Channel!Stay(f) /\ Channel!ScheduleSseReconnect
             \/ Channel!Stay(f) /\ UNCHANGED Channel!ladder,
             UNCHANGED <<streaming, pollTimer>>, watchdog' \in BOOLEAN,
             refused' \in BOOLEAN, heard' \in BOOLEAN, doubled' \in BOOLEAN
      PROVE  Channel!TypeOK'
  <2>1. /\ conn' \in [Conns -> Places] /\ current' \in Conns \cup {NoConn}
        /\ onStream' \in SUBSET Conns /\ delivered' \in SUBSET Conns
    BY <1>c, <1>s, ConnectTypes DEF Channel!FallBackToApiHost
  <2>2. fellBack' \in BOOLEAN /\ failures' \in 0..2 /\ timer' \in 0..1 /\ loops' \in 0..2
    <3>1. CASE Channel!FallBackToApiHost(f)
      BY <3>1 DEF Channel!FallBackToApiHost, Channel!TypeOK
    <3>2. CASE Channel!Strike
      BY <3>2, StrikeWays DEF Channel!TypeOK
    <3>3. CASE Channel!ScheduleSseReconnect
      BY <3>3 DEF Channel!ScheduleSseReconnect, Channel!Armed, Channel!TypeOK
    <3>4. CASE UNCHANGED Channel!ladder
      BY <3>4 DEF Channel!TypeOK
    <3>5. QED
      BY <1>c, <3>1, <3>2, <3>3, <3>4
  <2>3. QED
    BY <1>c, <2>1, <2>2 DEF Channel!TypeOK, Places
<1>1. ASSUME NEW i \in Conns, Channel!Answers(i) PROVE Channel!TypeOK'
  <2>1. [conn EXCEPT ![i] = "open"] \in [Conns -> Places]
    BY <1>t DEF Places
  <2>2. /\ conn' \in [Conns -> Places] /\ current' \in Conns \cup {NoConn}
        /\ onStream' \in SUBSET Conns /\ delivered' \in SUBSET Conns
    BY <1>1, <1>s, <2>1 DEF Channel!Answers
  <2>3. failures' \in 0..2 /\ watchdog' \in BOOLEAN
    BY <1>1 DEF Channel!Answers
  <2>4. QED
    BY <1>1, <2>2, <2>3 DEF Channel!Answers, Channel!TypeOK, Places
<1>2. ASSUME NEW i \in Conns, NEW why \in {"4xx", "5xx"}, Channel!Refuses(i, why)
      PROVE  Channel!TypeOK'
  <2>1. [conn EXCEPT ![i] = "refused"] \in [Conns -> Places]
    BY <1>t DEF Places
  <2>2. QED
    BY <1>2, <1>c, <2>1 DEF Channel!Refuses, Channel!MovesOn, Channel!TypeOK
<1>3. ASSUME NEW i \in Conns, Channel!RefusalEnds(i) PROVE Channel!TypeOK'
  <2>1. [conn EXCEPT ![i] = "free"] \in [Conns -> Places]
    BY <1>t DEF Places
  <2>2. QED
    BY <1>3, <1>c, <2>1 DEF Channel!RefusalEnds, Channel!TypeOK
<1>4. ASSUME NEW i \in Conns, Channel!Brings(i) PROVE Channel!TypeOK'
  BY <1>4 DEF Channel!Brings, Channel!TypeOK
<1>5. ASSUME NEW i \in Conns, Channel!Ends(i) PROVE Channel!TypeOK'
  <2>1. [conn EXCEPT ![i] = "free"] \in [Conns -> Places]
    BY <1>t DEF Places
  <2>2. QED
    BY <1>5, <1>c, <2>1 DEF Channel!Ends, Channel!TypeOK
<1>6. ASSUME NEW i \in Conns, Channel!RequestFails(i) PROVE Channel!TypeOK'
  <2>1. [conn EXCEPT ![i] = IF @ = "open" THEN "reset" ELSE "free"] \in [Conns -> Places]
    BY <1>t DEF Places
  <2>2. QED
    BY <1>6, <1>c, <2>1 DEF Channel!RequestFails, Channel!TypeOK
<1>7. ASSUME NEW i \in Conns, Channel!ResponseFails(i) PROVE Channel!TypeOK'
  <2>1. [conn EXCEPT ![i] = "free"] \in [Conns -> Places]
    BY <1>t DEF Places
  <2>2. QED
    BY <1>7, <1>c, <2>1 DEF Channel!ResponseFails, Channel!Reconnects, Channel!TypeOK
<1>8. CASE Channel!TimerFires
  <2>1. /\ conn' \in [Conns -> Places] /\ current' \in Conns \cup {NoConn}
        /\ onStream' \in SUBSET Conns /\ delivered' \in SUBSET Conns
    BY <1>8, <1>t, ConnectTypes DEF Channel!TimerFires
  <2>2. QED
    BY <1>8, <2>1 DEF Channel!TimerFires, Channel!TypeOK, Places
<1>9. CASE Channel!FirstRoundEnds
  BY <1>9 DEF Channel!FirstRoundEnds, Channel!TypeOK
<1>10. CASE Channel!Stop
  <2>1. streaming' \in BOOLEAN /\ watchdog' \in BOOLEAN /\ pollTimer' \in BOOLEAN
    BY <1>10 DEF Channel!Stop
  <2>2. timer' \in 0..1 /\ loops' \in 0..2
    BY <1>10 DEF Channel!Stop
  <2>3. QED
    BY <1>10, <2>1, <2>2 DEF Channel!Stop, Channel!TypeOK
<1>11. QED
  BY <1>1, <1>2, <1>3, <1>4, <1>5, <1>6, <1>7, <1>8, <1>9, <1>10 DEF Channel!Next, Channel!Request

LEMMA WaysKept == ChannelInv /\ Channel!Next => Ways'
<1> SUFFICES ASSUME ChannelInv, Channel!Next PROVE Ways'
  OBVIOUS
<1> USE DEF Channel!ladder
<1>t. Channel!TypeOK /\ conn \in [Conns -> Places]
  BY DEF ChannelInv, Channel!TypeOK, Places
<1>w. Channel!AlwaysAWayBack /\ PollingIsCounted /\ ResetHasCounted /\ OneWay
  BY DEF ChannelInv
<1>0. ASSUME ~streaming' PROVE Ways'
  BY <1>0 DEF Ways, Channel!AlwaysAWayBack, PollingIsCounted, ResetHasCounted, OneWay
(* Nothing but where a request is changes, and it talks no less and no more. *)
<1>q. ASSUME NEW i \in Conns, NEW x \in Places \ {"reset"}, Channel!Stay([conn EXCEPT ![i] = x]),
             conn[i] \in {"connecting", "open"} <=> x \in {"connecting", "open"},
             x = "open" => watchdog', UNCHANGED <<streaming, timer, loops, pollTimer, fellBack, doubled>>,
             watchdog => watchdog'
      PROVE  Ways'
  <2>1. conn'[i] = x /\ \A j \in Conns \ {i} : conn'[j] = conn[j]
    BY <1>q, <1>t DEF Channel!Stay
  <2>2. Channel!Talking' = Channel!Talking
    BY <1>q, <2>1 DEF Channel!Talking
  <2>3. QED
    BY <1>q, <1>w, <2>1, <2>2
    DEF Channel!Stay, Ways, Channel!AlwaysAWayBack, PollingIsCounted, ResetHasCounted, OneWay
<1>1. ASSUME NEW i \in Conns, Channel!Answers(i) PROVE Ways'
  <2>1. "open" \in Places \ {"reset"} /\ Channel!Stay([conn EXCEPT ![i] = "open"])
    BY <1>1 DEF Channel!Answers, Places
  <2>2. QED
    BY <1>1, <1>q, <2>1 DEF Channel!Answers
<1>2. ASSUME NEW i \in Conns, NEW why \in {"4xx", "5xx"}, Channel!Refuses(i, why), streaming'
      PROVE  Ways'
  <2>1. /\ streaming /\ UNCHANGED <<streaming, pollTimer, doubled>> /\ i \in Channel!Talking
        /\ "refused" \in Places \ {"connecting", "open"}
    BY <1>2, <1>t DEF Channel!Refuses, Channel!Talking, Places
  <2>2. CASE Channel!FallBackToApiHost([conn EXCEPT ![i] = "refused"])
    BY <2>1, <2>2, WayByApi
  <2>3. CASE Channel!Strike /\ Channel!Stay([conn EXCEPT ![i] = "refused"])
    BY <1>t, <1>w, <2>1, <2>3, StrikeWays, WayByStrike DEF Channel!Stay
  <2>4. QED
    BY <1>2, <2>2, <2>3 DEF Channel!Refuses, Channel!MovesOn
<1>3. ASSUME NEW i \in Conns, Channel!RefusalEnds(i) PROVE Ways'
  <2>1. "free" \in Places \ {"reset"} /\ Channel!Stay([conn EXCEPT ![i] = "free"])
    BY <1>3 DEF Channel!RefusalEnds, Places
  <2>2. QED
    BY <1>3, <1>q, <2>1 DEF Channel!RefusalEnds
<1>4. ASSUME NEW i \in Conns, Channel!Brings(i) PROVE Ways'
  BY <1>4, <1>w DEF Channel!Brings, Ways, Channel!AlwaysAWayBack, PollingIsCounted, ResetHasCounted,
     OneWay, Channel!Talking
<1>5. ASSUME NEW i \in Conns, Channel!Ends(i), streaming' PROVE Ways'
  <2>1. /\ streaming /\ UNCHANGED <<streaming, pollTimer, doubled, delivered, fellBack, loops>>
        /\ i \in Channel!Talking /\ conn' = [conn EXCEPT ![i] = "free"] /\ timer' = 1
        /\ "free" \in Places \ {"connecting", "open"}
    BY <1>5 DEF Channel!Ends, Channel!Stay, Channel!ScheduleSseReconnect, Channel!Armed,
       Channel!Talking, Places
  <2>2. timer' # 0
    BY <2>1
  <2>3. loops' = 0 \/ loops # 0
    BY <2>1
  <2>4. QED
    BY <2>1, <2>2, <2>3, WayByStrike
<1>6. ASSUME NEW i \in Conns, Channel!RequestFails(i), streaming' PROVE Ways'
  <2> DEFINE x == IF conn[i] = "open" THEN "reset" ELSE "free"
  <2>0. x \in Places \ {"connecting", "open"}
    BY DEF Places
  <2>1. /\ streaming /\ UNCHANGED <<streaming, pollTimer>>
        /\ ~doubled' => ~doubled /\ i \in Channel!Talking
    BY <1>6, <1>t DEF Channel!RequestFails, Channel!Talking
  <2>2. [conn EXCEPT ![i] = IF @ = "open" THEN "reset" ELSE "free"] = [conn EXCEPT ![i] = x]
    BY <1>t
  <2>3. CASE Channel!FallsBack(i, "network")
    <3>1. Channel!FallBackToApiHost([conn EXCEPT ![i] = x])
      BY <1>6, <2>1, <2>2, <2>3 DEF Channel!RequestFails
    <3>2. QED
      BY <2>0, <2>1, <3>1, WayByApi
  <2>4. CASE ~Channel!FallsBack(i, "network")
    <3>1. Channel!Strike /\ conn' = [conn EXCEPT ![i] = x] /\ UNCHANGED delivered
      BY <1>6, <2>1, <2>2, <2>4 DEF Channel!RequestFails, Channel!Stay
    <3>2. fellBack \/ i \in delivered
      BY <2>4 DEF Channel!FallsBack
    <3>3. QED
      BY <1>t, <1>w, <2>0, <2>1, <3>1, <3>2, StrikeWays, WayByStrike
  <2>5. QED
    BY <2>3, <2>4
<1>7. ASSUME NEW i \in Conns, Channel!ResponseFails(i), streaming' PROVE Ways'
  <2>1. /\ streaming /\ UNCHANGED <<streaming, pollTimer>> /\ "free" \in Places \ {"connecting", "open"}
        /\ ~doubled' => ~doubled /\ (i \in Channel!Talking \/ (conn[i] = "reset" /\ timer # 0))
    BY <1>7, <1>t DEF Channel!ResponseFails, Channel!Talking, Places
  <2>2. CASE Channel!FallsBack(i, "network")
    <3>1. Channel!FallBackToApiHost([conn EXCEPT ![i] = "free"])
      BY <1>7, <2>1, <2>2 DEF Channel!ResponseFails
    <3>2. conn[i] # "reset"
      BY <1>w, <2>1, <2>2 DEF ResetHasCounted, Channel!FallsBack
    <3>3. QED
      BY <2>1, <3>1, <3>2, WayByApi
  <2>3. CASE ~Channel!FallsBack(i, "network")
    <3>1. /\ conn' = [conn EXCEPT ![i] = "free"] /\ timer' = 1
          /\ UNCHANGED <<delivered, fellBack, loops>>
      BY <1>7, <2>1, <2>3 DEF Channel!ResponseFails, Channel!Stay, Channel!Reconnects,
         Channel!ScheduleSseReconnect, Channel!Armed
    <3>2. timer' # 0 /\ (loops' = 0 \/ loops # 0)
      BY <3>1
    <3>3. QED
      BY <2>1, <3>1, <3>2, WayByStrike
  <2>4. QED
    BY <2>2, <2>3
<1>8. ASSUME Channel!TimerFires, streaming' PROVE Ways'
  <2>1. /\ streaming /\ timer # 0 /\ timer' = 0
        /\ UNCHANGED <<streaming, pollTimer, doubled, fellBack, loops, watchdog>>
        /\ Channel!ConnectSSE(conn) /\ \A i \in Conns : conn[i] # "reset"
    <3>1. /\ UNCHANGED <<streaming, pollTimer, doubled, fellBack, loops, watchdog>>
          /\ Channel!ConnectSSE(conn) /\ \A i \in Conns : conn[i] # "reset"
      BY <1>8 DEF Channel!TimerFires
    <3>2. timer # 0 /\ timer' = 0
      BY <1>8, <1>t DEF Channel!TimerFires, Channel!TypeOK
    <3>3. QED
      BY <1>8, <3>1, <3>2
  <2>2. /\ current' \in Conns /\ conn'[current'] = "connecting"
        /\ \A i \in Conns \ {current'} : conn'[i] = conn[i]
    BY <1>t, <2>1, Connects
  <2>3. Channel!AlwaysAWayBack' /\ PollingIsCounted' /\ ResetHasCounted'
    BY <1>w, <2>1, <2>2 DEF Channel!AlwaysAWayBack, Channel!Talking, PollingIsCounted, ResetHasCounted
  <2>4. ASSUME ~doubled' PROVE OneWay'
    <3>1. loops = 0 /\ \A i \in Conns : conn[i] \notin {"connecting", "open"}
      BY <1>w, <2>1, <2>4 DEF OneWay, Channel!Talking
    <3>2. Channel!Talking' = {current'} /\ \A i \in Conns : conn'[i] # "open"
      BY <2>2, <3>1 DEF Channel!Talking
    <3>3. QED
      BY <2>1, <3>1, <3>2 DEF OneWay
  <2>5. QED
    BY <2>3, <2>4 DEF Ways, OneWay
<1>9. CASE Channel!FirstRoundEnds
  BY <1>9, <1>w DEF Channel!FirstRoundEnds, Ways, Channel!AlwaysAWayBack, PollingIsCounted,
     ResetHasCounted, OneWay, Channel!Talking
<1>10. CASE Channel!Stop
  BY <1>10, <1>0 DEF Channel!Stop
<1>11. QED
  BY <1>0, <1>1, <1>2, <1>3, <1>4, <1>5, <1>6, <1>7, <1>8, <1>9, <1>10
  DEF Channel!Next, Channel!Request

-----------------------------------------------------------------------------
(* The ladder.  As long as the process is on the stream host and the host has not
   refused it, only a stream that was open has failed, once, and no loop polls. *)
OnFirstRung ==
  /\ loops = 0 /\ ~doubled
  /\ \A i \in Conns :
       /\ conn[i] = "connecting" => i \in onStream /\ i \notin delivered
       /\ conn[i] # "refused"
       /\ conn[i] = "open" => failures = 0
       /\ conn[i] = "reset" => timer # 0

LadderInv ==
  /\ ~streaming => loops = 0
  /\ streaming => fellBack \/ refused \/ OnFirstRung

LEMMA LadderInit == Channel!Init => LadderInv
BY DEF Channel!Init, LadderInv, OnFirstRung

(* Only a stop changes whether it runs, and nothing leads back to the stream host. *)
LEMMA LadderGoesDown ==
  ASSUME Channel!Next
  PROVE  (Channel!Stop \/ UNCHANGED streaming) /\ (fellBack => fellBack')
<1> USE DEF Channel!ladder
<1>1. ASSUME NEW i \in Conns, Channel!Request(i)
      PROVE  UNCHANGED streaming /\ (fellBack => fellBack')
  <2>1. CASE Channel!Answers(i) \/ Channel!RefusalEnds(i) \/ Channel!Brings(i)
    BY <2>1 DEF Channel!Answers, Channel!RefusalEnds, Channel!Brings
  <2>2. CASE Channel!Ends(i)
    BY <2>2 DEF Channel!Ends, Channel!ScheduleSseReconnect
  <2>3. CASE \E why \in {"4xx", "5xx"} : Channel!Refuses(i, why)
    BY <2>3 DEF Channel!Refuses, Channel!MovesOn, Channel!FallBackToApiHost, Channel!Strike
  <2>4. CASE Channel!RequestFails(i)
    BY <2>4 DEF Channel!RequestFails, Channel!FallBackToApiHost, Channel!Strike
  <2>5. CASE Channel!ResponseFails(i)
    BY <2>5 DEF Channel!ResponseFails, Channel!FallBackToApiHost, Channel!Reconnects,
       Channel!ScheduleSseReconnect
  <2>6. QED
    BY <1>1, <2>1, <2>2, <2>3, <2>4, <2>5 DEF Channel!Request
<1>2. CASE Channel!TimerFires \/ Channel!FirstRoundEnds
  BY <1>2 DEF Channel!TimerFires, Channel!FirstRoundEnds
<1>3. CASE Channel!Stop
  BY <1>3 DEF Channel!Stop
<1>4. QED
  BY <1>1, <1>2, <1>3 DEF Channel!Next

LEMMA LadderStep == ChannelInv /\ LadderInv /\ Channel!Next => LadderInv'
<1> SUFFICES ASSUME ChannelInv, LadderInv, Channel!Next PROVE LadderInv'
  OBVIOUS
<1> USE DEF Channel!ladder
<1>t. conn \in [Conns -> Places] /\ (refused => refused')
  BY DEF ChannelInv, Channel!TypeOK, Places, Channel!Next, Channel!Request, Channel!Answers,
     Channel!Refuses, Channel!RefusalEnds, Channel!Brings, Channel!Ends, Channel!RequestFails,
     Channel!ResponseFails, Channel!TimerFires, Channel!FirstRoundEnds, Channel!Stop
<1>o. (Channel!Stop \/ UNCHANGED streaming) /\ (fellBack => fellBack')
  BY LadderGoesDown
(* A stopped relay has no loop, and makes none. *)
<1>1. ASSUME ~streaming' PROVE loops' = 0
  <2>1. CASE Channel!Stop
    BY <2>1 DEF Channel!Stop
  <2>2. CASE ~Channel!Stop
    <3>1. ~streaming /\ loops = 0
      BY <1>o, <1>1, <2>2 DEF LadderInv
    <3>2. Channel!PollLoops = 0
      BY <3>1 DEF Channel!PollLoops
    <3>3. QED
      BY <2>2, <3>1, <3>2 DEF Channel!Next, Channel!Request, Channel!Answers, Channel!Refuses,
         Channel!MovesOn, Channel!RefusalEnds, Channel!Brings, Channel!Ends,
         Channel!RequestFails, Channel!ResponseFails, Channel!TimerFires,
         Channel!FirstRoundEnds, Channel!FallBackToApiHost, Channel!Strike,
         Channel!ScheduleSseReconnect
  <2>3. QED
    BY <2>1, <2>2
<1>2. ASSUME streaming', ~fellBack', ~refused' PROVE OnFirstRung'
  <2>a. streaming /\ ~fellBack /\ ~refused /\ OnFirstRung
    <3>1. streaming
      BY <1>2, <1>o DEF Channel!Stop
    <3>2. QED
      BY <1>2, <1>t, <1>o, <3>1 DEF LadderInv
  <2>1. ASSUME NEW i \in Conns, Channel!Answers(i) PROVE OnFirstRung'
    BY <1>t, <2>a, <2>1 DEF Channel!Answers, Channel!Stay, OnFirstRung
  <2>2. ASSUME NEW i \in Conns, NEW why \in {"4xx", "5xx"}, Channel!Refuses(i, why)
        PROVE FALSE
    <3>1. conn[i] = "connecting" /\ i \in onStream /\ i \notin delivered
      BY <2>a, <2>2 DEF Channel!Refuses, OnFirstRung
    <3>2. why # "4xx"
      BY <1>2, <2>2, <3>1 DEF Channel!Refuses
    <3>3. Channel!FallsBack(i, why)
      BY <2>a, <3>1, <3>2 DEF Channel!FallsBack
    <3>4. QED
      BY <1>2, <2>2, <3>3 DEF Channel!Refuses, Channel!MovesOn, Channel!FallBackToApiHost
  <2>3. ASSUME NEW i \in Conns, Channel!RefusalEnds(i) PROVE FALSE
    BY <2>a, <2>3 DEF Channel!RefusalEnds, OnFirstRung
  <2>4. ASSUME NEW i \in Conns, Channel!Brings(i) PROVE OnFirstRung'
    BY <1>t, <2>a, <2>4 DEF Channel!Brings, OnFirstRung
  <2>5. ASSUME NEW i \in Conns, Channel!Ends(i) PROVE OnFirstRung'
    <3>1. /\ conn[i] = "open" /\ conn' = [conn EXCEPT ![i] = "free"] /\ timer' = 1
          /\ UNCHANGED <<onStream, delivered, failures, loops, doubled>>
      BY <2>a, <2>5 DEF Channel!Ends, Channel!Stay, Channel!ScheduleSseReconnect, Channel!Armed
    <3>2. QED
      BY <1>t, <2>a, <3>1 DEF OnFirstRung
  <2>6. ASSUME NEW i \in Conns, Channel!RequestFails(i) PROVE OnFirstRung'
    <3> DEFINE f == [conn EXCEPT ![i] = IF @ = "open" THEN "reset" ELSE "free"]
    <3>1. ~Channel!FallsBack(i, "network") /\ Channel!Strike /\ Channel!Stay(f)
          /\ doubled' = (doubled \/ conn[i] = "refused")
      BY <1>2, <2>a, <2>6 DEF Channel!RequestFails, Channel!FallBackToApiHost
    <3>2. i \in delivered
      BY <2>a, <3>1 DEF Channel!FallsBack
    <3>3. conn[i] = "open" /\ failures = 0
      BY <2>a, <2>6, <3>2 DEF Channel!RequestFails, OnFirstRung
    <3>4. conn' = [conn EXCEPT ![i] = "reset"] /\ UNCHANGED <<onStream, delivered>>
      BY <3>1, <3>3 DEF Channel!Stay
    <3>5. timer' = 1 /\ loops' = loops /\ failures' = 1
      BY <3>1, <3>3 DEF Channel!Strike, Channel!Strikes, Channel!Armed
    <3>6. \A j \in Conns \ {i} : conn[j] # "open"
      BY <2>a, <3>3 DEF ChannelInv, OneWay, OnFirstRung, Channel!Talking
    <3>7. ~doubled'
      BY <2>a, <3>1, <3>3 DEF OnFirstRung
    <3>8. QED
      BY <1>t, <2>a, <3>4, <3>5, <3>6, <3>7 DEF OnFirstRung
  <2>7. ASSUME NEW i \in Conns, Channel!ResponseFails(i) PROVE OnFirstRung'
    <3>1. /\ conn[i] \in {"open", "reset"} /\ conn' = [conn EXCEPT ![i] = "free"]
          /\ UNCHANGED <<onStream, delivered, failures, loops>> /\ timer' = 1
          /\ doubled' = (doubled \/ (conn[i] = "reset" /\ timer = 0))
      BY <1>2, <2>a, <2>7 DEF Channel!ResponseFails, Channel!FallBackToApiHost, Channel!Stay,
         Channel!Reconnects, Channel!ScheduleSseReconnect, Channel!Armed
    <3>2. ~doubled'
      BY <2>a, <3>1 DEF OnFirstRung
    <3>3. QED
      BY <1>t, <2>a, <3>1, <3>2 DEF OnFirstRung
  <2>8. CASE Channel!TimerFires
    <3>1. /\ Channel!ConnectSSE(conn) /\ UNCHANGED <<failures, loops, doubled, fellBack>>
          /\ \A j \in Conns : conn[j] # "reset"
      BY <2>8 DEF Channel!TimerFires
    <3>2. /\ current' \in Conns /\ conn' = [conn EXCEPT ![current'] = "connecting"]
          /\ onStream' = onStream \cup {current'} /\ delivered' = delivered \ {current'}
      BY <1>2, <2>a, <3>1 DEF Channel!ConnectSSE
    <3>3. QED
      BY <1>t, <2>a, <3>1, <3>2 DEF OnFirstRung
  <2>9. CASE Channel!FirstRoundEnds
    BY <2>a, <2>9 DEF Channel!FirstRoundEnds, OnFirstRung
  <2>10. CASE Channel!Stop
    BY <1>2, <2>10 DEF Channel!Stop
  <2>11. QED
    BY <2>1, <2>2, <2>3, <2>4, <2>5, <2>6, <2>7, <2>8, <2>9, <2>10
    DEF Channel!Next, Channel!Request
<1>3. QED
  BY <1>1, <1>2 DEF LadderInv

-----------------------------------------------------------------------------
(* The mirror.  One that is not stopped has a conversation of the terminal's, and
   only such a one has callbacks. *)
MirrorIsLocal ==
  /\ ~m.stopped => m.id \in Mirror!Mirrors /\ m.conv \in Convs /\ up = "tui"
  /\ changed \/ m.poll => ~m.stopped
  /\ state = "LOCAL_DRIVE" => up = "tui"
  /\ up = "acp" => conv # NoConv
  /\ \A c \in Convs : c \notin disk => turns[c] = 0

(* A turn that has been shown, or is about to be, has ended, and the mirror of its
   conversation has read on beyond it. *)
NotAhead(u) ==
  u[2] <= turns[u[1]] /\ (~m.stopped /\ m.conv = u[1] => u[2] <= m.emitted)

ReadOn ==
  /\ \A u \in live : NotAhead(u)
  /\ \A k \in Mirror!Mirrors : \A i \in 1..Len(chain[k]) : NotAhead(chain[k][i])

Once ==
  /\ \A k \in Mirror!Mirrors : \A i \in 1..Len(chain[k]) : chain[k][i] \notin live
  /\ \A k, l \in Mirror!Mirrors : \A i \in 1..Len(chain[k]), j \in 1..Len(chain[l]) :
       chain[k][i] = chain[l][j] => k = l /\ i = j

MirrorInv == Mirror!TypeOK /\ MirrorIsLocal /\ (unread \/ (ReadOn /\ Once))

(* What the code's records of a mirror are. *)
Records ==
  [id : 0..MaxMirrors, conv : Convs \cup {NoConv}, emitted : 0..MaxTurns,
   att : {"no", "read", "watching", "deaf"}, poll : BOOLEAN, stopped : BOOLEAN]
Snaps == [id : Mirror!Mirrors, conv : Convs, n : 1..MaxTurns]
Active(mm) == mm \in Records /\ ~mm.stopped /\ mm.id \in Mirror!Mirrors /\ mm.conv \in Convs

LEMMA TypedSeq ==
  ASSUME NEW S, NEW d \in Nat, NEW s \in [1..d -> S]
  PROVE  s \in Seq(S) /\ Len(s) = d
OBVIOUS

(* What emit() appends: the turns after the last one emitted, in order. *)
LEMMA Appends ==
  ASSUME NEW s \in Seq(Mirror!Turns), NEW c \in Convs,
         NEW e \in 0..MaxTurns, NEW n \in 0..MaxTurns, e < n
  PROVE  LET t == s \o [j \in 1..(n - e) |-> <<c, e + j>>] IN
         /\ t \in Seq(Mirror!Turns) /\ Len(t) = Len(s) + (n - e)
         /\ \A i \in 1..Len(s) : t[i] = s[i]
         /\ \A i \in 1..Len(t) : i > Len(s) => t[i] = <<c, e + (i - Len(s))>>
<1> DEFINE new == [j \in 1..(n - e) |-> <<c, e + j>>]
<1>0. MaxTurns \in Nat /\ e \in Nat /\ n \in Nat /\ n - e \in Nat
  BY LinkAssumption
<1>1. new \in [1..(n - e) -> Mirror!Turns]
  <2>1. \A j \in 1..(n - e) : e + j \in 1..MaxTurns
    BY <1>0
  <2>2. QED
    BY <2>1 DEF Mirror!Turns
<1>2. new \in Seq(Mirror!Turns) /\ Len(new) = n - e
  BY <1>0, <1>1, TypedSeq
<1>3. \A j \in 1..(n - e) : new[j] = <<c, e + j>>
  OBVIOUS
<1> HIDE DEF new
<1>4. Len(s) \in Nat
  BY LenProperties
<1>5. /\ s \o new \in Seq(Mirror!Turns) /\ Len(s \o new) = Len(s) + (n - e)
      /\ \A i \in 1..(Len(s) + (n - e)) : (s \o new)[i] = IF i <= Len(s) THEN s[i] ELSE new[i - Len(s)]
  BY <1>2, ConcatProperties
<1>6. \A i \in 1..Len(s) : (s \o new)[i] = s[i]
  BY <1>0, <1>4, <1>5
<1>7. ASSUME NEW i \in 1..Len(s \o new), i > Len(s)
      PROVE  (s \o new)[i] = <<c, e + (i - Len(s))>>
  BY <1>0, <1>3, <1>4, <1>5, <1>7
<1>8. QED
  BY <1>5, <1>6, <1>7 DEF new

(* emit() of an active mirror keeps the types. *)
LEMMA EmitTypes ==
  ASSUME Mirror!TypeOK, NEW mm, Active(mm), NEW preexisting, Mirror!Emits(mm, preexisting)
  PROVE  /\ Active(m') /\ m'.id = mm.id /\ m'.conv = mm.conv /\ m'.poll = mm.poll /\ m'.att = mm.att
         /\ m'.emitted >= turns[mm.conv] /\ m'.emitted >= mm.emitted
         /\ chain' \in [Mirror!Mirrors -> Seq(Mirror!Turns)] /\ snaps' \subseteq Snaps
<1> DEFINE n == turns[mm.conv]
<1>0. n \in 0..MaxTurns /\ mm.emitted \in 0..MaxTurns /\ MaxTurns \in Nat
  BY LinkAssumption DEF Mirror!TypeOK, Active, Records
<1>1. CASE n <= mm.emitted
  BY <1>0, <1>1 DEF Mirror!Emits, Mirror!TypeOK, Active, Records, Snaps
<1>2. CASE ~(n <= mm.emitted)
  <2>1. /\ m' = [mm EXCEPT !.emitted = n]
        /\ snaps' = snaps \cup {[id |-> mm.id, conv |-> mm.conv, n |-> n]}
    BY <1>2 DEF Mirror!Emits
  <2>2. snaps' \subseteq Snaps
    <3>1. n \in 1..MaxTurns
      BY <1>0, <1>2
    <3>2. [id |-> mm.id, conv |-> mm.conv, n |-> n] \in Snaps
      BY <3>1 DEF Snaps, Active
    <3>3. QED
      BY <2>1, <3>2 DEF Snaps, Mirror!TypeOK
  <2>3. chain' \in [Mirror!Mirrors -> Seq(Mirror!Turns)]
    <3>1. chain[mm.id] \in Seq(Mirror!Turns)
      BY DEF Mirror!TypeOK, Active
    <3>2. mm.conv \in Convs /\ mm.emitted < n
      BY <1>0, <1>2 DEF Active
    <3>3. chain[mm.id] \o [j \in 1..(n - mm.emitted) |-> <<mm.conv, mm.emitted + j>>] \in Seq(Mirror!Turns)
      BY <1>0, <3>1, <3>2, Appends, ZenonT(60)
    <3>4. QED
      BY <1>2, <3>3 DEF Mirror!Emits, Mirror!TypeOK
  <2>4. m'.emitted = n /\ m' \in Records
    BY <1>0, <2>1 DEF Active, Records
  <2>5. /\ m'.id = mm.id /\ m'.conv = mm.conv /\ m'.poll = mm.poll /\ m'.att = mm.att
        /\ m'.stopped = mm.stopped
    BY <2>1 DEF Active, Records
  <2>6. m'.emitted >= n /\ m'.emitted >= mm.emitted
    BY <1>0, <1>2, <2>4
  <2>7. QED
    BY <2>2, <2>3, <2>4, <2>5, <2>6 DEF Active
<1>3. QED
  BY <1>1, <1>2

(* What it shows is new, if the mirror has read on beyond what was shown, or it
   shows nothing. *)
LEMMA EmitsNew ==
  ASSUME Mirror!TypeOK, ReadOn, Once, NEW mm, Active(mm), NEW preexisting \in BOOLEAN,
         Mirror!Emits(mm, preexisting), UNCHANGED <<live, turns>>,
         preexisting \/ (mm.conv = m.conv /\ mm.emitted = m.emitted /\ ~m.stopped)
  PROVE  ReadOn' /\ Once'
<1> DEFINE n == turns[mm.conv]
<1>0. n \in 0..MaxTurns /\ mm.emitted \in 0..MaxTurns /\ MaxTurns \in Nat
  BY LinkAssumption DEF Mirror!TypeOK, Active, Records
<1>1. m'.conv = mm.conv /\ m'.emitted >= n /\ m'.emitted \in Nat
  BY <1>0, EmitTypes DEF Active, Records
<1>2. ASSUME NEW u \in Mirror!Turns, u[2] <= turns[u[1]] PROVE NotAhead(u)'
  <2>1. u[2] \in Nat
    BY DEF Mirror!Turns
  <2>2. QED
    BY <1>0, <1>1, <1>2, <2>1 DEF NotAhead
<1>3. \A k \in Mirror!Mirrors : chain[k] \in Seq(Mirror!Turns) /\ Len(chain[k]) \in Nat
  BY LenProperties DEF Mirror!TypeOK
<1>4. \A k \in Mirror!Mirrors : \A i \in 1..Len(chain[k]) : chain[k][i] \in Mirror!Turns
  BY <1>3, ElementOfSeq
<1>5. CASE UNCHANGED chain
  <2>1. Once'
    BY <1>5 DEF Once
  <2>2. ASSUME NEW k \in Mirror!Mirrors, NEW i \in 1..Len(chain'[k]) PROVE NotAhead(chain[k][i])'
    BY <1>2, <1>4, <1>5 DEF ReadOn, NotAhead
  <2>3. ASSUME NEW u \in live PROVE NotAhead(u)'
    BY <1>2 DEF ReadOn, NotAhead, Mirror!TypeOK
  <2>4. QED
    BY <1>5, <2>1, <2>2, <2>3 DEF ReadOn
<1>6. CASE chain' # chain
  <2>0. /\ mm.emitted < n /\ mm.id \in Mirror!Mirrors /\ mm.conv \in Convs
        /\ mm.conv = m.conv /\ mm.emitted = m.emitted /\ ~m.stopped
    BY <1>0, <1>6 DEF Mirror!Emits, Active
  <2> DEFINE s == chain[mm.id]
             t == s \o [j \in 1..(n - mm.emitted) |-> <<mm.conv, mm.emitted + j>>]
  <2>1. /\ t \in Seq(Mirror!Turns) /\ Len(t) = Len(s) + (n - mm.emitted)
        /\ \A i \in 1..Len(s) : t[i] = s[i]
        /\ \A i \in 1..Len(t) : i > Len(s) => t[i] = <<mm.conv, mm.emitted + (i - Len(s))>>
    <3>1. s \in Seq(Mirror!Turns) /\ mm.conv \in Convs
      BY <1>3, <2>0
    <3>2. mm.emitted \in 0..MaxTurns /\ n \in 0..MaxTurns /\ mm.emitted < n
      BY <1>0, <2>0
    <3> HIDE DEF n, s
    <3>3. QED
      BY <3>1, <3>2, Appends, ZenonT(60)
  <2>2. chain' = [chain EXCEPT ![mm.id] = t]
    BY <1>0, <1>6, <2>0 DEF Mirror!Emits
  <2> HIDE DEF t
  <2>3. chain'[mm.id] = t /\ \A k \in Mirror!Mirrors \ {mm.id} : chain'[k] = chain[k]
    BY <2>0, <2>2 DEF Mirror!TypeOK
  (* Each turn in a chain was there, or is one of the new ones. *)
  <2>4. ASSUME NEW k \in Mirror!Mirrors, NEW i \in 1..Len(chain'[k])
        PROVE  \/ i \in 1..Len(chain[k]) /\ chain'[k][i] = chain[k][i]
               \/ k = mm.id /\ i > Len(s) /\ chain'[k][i] = <<mm.conv, mm.emitted + (i - Len(s))>>
    <3>1. CASE k # mm.id
      BY <2>3, <3>1
    <3>2. CASE k = mm.id /\ i > Len(s)
      BY <2>1, <2>3, <3>2
    <3>3. CASE k = mm.id /\ ~(i > Len(s))
      <4>1. i \in 1..Len(s)
        BY <1>0, <1>3, <2>0, <2>1, <2>3, <3>3
      <4>2. QED
        BY <2>1, <2>3, <3>3, <4>1
    <3>4. QED
      BY <3>1, <3>2, <3>3
  (* Whoever has been shown is no new one. *)
  <2>5. ASSUME NEW u \in Mirror!Turns, NotAhead(u), NEW j \in Nat, j > 0
        PROVE  u # <<mm.conv, mm.emitted + j>>
    <3>1. u[2] \in Nat
      BY DEF Mirror!Turns
    <3>2. QED
      BY <1>0, <2>0, <2>5, <3>1 DEF NotAhead
  <2>6. \A u \in live : u \in Mirror!Turns /\ NotAhead(u)
    BY DEF ReadOn, Mirror!TypeOK
  <2>7. \A k \in Mirror!Mirrors : \A i \in 1..Len(chain[k]) : NotAhead(chain[k][i])
    BY DEF ReadOn
  <2>s. Len(s) \in Nat
    BY <1>3, <2>0
  <2> HIDE DEF s
  <2>8. ASSUME NEW k \in Mirror!Mirrors, NEW i \in 1..Len(chain'[k])
        PROVE  chain'[k][i] \notin live
    <3>1. CASE i \in 1..Len(chain[k]) /\ chain'[k][i] = chain[k][i]
      BY <3>1 DEF Once
    <3>2. CASE i > Len(s) /\ chain'[k][i] = <<mm.conv, mm.emitted + (i - Len(s))>>
      <4>1. i - Len(s) \in Nat /\ i - Len(s) > 0
        BY <2>s, <3>2
      <4>2. QED
        BY <2>5, <2>6, <3>2, <4>1
    <3>3. QED
      BY <2>4, <3>1, <3>2
  <2>9. ASSUME NEW k \in Mirror!Mirrors, NEW l \in Mirror!Mirrors,
               NEW i \in 1..Len(chain'[k]), NEW j \in 1..Len(chain'[l]), chain'[k][i] = chain'[l][j]
        PROVE  k = l /\ i = j
    <3> DEFINE Old(p, x) == x \in 1..Len(chain[p]) /\ chain'[p][x] = chain[p][x]
               New(p, x) == /\ p = mm.id /\ x > Len(s)
                            /\ chain'[p][x] = <<mm.conv, mm.emitted + (x - Len(s))>>
    <3>1. (Old(k, i) \/ New(k, i)) /\ (Old(l, j) \/ New(l, j))
      BY <2>4
    <3>2. CASE Old(k, i) /\ Old(l, j)
      <4>1. i \in 1..Len(chain[k]) /\ j \in 1..Len(chain[l]) /\ chain[k][i] = chain[l][j]
        BY <2>9, <3>2
      <4>2. QED
        BY <4>1 DEF Once
    <3>3. ASSUME NEW p \in Mirror!Mirrors, NEW q \in Mirror!Mirrors,
                 NEW x \in Nat, NEW y \in Nat, Old(p, x), New(q, y)
          PROVE  chain'[p][x] # chain'[q][y]
      <4>1. y - Len(s) \in Nat /\ y - Len(s) > 0
        BY <2>s, <3>3
      <4>2. QED
        BY <1>4, <2>5, <2>7, <3>3, <4>1
    <3>4. CASE New(k, i) /\ New(l, j)
      <4>1. mm.emitted + (i - Len(s)) = mm.emitted + (j - Len(s))
        BY <2>9, <3>4
      <4>2. QED
        BY <1>0, <2>s, <3>4, <4>1
    <3>5. i \in Nat /\ j \in Nat
      OBVIOUS
    <3> HIDE DEF Old, New
    <3>6. CASE Old(k, i) /\ New(l, j)
      BY <2>9, <3>3, <3>5, <3>6
    <3>7. CASE New(k, i) /\ Old(l, j)
      BY <2>9, <3>3, <3>5, <3>7
    <3>8. QED
      BY <3>1, <3>2, <3>4, <3>6, <3>7
  <2>10. ASSUME NEW k \in Mirror!Mirrors, NEW i \in 1..Len(chain'[k]), NEW u, u = chain'[k][i]
         PROVE  NotAhead(u)'
    <3>1. CASE i \in 1..Len(chain[k]) /\ chain'[k][i] = chain[k][i]
      BY <1>2, <1>4, <2>7, <2>10, <3>1 DEF NotAhead
    <3>2. CASE k = mm.id /\ i > Len(s)
      <4>1. u = <<mm.conv, mm.emitted + (i - Len(s))>> /\ i <= Len(s) + (n - mm.emitted)
        BY <2>1, <2>3, <2>10, <3>2
      <4>2. mm.emitted + (i - Len(s)) \in 1..n
        BY <1>0, <2>0, <2>s, <3>2, <4>1
      <4>3. u \in Mirror!Turns /\ u[2] <= turns[u[1]]
        BY <1>0, <2>0, <4>1, <4>2 DEF Mirror!Turns
      <4>4. QED
        BY <1>2, <4>3
    <3>3. QED
      BY <2>4, <3>1, <3>2
  <2>11. \A u \in live : NotAhead(u)'
    BY <1>2, <2>6 DEF NotAhead
  <2>12. QED
    BY <2>8, <2>9, <2>10, <2>11 DEF ReadOn, Once
<1>7. QED
  BY <1>5, <1>6

(* What is shown stays as it is, and the mirror too, or it stops, or it starts on a
   conversation that has no turns yet. *)
LEMMA SameShown ==
  ASSUME Mirror!TypeOK, ReadOn, Once, UNCHANGED <<live, turns, chain>>,
         \/ m'.stopped
         \/ m'.conv = m.conv /\ m'.emitted = m.emitted /\ ~m.stopped
         \/ m'.conv \in Convs /\ m'.emitted = 0 /\ turns[m'.conv] = 0
  PROVE  ReadOn' /\ Once'
<1>1. Once'
  BY DEF Once
<1>2. ASSUME NEW u, NotAhead(u) PROVE NotAhead(u)'
  BY <1>2 DEF NotAhead
<1>3. ReadOn'
  BY <1>2 DEF ReadOn
<1>4. QED
  BY <1>1, <1>3

(* What the steps of a mirror keep. *)
Kept ==
  /\ m' \in Records /\ changed' \in BOOLEAN /\ overlooked' \in BOOLEAN /\ unread' \in BOOLEAN
  /\ chain' \in [Mirror!Mirrors -> Seq(Mirror!Turns)] /\ snaps' \subseteq Snaps
  /\ ~m'.stopped => m'.id \in Mirror!Mirrors /\ m'.conv \in Convs /\ up' = "tui"
  /\ changed' \/ m'.poll => ~m'.stopped
  /\ unread' \/ (ReadOn' /\ Once')

LEMMA TypedMirror ==
  Mirror!TypeOK => /\ m \in Records /\ changed \in BOOLEAN /\ overlooked \in BOOLEAN /\ unread \in BOOLEAN
                   /\ chain \in [Mirror!Mirrors -> Seq(Mirror!Turns)] /\ snaps \subseteq Snaps
                   /\ turns \in [Convs -> 0..MaxTurns] /\ live \subseteq Mirror!Turns
BY DEF Mirror!TypeOK, Records, Snaps

LEMMA EmitKeeps ==
  ASSUME MirrorInv, NEW mm, Active(mm), NEW preexisting \in BOOLEAN, Mirror!Emits(mm, preexisting),
         UNCHANGED <<live, turns, unread>>, overlooked' \in BOOLEAN, changed' \in BOOLEAN, up' = "tui",
         preexisting \/ (mm.conv = m.conv /\ mm.emitted = m.emitted /\ ~m.stopped)
  PROVE  Kept
<1>1. /\ Active(m') /\ chain' \in [Mirror!Mirrors -> Seq(Mirror!Turns)] /\ snaps' \subseteq Snaps
  BY EmitTypes DEF MirrorInv
<1>2. unread' \/ (ReadOn' /\ Once')
  BY EmitsNew DEF MirrorInv
<1>3. QED
  BY <1>1, <1>2, TypedMirror DEF Kept, Active, MirrorInv

LEMMA AttachKeeps ==
  ASSUME MirrorInv, NEW mm, Active(mm), NEW preexisting \in BOOLEAN, Mirror!Attaches(mm, preexisting),
         UNCHANGED <<live, turns>>, changed' \in BOOLEAN, up' = "tui",
         preexisting \/ (mm.conv = m.conv /\ mm.emitted = m.emitted /\ ~m.stopped)
  PROVE  Kept
<1> DEFINE reading == [mm EXCEPT !.att = "read"]
<1>1. Active(reading) /\ reading.conv = mm.conv /\ reading.emitted = mm.emitted
  BY DEF Active, Records
<1> HIDE DEF reading
<1>2. CASE Mirror!Emits(reading, preexisting) /\ overlooked' = FALSE /\ UNCHANGED unread
  BY <1>1, <1>2, EmitKeeps
<1>3. CASE /\ Mirror!ReadFails(reading)
           /\ overlooked' = TRUE /\ unread' = (unread \/ preexisting)
  <2>1. m' = reading /\ UNCHANGED <<chain, snaps>> /\ overlooked' \in BOOLEAN /\ unread' \in BOOLEAN
    BY <1>3 DEF Mirror!ReadFails
  <2>2. unread' \/ (ReadOn' /\ Once')
    <3>1. CASE preexisting \/ unread
      BY <1>3, <3>1
    <3>2. CASE ~(preexisting \/ unread)
      BY <1>1, <2>1, <3>2, SameShown DEF MirrorInv
    <3>3. QED
      BY <3>1, <3>2
  <2>3. QED
    BY <1>1, <2>1, <2>2, TypedMirror DEF Kept, Active, MirrorInv
<1>4. QED
  BY <1>2, <1>3 DEF Mirror!Attaches, reading

LEMMA PublishKeeps ==
  ASSUME MirrorInv, NEW s \in Mirror!States, NEW c \in Convs \cup {NoConv}, Mirror!Publish(s, c),
         UNCHANGED <<disk, turns>>, s = "LOCAL_DRIVE" => up' = "tui"
  PROVE  Kept /\ state' = s /\ conv' = c /\ live' = live
<1>0. state' = s /\ conv' = c /\ live' = live
  BY DEF Mirror!Publish
<1>1. CASE s = "LOCAL_DRIVE" /\ c # NoConv
  <2> DEFINE new == [Mirror!NoMirror EXCEPT !.id = m.id + 1, !.conv = c, !.stopped = FALSE]
  <2>1. Mirror!StartMirror(c) /\ c \in Convs /\ up' = "tui"
    BY <1>1 DEF Mirror!Publish
  <2>2. m.id < MaxMirrors /\ m.id \in 0..MaxMirrors /\ changed' = FALSE
    BY <2>1, TypedMirror DEF Mirror!StartMirror, Records, MirrorInv
  <2>3. /\ Active(new) /\ new.conv = c /\ new.emitted = 0
        /\ Active([new EXCEPT !.poll = TRUE]) /\ [new EXCEPT !.poll = TRUE].conv = c
        /\ [new EXCEPT !.poll = TRUE].emitted = 0
    <3>1. m.id + 1 \in Mirror!Mirrors /\ m.id + 1 \in 0..MaxMirrors /\ 0 \in 0..MaxTurns
      BY <2>2, LinkAssumption DEF Mirror!Mirrors
    <3>2. QED
      BY <2>1, <3>1 DEF Active, Records, Mirror!NoMirror
  <2> HIDE DEF new
  <2>4. CASE c \in disk
    <3>1. Mirror!Attaches(new, TRUE)
      BY <2>1, <2>4 DEF Mirror!StartMirror, Mirror!AtStart, new
    <3>2. Kept
      BY <1>0, <2>1, <2>2, <2>3, <3>1, AttachKeeps
    <3>3. QED
      BY <1>0, <3>2
  <2>5. CASE c \notin disk
    <3>1. /\ m' = [new EXCEPT !.poll = TRUE] /\ overlooked' = FALSE
          /\ UNCHANGED <<chain, snaps, unread>>
      BY <2>1, <2>5 DEF Mirror!StartMirror, new
    <3>2. unread' \/ (ReadOn' /\ Once')
      BY <1>0, <2>1, <2>3, <2>5, <3>1, SameShown DEF MirrorInv, MirrorIsLocal
    <3>3. m' \in Records /\ ~m'.stopped /\ m'.id \in Mirror!Mirrors /\ m'.conv \in Convs
      BY <2>3, <3>1 DEF Active
    <3>4. QED
      BY <1>0, <2>1, <2>2, <3>1, <3>2, <3>3, TypedMirror DEF Kept, MirrorInv
  <2>6. QED
    BY <2>4, <2>5
<1>2. CASE s # "LOCAL_DRIVE"
  <2>1. /\ m' = [m EXCEPT !.stopped = TRUE, !.poll = FALSE,
                          !.att = IF @ = "watching" THEN "deaf" ELSE @]
        /\ changed' = FALSE
        /\ UNCHANGED <<chain, snaps, overlooked, unread>>
    BY <1>2 DEF Mirror!Publish, Mirror!StopMirror
  <2>2. m' \in Records /\ m'.stopped /\ ~m'.poll
    BY <2>1, TypedMirror DEF Records, MirrorInv
  <2>3. unread' \/ (ReadOn' /\ Once')
    BY <1>0, <2>1, <2>2, SameShown DEF MirrorInv
  <2>4. QED
    BY <1>0, <2>1, <2>2, <2>3, TypedMirror DEF Kept, MirrorInv
<1>3. CASE s = "LOCAL_DRIVE" /\ c = NoConv
  <2>1. UNCHANGED <<m, changed, chain, snaps, overlooked, unread>> /\ up' = "tui"
    BY <1>3 DEF Mirror!Publish, Mirror!mirror
  <2>2. unread' \/ (ReadOn' /\ Once')
    BY <1>0, <2>1 DEF MirrorInv, ReadOn, Once, NotAhead
  <2>3. QED
    BY <1>0, <2>1, <2>2, TypedMirror DEF Kept, MirrorInv, MirrorIsLocal
<1>4. QED
  BY <1>1, <1>2, <1>3

LEMMA MirrorInit == Mirror!Init => MirrorInv
<1> SUFFICES ASSUME Mirror!Init PROVE MirrorInv
  OBVIOUS
<1> USE DEF Mirror!Init
<1>1. 0 \in 0..MaxTurns /\ 0 \in 0..MaxMirrors /\ 1 \in Mirror!Mirrors /\ 1 \in 0..MaxMirrors /\ 0 \in 0..MaxHandoffs
  BY LinkAssumption DEF Mirror!Mirrors
<1>2. m \in Records /\ (~m.stopped => m.id \in Mirror!Mirrors /\ m.conv \in Convs) /\ (m.poll => ~m.stopped)
  BY <1>1 DEF Records, Mirror!NoMirror
<1>3. chain = [k \in Mirror!Mirrors |-> <<>>] /\ live = {}
  OBVIOUS
<1>4. chain \in [Mirror!Mirrors -> Seq(Mirror!Turns)] /\ turns \in [Convs -> 0..MaxTurns]
  BY <1>1, <1>3
<1>5. Mirror!TypeOK
  BY <1>1, <1>2, <1>4 DEF Mirror!TypeOK, Mirror!States, Records
<1>6. ReadOn /\ Once
  <2>1. \A k \in Mirror!Mirrors : 1..Len(chain[k]) = {}
    BY <1>3
  <2>2. QED
    BY <1>3, <2>1 DEF ReadOn, Once
<1>7. MirrorIsLocal
  BY <1>2 DEF MirrorIsLocal
<1>8. QED
  BY <1>5, <1>6, <1>7 DEF MirrorInv

(* What the steps that touch the mirror leave to show. *)
LEMMA KeptIsEnough ==
  ASSUME MirrorInv, Kept,
         state' \in Mirror!States, conv' \in Convs \cup {NoConv}, up' \in {"tui", "acp"}, at' \in Convs,
         seen' \in Convs \cup {NoConv}, disk' \subseteq Convs, turns' \in [Convs -> 0..MaxTurns],
         live' \subseteq Mirror!Turns, handoffs' \in 0..MaxHandoffs,
         state' = "LOCAL_DRIVE" => up' = "tui", up' = "acp" => conv' # NoConv,
         \A c \in Convs : c \notin disk' => turns'[c] = 0
  PROVE  MirrorInv'
<1>1. Mirror!TypeOK'
  BY DEF Kept, Mirror!TypeOK, Records, Snaps
<1>2. MirrorIsLocal'
  BY DEF Kept, MirrorIsLocal
<1>3. QED
  BY <1>1, <1>2 DEF MirrorInv, Kept

LEMMA MirrorStep == MirrorInv /\ Mirror!Next => MirrorInv'
<1> SUFFICES ASSUME MirrorInv, Mirror!Next PROVE MirrorInv'
  OBVIOUS
<1> USE DEF Mirror!ctl, Mirror!agents, Mirror!mirror
<1>t. Mirror!TypeOK /\ MirrorIsLocal
  BY DEF MirrorInv
<1>a. /\ state \in Mirror!States /\ conv \in Convs \cup {NoConv} /\ up \in {"tui", "acp"} /\ at \in Convs
      /\ seen \in Convs \cup {NoConv} /\ disk \subseteq Convs /\ turns \in [Convs -> 0..MaxTurns]
      /\ live \subseteq Mirror!Turns /\ handoffs \in 0..MaxHandoffs
      /\ (state = "LOCAL_DRIVE" => up = "tui") /\ (up = "acp" => conv # NoConv)
      /\ NoConv \notin Convs
      /\ \A c \in Convs : c \notin disk => turns[c] = 0
  BY <1>t, LinkAssumption DEF Mirror!TypeOK, MirrorIsLocal
<1>m. /\ m \in Records /\ changed \in BOOLEAN /\ overlooked \in BOOLEAN /\ unread \in BOOLEAN
      /\ chain \in [Mirror!Mirrors -> Seq(Mirror!Turns)] /\ snaps \subseteq Snaps
      /\ ~m.stopped => Active(m) /\ up = "tui"
  BY <1>t, TypedMirror DEF MirrorIsLocal, Active
(* The agents and the controller stay as they are. *)
<1>k. ASSUME Kept, UNCHANGED <<state, conv, up, at, seen, disk, turns, live, handoffs>>
      PROVE  MirrorInv'
  BY <1>k, <1>a, KeptIsEnough
(* They do not, and the controller publishes. *)
<1>p. ASSUME NEW s \in Mirror!States, NEW c \in Convs \cup {NoConv}, Mirror!Publish(s, c),
             UNCHANGED <<disk, turns>>, up' \in {"tui", "acp"},
             s = "LOCAL_DRIVE" => up' = "tui", up' = "acp" => c # NoConv,
             at' \in Convs, seen' \in Convs \cup {NoConv}, handoffs' \in 0..MaxHandoffs
      PROVE  MirrorInv'
  <2>1. Kept /\ state' = s /\ conv' = c /\ live' = live
    BY <1>p, PublishKeeps
  <2>2. QED
    BY <1>a, <1>p, <2>1, KeptIsEnough
<1>1. CASE Mirror!PollTick
  <2>1. m.poll /\ ~m.stopped /\ changed' = changed
        /\ UNCHANGED <<state, conv, up, at, seen, disk, turns, live, handoffs>>
    BY <1>1, <1>t DEF Mirror!PollTick, MirrorIsLocal
  <2>2. CASE Mirror!Attaches([m EXCEPT !.poll = FALSE], FALSE)
    <3>1. Active([m EXCEPT !.poll = FALSE]) /\ [m EXCEPT !.poll = FALSE].conv = m.conv
          /\ [m EXCEPT !.poll = FALSE].emitted = m.emitted
      BY <1>m, <2>1 DEF Active, Records
    <3>2. Kept
      BY <1>m, <2>1, <2>2, <3>1, AttachKeeps
    <3>3. QED
      BY <1>k, <2>1, <3>2
  <2>3. CASE m' = [m EXCEPT !.poll = FALSE] /\ UNCHANGED <<chain, snaps, overlooked, unread>>
    <3>1. m' \in Records /\ Active(m') /\ m'.conv = m.conv /\ m'.emitted = m.emitted
      BY <1>m, <2>1, <2>3 DEF Active, Records
    <3>2. unread' \/ (ReadOn' /\ Once')
      BY <1>t, <2>1, <2>3, <3>1, SameShown DEF MirrorInv
    <3>3. Kept
      BY <1>m, <2>1, <2>3, <3>1, <3>2 DEF Kept, Active
    <3>4. QED
      BY <1>k, <2>1, <3>3
  <2>4. QED
    BY <1>1, <2>2, <2>3 DEF Mirror!PollTick
<1>2. CASE Mirror!Poke
  <2>1. Active(m) /\ up = "tui" /\ Mirror!Attaches(m, FALSE) /\ changed' = changed /\ ~m.stopped
        /\ UNCHANGED <<state, conv, up, at, seen, disk, turns, live, handoffs>>
    BY <1>2, <1>m DEF Mirror!Poke, Mirror!MayPoke
  <2>2. Kept
    BY <1>m, <2>1, AttachKeeps
  <2>3. QED
    BY <1>k, <2>1, <2>2
<1>3. CASE Mirror!WatchBegins
  <2>1. /\ m' \in Records /\ m'.id = m.id /\ m'.conv = m.conv /\ m'.emitted = m.emitted
        /\ m'.poll = m.poll /\ m'.stopped = m.stopped
        /\ UNCHANGED <<changed, chain, snaps, overlooked, unread>>
        /\ UNCHANGED <<state, conv, up, at, seen, disk, turns, live, handoffs>>
    BY <1>3, <1>m DEF Mirror!WatchBegins, Records
  <2>2. unread' \/ (ReadOn' /\ Once')
    BY <1>t, <2>1, SameShown DEF MirrorInv
  <2>3. Kept
    BY <1>m, <1>t, <2>1, <2>2 DEF Kept, Active, MirrorIsLocal
  <2>4. QED
    BY <1>k, <2>1, <2>3
<1>4. CASE Mirror!OnChange
  <2>1. /\ changed /\ ~m.stopped /\ Active(m) /\ up = "tui" /\ changed' = FALSE /\ UNCHANGED unread
        /\ UNCHANGED <<state, conv, up, at, seen, disk, turns, live, handoffs>>
    BY <1>4, <1>t, <1>m DEF Mirror!OnChange, MirrorIsLocal
  <2>2. CASE Mirror!Emits(m, FALSE) /\ overlooked' = FALSE
    <3>1. Kept
      BY <2>1, <2>2, EmitKeeps
    <3>2. QED
      BY <1>k, <2>1, <3>1
  <2>3. CASE Mirror!ReadFails(m) /\ overlooked' = TRUE
    <3>1. m' = m /\ UNCHANGED <<chain, snaps>>
      BY <2>3 DEF Mirror!ReadFails
    <3>2. unread' \/ (ReadOn' /\ Once')
      BY <1>t, <2>1, <3>1, SameShown DEF MirrorInv
    <3>3. Kept
      BY <1>m, <2>1, <2>3, <3>1, <3>2 DEF Kept, Active
    <3>4. QED
      BY <1>k, <2>1, <3>3
  <2>4. QED
    BY <1>4, <2>2, <2>3 DEF Mirror!OnChange
<1>5. ASSUME NEW k \in Mirror!Mirrors, Mirror!ShowNext(k) PROVE MirrorInv'
  <2> DEFINE q == chain[k]
  <2>1. /\ q \in Seq(Mirror!Turns) /\ q # <<>> /\ chain' = [chain EXCEPT ![k] = Tail(q)]
        /\ live' \in {live, live \cup {Head(q)}}
        /\ UNCHANGED <<m, changed, snaps, overlooked, unread>>
        /\ UNCHANGED <<state, conv, up, at, seen, disk, turns, handoffs>>
    BY <1>5, <1>m DEF Mirror!ShowNext
  <2>2. /\ Head(q) \in Mirror!Turns /\ Tail(q) \in Seq(Mirror!Turns) /\ Len(q) \in Nat
        /\ Len(Tail(q)) = Len(q) - 1 /\ Len(q) > 0 /\ Head(q) = q[1]
        /\ \A i \in 1..Len(Tail(q)) : Tail(q)[i] = q[i + 1]
    BY <2>1, HeadTailProperties, LenProperties, EmptySeq
  <2>3. chain'[k] = Tail(q) /\ \A l \in Mirror!Mirrors \ {k} : chain'[l] = chain[l]
    BY <1>m, <2>1
  <2> DEFINE To(l, i) == IF l = k THEN i + 1 ELSE i
  (* Where each turn that is left stood before: never first in the chain of k. *)
  <2>4. ASSUME NEW l \in Mirror!Mirrors, NEW i \in 1..Len(chain'[l])
        PROVE  /\ To(l, i) \in 1..Len(chain[l]) /\ chain'[l][i] = chain[l][To(l, i)]
               /\ l = k => To(l, i) # 1
    <3>1. CASE l = k
      <4>1. i \in 1..(Len(q) - 1) /\ chain'[l][i] = q[i + 1]
        BY <2>2, <2>3, <3>1
      <4>2. i + 1 \in 1..Len(q) /\ i + 1 # 1
        BY <2>2, <4>1
      <4>3. QED
        BY <3>1, <4>1, <4>2
    <3>2. CASE l # k
      BY <2>3, <3>2
    <3>3. QED
      BY <3>1, <3>2
  <2>5. 1 \in 1..Len(chain[k]) /\ Head(q) = chain[k][1]
    BY <2>2
  <2>6. live' \subseteq Mirror!Turns /\ chain' \in [Mirror!Mirrors -> Seq(Mirror!Turns)]
    BY <1>a, <1>m, <2>1, <2>2
  <2> HIDE DEF q, To
  <2>7. ASSUME ReadOn, Once PROVE ReadOn' /\ Once'
    <3>1. ASSUME NEW u PROVE NotAhead(u)' <=> NotAhead(u)
      BY <2>1 DEF NotAhead
    <3>2. ASSUME NEW l \in Mirror!Mirrors, NEW i \in 1..Len(chain'[l]), NEW u, u = chain'[l][i]
          PROVE  NotAhead(u)' /\ u \notin live'
      <4>1. NotAhead(u) /\ u \notin live
        BY <2>4, <2>7, <3>2 DEF ReadOn, Once
      <4>2. u # Head(q)
        <5>1. To(l, i) \in 1..Len(chain[l]) /\ u = chain[l][To(l, i)] /\ (l = k => To(l, i) # 1)
          BY <2>4, <3>2
        <5>2. QED
          BY <2>5, <2>7, <5>1 DEF Once
      <4>3. QED
        BY <2>1, <3>1, <4>1, <4>2
    <3>3. ASSUME NEW u \in live' PROVE NotAhead(u)'
      BY <2>1, <2>5, <2>7, <3>1 DEF ReadOn
    <3>4. ASSUME NEW l \in Mirror!Mirrors, NEW h \in Mirror!Mirrors, NEW i \in 1..Len(chain'[l]),
                 NEW j \in 1..Len(chain'[h]), chain'[l][i] = chain'[h][j]
          PROVE  l = h /\ i = j
      <4>1. l = h /\ To(l, i) = To(h, j)
        <5>1. /\ To(l, i) \in 1..Len(chain[l]) /\ To(h, j) \in 1..Len(chain[h])
              /\ chain[l][To(l, i)] = chain[h][To(h, j)]
          BY <2>4, <3>4
        <5>2. QED
          BY <2>7, <5>1 DEF Once
      <4>2. i \in Nat /\ j \in Nat
        BY <2>6, LenProperties
      <4>3. QED
        BY <4>1, <4>2 DEF To
    <3>5. QED
      BY <3>2, <3>3, <3>4 DEF ReadOn, Once
  <2>8. Kept
    BY <1>m, <1>t, <2>1, <2>6, <2>7 DEF Kept, Active, MirrorIsLocal, MirrorInv
  <2>9. QED
    BY <1>a, <2>1, <2>6, <2>8, KeptIsEnough
<1>6. ASSUME NEW s \in snaps, Mirror!SnapshotEnds(s) PROVE MirrorInv'
  <2>1. /\ snaps' = snaps \ {s} /\ UNCHANGED <<m, changed, chain, overlooked, unread>>
        /\ UNCHANGED <<state, conv, up, at, seen, disk, turns, live, handoffs>>
    BY <1>6 DEF Mirror!SnapshotEnds
  <2>2. Kept
    BY <1>m, <1>t, <2>1 DEF Kept, Active, MirrorIsLocal, MirrorInv, ReadOn, Once, NotAhead
  <2>3. QED
    BY <1>k, <2>1, <2>2
<1>7. CASE Mirror!TurnEnds
  <2> DEFINE n == turns[at] + 1
  <2>1. /\ n \in 1..MaxTurns /\ turns[at] \in Nat /\ <<at, n>> \in Mirror!Turns
        /\ turns' = [turns EXCEPT ![at] = n] /\ disk' = disk \cup {at}
        /\ live' = (IF up = "acp" THEN live \cup {<<at, n>>} ELSE live)
        /\ UNCHANGED <<state, conv, up, at, seen, m, chain, snaps, unread, handoffs>>
    <3>1. turns[at] \in 0..MaxTurns /\ n <= MaxTurns
      BY <1>7, <1>a DEF Mirror!TurnEnds
    <3>2. n \in 1..MaxTurns /\ turns[at] \in Nat
      BY <3>1, LinkAssumption
    <3>3. <<at, n>> \in Mirror!Turns
      BY <1>a, <3>2 DEF Mirror!Turns
    <3>4. QED
      BY <1>7, <3>2, <3>3 DEF Mirror!TurnEnds
  <2>2. changed' \in BOOLEAN /\ overlooked' \in BOOLEAN /\ (changed' => ~m.stopped)
    BY <1>7, <1>m, <1>t DEF Mirror!TurnEnds, MirrorIsLocal
  <2>3. ASSUME ReadOn, Once PROVE ReadOn' /\ Once'
    <3>1. ASSUME NEW u \in Mirror!Turns, NotAhead(u) PROVE NotAhead(u)' /\ u # <<at, n>>
      <4>1. u[1] \in Convs /\ u[2] \in Nat /\ turns[u[1]] \in 0..MaxTurns
        BY <1>a DEF Mirror!Turns
      <4>2. u[2] <= turns'[u[1]] /\ u # <<at, n>>
        BY <1>a, <2>1, <3>1, <4>1, LinkAssumption DEF NotAhead
      <4>3. QED
        BY <2>1, <3>1, <4>2 DEF NotAhead
    <3>2. \A l \in Mirror!Mirrors : \A i \in 1..Len(chain[l]) : chain[l][i] \in Mirror!Turns
      BY <1>m, ElementOfSeq
    <3>3. ASSUME NEW l \in Mirror!Mirrors, NEW i \in 1..Len(chain[l]), NEW u, u = chain[l][i]
          PROVE  NotAhead(u)' /\ u \notin live'
      BY <2>1, <2>3, <3>1, <3>2, <3>3 DEF ReadOn, Once
    <3>4. ASSUME NEW u \in live' PROVE NotAhead(u)'
      <4>1. CASE u \in live
        BY <1>a, <2>3, <3>1, <4>1 DEF ReadOn
      <4>2. CASE up = "acp" /\ u = <<at, n>>
        BY <1>a, <1>m, <2>1, <4>2 DEF NotAhead
      <4>3. QED
        BY <2>1, <3>4, <4>1, <4>2
    <3>5. ReadOn'
      BY <2>1, <3>3, <3>4 DEF ReadOn
    <3>6. Once'
      BY <2>1, <2>3, <3>3 DEF Once
    <3>7. QED
      BY <3>5, <3>6
  <2>4. Kept
    BY <1>m, <1>t, <2>1, <2>2, <2>3 DEF Kept, Active, MirrorIsLocal, MirrorInv
  <2>5. /\ disk' \subseteq Convs /\ turns' \in [Convs -> 0..MaxTurns] /\ live' \subseteq Mirror!Turns
        /\ \A c \in Convs : c \notin disk' => turns'[c] = 0
    BY <1>a, <2>1
  <2>6. QED
    BY <1>a, <2>1, <2>4, <2>5, KeptIsEnough
<1>8. ASSUME NEW c \in Convs, Mirror!TuiSwitches(c) PROVE MirrorInv'
  <2>1. /\ at' = c /\ disk' = disk \cup {c} /\ UNCHANGED <<m, changed, chain, snaps, overlooked, unread>>
        /\ UNCHANGED <<state, conv, up, seen, turns, live, handoffs>>
    BY <1>8 DEF Mirror!TuiSwitches
  <2>2. Kept
    BY <1>m, <1>t, <2>1 DEF Kept, Active, MirrorIsLocal, MirrorInv, ReadOn, Once, NotAhead
  <2>3. QED
    BY <1>a, <2>1, <2>2, KeptIsEnough
<1>9. CASE Mirror!SwitchConversation
  <2>1. up = "tui" /\ seen' = at /\ UNCHANGED <<up, at, disk, turns, handoffs>>
    BY <1>9 DEF Mirror!SwitchConversation
  <2>2. CASE Mirror!Publish("LOCAL_DRIVE", at)
    BY <1>a, <1>p, <2>1, <2>2 DEF Mirror!States
  <2>3. CASE UNCHANGED <<state, conv, m, changed, chain, snaps, overlooked, unread, live>>
    <3>1. Kept
      BY <1>m, <1>t, <2>1, <2>3 DEF Kept, Active, MirrorIsLocal, MirrorInv, ReadOn, Once, NotAhead
    <3>2. QED
      BY <1>a, <2>1, <2>3, <3>1, KeptIsEnough
  <2>4. QED
    BY <1>9, <2>2, <2>3 DEF Mirror!SwitchConversation
<1>10. CASE Mirror!RebindConversation
  BY <1>10, <1>a, <1>p DEF Mirror!RebindConversation, Mirror!States
<1>11. CASE Mirror!Yields
  <2>1. handoffs' \in 0..MaxHandoffs
    BY <1>11, <1>a, LinkAssumption DEF Mirror!Yields
  <2>2. QED
    BY <1>11, <1>a, <1>p, <2>1 DEF Mirror!Yields, Mirror!States
<1>12. CASE Mirror!ToMobile
  <2>1. PICK c \in Convs : at' = c /\ Mirror!Publish("MOBILE_DRIVE", c)
    BY <1>12 DEF Mirror!ToMobile
  <2>2. QED
    BY <1>12, <1>a, <1>p, <2>1 DEF Mirror!ToMobile, Mirror!States
<1>13. CASE Mirror!ToLocal
  BY <1>13, <1>a, <1>p DEF Mirror!ToLocal, Mirror!TuiIn, Mirror!States
<1>14. CASE Mirror!Reverts
  <2>1. UNCHANGED <<up, disk, turns, handoffs>>
    BY <1>14 DEF Mirror!Reverts
  <2>2. CASE Mirror!TuiRevived
    BY <1>a, <1>p, <2>1, <2>2 DEF Mirror!TuiRevived, Mirror!TuiIn, Mirror!States
  <2>3. CASE Mirror!AcpRevived
    BY <1>a, <1>p, <2>1, <2>3 DEF Mirror!AcpRevived, Mirror!States
  <2>4. CASE /\ Mirror!Publish(IF up = "tui" THEN "LOCAL_DRIVE" ELSE "MOBILE_DRIVE", conv)
             /\ UNCHANGED <<at, seen>>
    BY <1>a, <1>p, <2>1, <2>4 DEF Mirror!States
  <2>5. QED
    BY <1>14, <2>2, <2>3, <2>4 DEF Mirror!Reverts
<1>15. CASE Mirror!WatchFails
  <2>1. /\ m' \in Records /\ m'.id = m.id /\ m'.conv = m.conv /\ m'.emitted = m.emitted
        /\ m'.poll = m.poll /\ m'.stopped = m.stopped
        /\ changed' = FALSE /\ overlooked' \in BOOLEAN /\ UNCHANGED <<chain, snaps, unread>>
        /\ UNCHANGED <<state, conv, up, at, seen, disk, turns, live, handoffs>>
    BY <1>15, <1>m DEF Mirror!WatchFails, Records
  <2>2. unread' \/ (ReadOn' /\ Once')
    BY <1>t, <2>1, SameShown DEF MirrorInv
  <2>3. Kept
    BY <1>m, <1>t, <2>1, <2>2 DEF Kept, Active, MirrorIsLocal
  <2>4. QED
    BY <1>k, <2>1, <2>3
<1>16. QED
  BY <1>1, <1>2, <1>3, <1>4, <1>5, <1>6, <1>7, <1>8, <1>9, <1>10, <1>11, <1>12, <1>13, <1>14, <1>15
  DEF Mirror!Next

-----------------------------------------------------------------------------
(* The agent that is announced: a POST in flight carries the agent that runs, unless
   it overlapped the switch, and what has landed is shown. *)
CarriesAgent == overtaken \/ \A p \in InFlight : post[p] = agent
LandedIsShown == landed # {} => backend # NoAgent /\ (overtaken \/ backend = agent)

AnnounceInv == TypeOK /\ CarriesAgent /\ LandedIsShown /\ LatchedMeansKnown

LEMMA AnnounceInit == Init => AnnounceInv
<1> SUFFICES ASSUME Init PROVE AnnounceInv
  OBVIOUS
<1>1. 0 \in Agents /\ NoAgent \notin Agents
  BY AnnounceAssumption DEF Agents, NoAgent
<1>2. QED
  BY <1>1 DEF Init, AnnounceInv, TypeOK, CarriesAgent, LandedIsShown, LatchedMeansKnown, InFlight

LEMMA Reported ==
  ASSUME AnnounceInv, NEW p \in Posts, NEW a \in Agents, Report(p, a)
  PROVE  /\ post' \in [Posts -> Agents \cup {NoAgent}] /\ p \notin InFlight
         /\ InFlight' = InFlight \cup {p} /\ post'[p] = a
         /\ \A q \in InFlight : post'[q] = post[q]
<1>1. a # NoAgent
  BY AnnounceAssumption DEF Agents, NoAgent
<1>2. QED
  BY <1>1 DEF AnnounceInv, TypeOK, Report, InFlight

LEMMA AnnounceEnds ==
  ASSUME AnnounceInv, NEW p \in Posts, post' = [post EXCEPT ![p] = NoAgent]
  PROVE  /\ post' \in [Posts -> Agents \cup {NoAgent}] /\ InFlight' = InFlight \ {p}
         /\ \A q \in InFlight' : post'[q] = post[q]
BY DEF AnnounceInv, TypeOK, InFlight

LEMMA AnnounceStep ==
  ASSUME AnnounceInv, NEW p \in Posts,
         Start(p) \/ Switch(p) \/ TimerFires(p) \/ Lands(p) \/ Succeeds(p) \/ Fails(p)
  PROVE  AnnounceInv'
<1> USE DEF AnnounceInv, TypeOK, CarriesAgent, LandedIsShown, LatchedMeansKnown
<1>1. CASE Start(p) \/ TimerFires(p)
  <2>1. Report(p, agent) /\ UNCHANGED <<agent, landed, backend, overtaken>>
    BY <1>1 DEF Start, TimerFires
  <2>2. registered' \in {FALSE, registered} /\ running' \in {TRUE, running}
    BY <1>1 DEF Start, TimerFires
  <2>3. landed' \in SUBSET (InFlight') /\ CarriesAgent'
    BY <2>1, Reported
  <2>4. post' \in [Posts -> Agents \cup {NoAgent}]
    BY <2>1, Reported
  <2>5. TypeOK'
    BY <2>1, <2>2, <2>3, <2>4
  <2>6. LandedIsShown'
    BY <2>1
  <2>7. LatchedMeansKnown'
    <3>1. CASE registered' = FALSE
      BY <3>1
    <3>2. CASE registered' = registered
      BY <2>1, <3>2
    <3>3. QED
      BY <2>2, <3>1, <3>2
  <2>8. QED
    BY <2>3, <2>5, <2>6, <2>7
<1>2. CASE Switch(p)
  <2>1. agent' \in Agents /\ agent' # agent
    BY <1>2, AnnounceAssumption DEF Switch, Agents
  <2>2. /\ Report(p, agent') /\ registered' = FALSE /\ UNCHANGED <<landed, backend, running>>
        /\ overtaken' \in BOOLEAN /\ (~overtaken' => InFlight = {})
    BY <1>2 DEF Switch, Unlatched
  <2>3. post' \in [Posts -> Agents \cup {NoAgent}] /\ InFlight' = InFlight \cup {p} /\ post'[p] = agent'
    BY <2>1, <2>2, Reported
  <2>4. CarriesAgent' /\ landed' \in SUBSET (InFlight')
    BY <2>2, <2>3
  <2>5. LandedIsShown'
    BY <2>2
  <2>6. QED
    BY <2>1, <2>2, <2>3, <2>4, <2>5
<1>3. CASE Lands(p)
  <2>1. backend' = post[p] /\ post[p] \in Agents /\ post[p] # NoAgent /\ (overtaken \/ post[p] = agent)
    BY <1>3 DEF Lands, InFlight
  <2>2. /\ landed' = landed \cup {p} /\ p \in InFlight
        /\ UNCHANGED <<agent, running, registered, post, overtaken>>
    BY <1>3 DEF Lands
  <2>3. InFlight' = InFlight
    BY <2>2 DEF InFlight
  <2>4. QED
    BY <2>1, <2>2, <2>3
<1>4. CASE Succeeds(p) \/ Fails(p)
  <2>1. /\ post' = [post EXCEPT ![p] = NoAgent] /\ landed' = landed \ {p}
        /\ UNCHANGED <<agent, running, backend, overtaken>>
    BY <1>4 DEF Succeeds, Fails, Answered
  <2>2. registered' = registered \/ (registered' = TRUE /\ landed # {})
    BY <1>4 DEF Succeeds, Fails
  <2>3. landed' \in SUBSET (InFlight') /\ CarriesAgent' /\ post' \in [Posts -> Agents \cup {NoAgent}]
    BY <2>1, AnnounceEnds
  <2>4. TypeOK'
    BY <2>1, <2>2, <2>3
  <2>5. LandedIsShown' /\ LatchedMeansKnown'
    BY <2>1, <2>2
  <2>6. QED
    BY <2>3, <2>4, <2>5
<1>5. QED
  BY <1>1, <1>2, <1>3, <1>4

LEMMA AnnounceRests ==
  ASSUME AnnounceInv, UNCHANGED announceVars, running' \in BOOLEAN PROVE AnnounceInv'
<1>1. InFlight' = InFlight
  BY DEF announceVars, InFlight
<1>2. QED
  BY <1>1 DEF announceVars, AnnounceInv, TypeOK, CarriesAgent, LandedIsShown, LatchedMeansKnown

-----------------------------------------------------------------------------
(* The beats.  Each first beat that failed pays for one retry, made or due; a beat
   that was not sent is no retry. *)
Retried == {b \in Beats : retry[b]}
FailedFirst == {b \in Beats : beat[b] = "over" /\ ~retry[b]}
Paid == retries + Cardinality(Retried) <= Cardinality(FailedFirst)
RetriesAreSent == \A b \in Beats : beat[b] = "unused" => ~retry[b]
LateAreRetries == \A b \in late : retry[b]

Stations == {"unused", "sent", "taken", "refused", "over"}

BeatInv ==
  /\ running \in BOOLEAN /\ gone \in BOOLEAN /\ invalid \in BOOLEAN
  /\ leaving \in BOOLEAN /\ exited \in BOOLEAN
  /\ beat \in [Beats -> Stations] /\ retry \in [Beats -> BOOLEAN]
  /\ retries \in Nat /\ goodbye \in {"no", "sent", "over"} /\ paired \in BOOLEAN
  /\ late \in SUBSET Beats
  /\ Paid /\ RetriesAreSent /\ LateAreRetries

LEMMA CountBeats ==
  ASSUME NEW S, S \subseteq Beats
  PROVE  /\ IsFiniteSet(S) /\ Cardinality(S) \in Nat /\ Cardinality(S) <= Cardinality(Beats)
         /\ \A b \in Beats : b \notin S => Cardinality(S \cup {b}) = Cardinality(S) + 1
<1>1. IsFiniteSet(Beats)
  BY LinkAssumption
<1>2. IsFiniteSet(S) /\ Cardinality(S) <= Cardinality(Beats)
  BY <1>1, FS_Subset
<1>3. QED
  BY <1>2, FS_AddElement, FS_CardinalityType

LEMMA BeatsInit == HB!Init => BeatInv
<1> SUFFICES ASSUME HB!Init PROVE BeatInv
  OBVIOUS
<1>1. Retried = {} /\ FailedFirst = {}
  BY DEF HB!Init, Retried, FailedFirst
<1>2. Cardinality({}) = 0
  BY FS_EmptySet
<1>3. beat \in [Beats -> Stations] /\ retry \in [Beats -> BOOLEAN]
  BY DEF HB!Init, Stations
<1>4. Paid
  BY <1>1, <1>2 DEF HB!Init, Paid
<1>5. QED
  BY <1>3, <1>4 DEF HB!Init, BeatInv, RetriesAreSent, LateAreRetries

(* sendHeartbeat: a beat that goes out is counted as a retry if it is one. *)
LEMMA FirstSent ==
  ASSUME BeatInv, NEW b \in Beats, HB!Send(b, FALSE), running'
  PROVE  /\ beat' \in [Beats -> Stations] /\ retry' \in [Beats -> BOOLEAN]
         /\ late' \in SUBSET Beats /\ RetriesAreSent' /\ LateAreRetries'
         /\ FailedFirst' = FailedFirst /\ Retried' = Retried
BY DEF HB!Send, BeatInv, RetriesAreSent, LateAreRetries, Stations, FailedFirst, Retried

LEMMA RetrySent ==
  ASSUME BeatInv, NEW b \in Beats, HB!Send(b, TRUE)
  PROVE  /\ beat' \in [Beats -> Stations] /\ retry' \in [Beats -> BOOLEAN]
         /\ late' \in SUBSET Beats /\ RetriesAreSent' /\ LateAreRetries'
         /\ FailedFirst' = FailedFirst /\ Cardinality(Retried') = Cardinality(Retried) + 1
<1>1. Retried' = Retried \cup {b} /\ b \notin Retried
  BY DEF HB!Send, BeatInv, RetriesAreSent, Retried
<1>2. Retried \subseteq Beats
  BY DEF Retried
<1>3. Cardinality(Retried') = Cardinality(Retried) + 1
  BY <1>1, <1>2, CountBeats
<1>4. QED
  BY <1>3 DEF HB!Send, BeatInv, RetriesAreSent, LateAreRetries, Stations, FailedFirst

LEMMA BeatOver ==
  ASSUME BeatInv, NEW b \in Beats, beat[b] \notin {"unused", "over"},
         beat' = [beat EXCEPT ![b] = "over"], UNCHANGED retry
  PROVE  /\ beat' \in [Beats -> Stations] /\ RetriesAreSent' /\ Retried' = Retried
         /\ retry[b] => FailedFirst' = FailedFirst
         /\ ~retry[b] => Cardinality(FailedFirst') = Cardinality(FailedFirst) + 1
<1>1. retry[b] => FailedFirst' = FailedFirst
  BY DEF BeatInv, FailedFirst
<1>2. ~retry[b] => FailedFirst' = FailedFirst \cup {b} /\ b \notin FailedFirst
  BY DEF BeatInv, FailedFirst
<1>3. FailedFirst \subseteq Beats
  BY DEF FailedFirst
<1>4. ~retry[b] => Cardinality(FailedFirst') = Cardinality(FailedFirst) + 1
  BY <1>2, <1>3, CountBeats
<1>5. QED
  BY <1>1, <1>4 DEF BeatInv, RetriesAreSent, Retried, Stations

LEMMA PaidTypes ==
  /\ Cardinality(Retried) \in Nat /\ Cardinality(FailedFirst) \in Nat
BY CountBeats DEF Retried, FailedFirst

LEMMA BeatStep ==
  ASSUME BeatInv,
         NEW b \in Beats,
         \/ HB!Start(b) \/ HB!Tick(b) \/ HB!RetryFires(b) \/ HB!Reaches(b) \/ HB!BeatFails(b)
         \/ HB!BeatAnswered(b) \/ HB!SessionGone(b)
  PROVE  BeatInv'
<1>1. CASE HB!Start(b) \/ HB!Tick(b)
  <2>1. /\ HB!Send(b, FALSE) /\ running' /\ UNCHANGED <<retries, paired, goodbye>>
        /\ running' \in BOOLEAN /\ UNCHANGED <<gone, invalid, leaving, exited>>
    BY <1>1 DEF HB!Start, HB!Tick, HB!Beating, HB!cli, BeatInv
  <2>2. QED
    BY <2>1, FirstSent, PaidTypes DEF BeatInv, Paid
<1>2. CASE HB!RetryFires(b)
  <2>1. /\ retries > 0 /\ retries' = retries - 1
        /\ UNCHANGED <<running, gone, invalid, leaving, exited, goodbye, paired>>
    BY <1>2 DEF HB!RetryFires, HB!cli
  <2>2. CASE HB!Send(b, TRUE)
    <3>a. Cardinality(Retried') = Cardinality(Retried) + 1 /\ FailedFirst' = FailedFirst
      BY <2>2, RetrySent
    <3>b. retries \in Nat /\ retries + Cardinality(Retried) <= Cardinality(FailedFirst)
      BY DEF BeatInv, Paid
    <3>1. Paid' /\ retries' \in Nat
      BY <2>1, <3>a, <3>b, PaidTypes DEF Paid
    <3>2. QED
      BY <2>1, <2>2, <3>1, RetrySent DEF BeatInv
  <2>3. CASE UNCHANGED <<beat, retry, late>>
    <3>1. Retried' = Retried /\ FailedFirst' = FailedFirst
      BY <2>3 DEF Retried, FailedFirst
    <3>2. QED
      BY <2>1, <2>3, <3>1, PaidTypes DEF BeatInv, Paid, RetriesAreSent, LateAreRetries
  <2>4. QED
    BY <1>2, <2>2, <2>3 DEF HB!RetryFires
<1>3. CASE HB!Reaches(b)
  <2>1. /\ beat[b] = "sent" /\ beat' = [beat EXCEPT ![b] = IF paired THEN "taken" ELSE "refused"]
        /\ UNCHANGED <<running, gone, invalid, leaving, exited, retry, retries, goodbye, paired, late>>
    BY <1>3 DEF HB!Reaches, HB!cli
  <2>2. Retried' = Retried /\ FailedFirst' = FailedFirst
    BY <2>1 DEF BeatInv, Retried, FailedFirst
  <2>3. beat' \in [Beats -> Stations] /\ RetriesAreSent'
    BY <2>1 DEF BeatInv, RetriesAreSent, Stations
  <2>4. QED
    BY <2>1, <2>2, <2>3 DEF BeatInv, Paid, LateAreRetries
<1>4. CASE HB!BeatFails(b) \/ HB!BeatAnswered(b)
  <2>1. /\ beat[b] \notin {"unused", "over"} /\ beat' = [beat EXCEPT ![b] = "over"]
        /\ UNCHANGED <<running, gone, invalid, leaving, exited, retry, goodbye, paired, late>>
        /\ retries' = retries \/ (~retry[b] /\ retries' = retries + 1)
    BY <1>4 DEF HB!BeatFails, HB!BeatAnswered, HB!cli, HB!Armed, HB!TriesAgain
  <2>a. /\ Retried' = Retried
        /\ retry[b] => FailedFirst' = FailedFirst
        /\ ~retry[b] => Cardinality(FailedFirst') = Cardinality(FailedFirst) + 1
    BY <2>1, BeatOver
  <2>b. retries \in Nat /\ retries + Cardinality(Retried) <= Cardinality(FailedFirst)
    BY DEF BeatInv, Paid
  <2>2. Paid' /\ retries' \in Nat
    BY <2>1, <2>a, <2>b, PaidTypes DEF Paid
  <2>3. LateAreRetries'
    BY <2>1 DEF BeatInv, LateAreRetries
  <2>4. QED
    BY <2>1, <2>2, <2>3, BeatOver DEF BeatInv
<1>5. CASE HB!SessionGone(b)
  <2>1. /\ beat[b] \notin {"unused", "over"} /\ beat' = [beat EXCEPT ![b] = "over"]
        /\ UNCHANGED <<invalid, exited, retry, retries, paired, late>>
        /\ gone' /\ leaving' /\ ~running' /\ gone' \in BOOLEAN /\ leaving' \in BOOLEAN
        /\ running' \in BOOLEAN /\ goodbye' \in {"no", "sent", "over"}
    BY <1>5 DEF HB!SessionGone, HB!StopAndFlush, BeatInv
  <2>a. /\ Retried' = Retried
        /\ retry[b] => FailedFirst' = FailedFirst
        /\ ~retry[b] => Cardinality(FailedFirst') = Cardinality(FailedFirst) + 1
    BY <2>1, BeatOver
  <2>b. retries \in Nat /\ retries + Cardinality(Retried) <= Cardinality(FailedFirst)
    BY DEF BeatInv, Paid
  <2>2. Paid' /\ retries' \in Nat
    BY <2>1, <2>a, <2>b, PaidTypes DEF Paid
  <2>3. LateAreRetries'
    BY <2>1 DEF BeatInv, LateAreRetries
  <2>4. QED
    BY <2>1, <2>2, <2>3, BeatOver DEF BeatInv
<1>6. QED
  BY <1>1, <1>2, <1>3, <1>4, <1>5

(* A step that sends no beat and ends none. *)
LEMMA BeatsRest ==
  ASSUME BeatInv, UNCHANGED <<beat, retry, late>>, retries' \in {0, retries},
         running' \in BOOLEAN, gone' \in BOOLEAN, invalid' \in BOOLEAN, leaving' \in BOOLEAN,
         exited' \in BOOLEAN, goodbye' \in {"no", "sent", "over"}, paired' \in BOOLEAN
  PROVE  BeatInv'
<1>1. Retried' = Retried /\ FailedFirst' = FailedFirst
  BY DEF Retried, FailedFirst
<1>2. QED
  BY <1>1, PaidTypes DEF BeatInv, Paid, RetriesAreSent, LateAreRetries

LEMMA StoppingStep ==
  ASSUME BeatInv, HB!PairingInvalid \/ HB!Shutdown \/ HB!Exit \/ HB!Goodbye \/ HB!Unpair
  PROVE  BeatInv'
<1>1. /\ UNCHANGED <<beat, retry, late>> /\ retries' \in {0, retries}
      /\ running' \in BOOLEAN /\ gone' \in BOOLEAN /\ invalid' \in BOOLEAN
      /\ leaving' \in BOOLEAN /\ exited' \in BOOLEAN
      /\ goodbye' \in {"no", "sent", "over"} /\ paired' \in BOOLEAN
  BY DEF BeatInv, HB!PairingInvalid, HB!Shutdown, HB!Exit, HB!Goodbye, HB!Unpair,
     HB!StopAndFlush, HB!cli
<1>2. QED
  BY <1>1, BeatsRest

-----------------------------------------------------------------------------
(* The two with the relay's _running between them. *)
PresenceInv == AnnounceInv /\ BeatInv

LEMMA PresenceStep == PresenceInv /\ [PresenceNext]_presence => PresenceInv'
<1> SUFFICES ASSUME PresenceInv, [PresenceNext]_presence PROVE PresenceInv'
  OBVIOUS
<1> USE DEF PresenceInv
<1>1. CASE StartRelay
  BY <1>1, AnnounceStep, BeatStep DEF StartRelay
<1>2. ASSUME NEW p \in Posts, Announce(p) PROVE PresenceInv'
  <2>1. UNCHANGED beatVars /\ UNCHANGED running
    BY <1>2 DEF Announce, Switch, TimerFires, Lands, Succeeds, Fails
  <2>2. BeatInv'
    BY <2>1, BeatsRest DEF beatVars, BeatInv
  <2>3. QED
    BY <1>2, <2>2, AnnounceStep DEF Announce
<1>3. CASE /\ (\E b \in Beats : Beat(b)) \/ Stopping \/ HB!Unpair
           /\ UNCHANGED announceVars
  <2>1. BeatInv'
    BY <1>3, BeatStep, StoppingStep DEF Beat, Stopping
  <2>2. QED
    BY <1>3, <2>1, AnnounceRests DEF BeatInv
<1>4. CASE UNCHANGED presence
  <2>1. UNCHANGED announceVars /\ UNCHANGED beatVars /\ UNCHANGED running
    BY <1>4 DEF presence
  <2>2. BeatInv'
    BY <2>1, BeatsRest DEF beatVars, BeatInv
  <2>3. QED
    BY <2>1, <2>2, AnnounceRests DEF BeatInv
<1>5. QED
  BY <1>1, <1>2, <1>3, <1>4 DEF PresenceNext


-----------------------------------------------------------------------------
(* The three together. *)
RelayInv == ChannelInv /\ LadderInv /\ MirrorInv /\ PresenceInv

LEMMA RelayStart == RelayInit => RelayInv
BY ChannelInit, LadderInit, MirrorInit, AnnounceInit, BeatsInit
DEF RelayInit, RelayInv, PresenceInit, PresenceInv

LEMMA RelayStep == RelayInv /\ [RelayNext]_relayVars => RelayInv'
<1> SUFFICES ASSUME RelayInv, [RelayNext]_relayVars PROVE RelayInv'
  OBVIOUS
<1>1. ASSUME UNCHANGED channelVars PROVE ChannelInv'
  BY <1>1 DEF RelayInv, channelVars, ChannelInv, Channel!TypeOK, Channel!AlwaysAWayBack, Channel!Talking,
     PollingIsCounted, ResetHasCounted, OneWay
<1>l. ASSUME UNCHANGED channelVars PROVE LadderInv'
  BY <1>l DEF RelayInv, channelVars, LadderInv, OnFirstRung
<1>2. ASSUME UNCHANGED mirrorVars PROVE MirrorInv'
  BY <1>2 DEF RelayInv, mirrorVars, MirrorInv, Mirror!TypeOK, MirrorIsLocal, ReadOn, Once, NotAhead
<1>p. ASSUME UNCHANGED presence PROVE PresenceInv'
  BY <1>p, PresenceStep DEF RelayInv
<1>3. CASE ChannelMoves
  <2>1. ChannelInv' /\ LadderInv'
    BY <1>3, ChannelTypes, WaysKept, LadderStep DEF RelayInv, ChannelMoves, ChannelInv, Ways
  <2>2. QED
    BY <1>2, <1>3, <1>p, <2>1 DEF ChannelMoves, RelayInv
<1>4. CASE MirrorMoves
  BY <1>1, <1>4, <1>l, <1>p, MirrorStep DEF MirrorMoves, RelayInv
<1>5. CASE PresenceMoves
  BY <1>1, <1>2, <1>5, <1>l, PresenceStep DEF PresenceMoves, RelayInv
<1>6. CASE UNCHANGED relayVars
  BY <1>1, <1>2, <1>6, <1>l, <1>p DEF relayVars, RelayInv
<1>7. QED
  BY <1>3, <1>4, <1>5, <1>6 DEF RelayNext

LEMMA RelayInvariant == RelaySpec => []RelayInv
BY RelayStart, RelayStep, PTL DEF RelaySpec

(* The cardinality that the parts use is the one of the library's theorems. *)
LEMMA SameCardinality ==
  \A S : /\ Channel!Cardinality(S) = Cardinality(S) /\ Mirror!Cardinality(S) = Cardinality(S)
         /\ HB!Cardinality(S) = Cardinality(S)
<1>1. \A S : Channel!Cardinality(S) = Cardinality(S)
  BY DEF Channel!Cardinality, Cardinality
<1>2. \A S : Mirror!Cardinality(S) = Cardinality(S)
  BY DEF Mirror!Cardinality, Cardinality
<1>3. \A S : HB!Cardinality(S) = Cardinality(S)
  BY DEF HB!Cardinality, Cardinality
<1>4. QED
  BY <1>1, <1>2, <1>3

(* However requests fail, the relay has one way back to the backend, with the
   watchdog on the stream that is open, unless a request reported twice. *)
THEOREM OneWayBack == RelaySpec => []SingleChannel
<1>1. RelayInv => SingleChannel
  <2> SUFFICES ASSUME ChannelInv PROVE Channel!SingleChannel
    BY DEF RelayInv, SingleChannel
  <2> SUFFICES ASSUME streaming, ~doubled
               PROVE  /\ Channel!Talking \subseteq {current}
                      /\ Cardinality(Channel!Talking) + timer + loops <= 1
                      /\ (\E i \in Conns : conn[i] = "open") => watchdog
    BY SameCardinality DEF Channel!SingleChannel
  <2>1. timer \in 0..1 /\ loops \in 0..2
    BY DEF ChannelInv, Channel!TypeOK
  <2>2. CASE Channel!Talking = {}
    BY <2>1, <2>2, FS_EmptySet DEF ChannelInv, OneWay
  <2>3. CASE Channel!Talking = {current} /\ timer = 0 /\ loops = 0
    <3>1. Cardinality(Channel!Talking) = 1
      BY <2>3, FS_Singleton
    <3>2. QED
      BY <2>3, <3>1 DEF ChannelInv, OneWay
  <2>4. QED
    BY <2>2, <2>3 DEF ChannelInv, OneWay
<1>2. QED
  BY <1>1, RelayInvariant, PTL

(* None of its failure paths leaves the relay deaf. *)
THEOREM NeverDeaf == RelaySpec => []Channel!AlwaysAWayBack
BY RelayInvariant, PTL DEF RelayInv, ChannelInv

LEMMA SizeOfDistinct ==
  ASSUME NEW S, NEW s \in Seq(S), \A i, j \in 1..Len(s) : s[i] = s[j] => i = j
  PROVE  Cardinality({s[i] : i \in DOMAIN s}) = Len(s)
<1> DEFINE T == {s[i] : i \in DOMAIN s}
<1>1. /\ Len(s) \in Nat /\ DOMAIN s = 1..Len(s) /\ s \in [1..Len(s) -> S]
  BY LenProperties
<1>2. s \in [1..Len(s) -> T]
  BY <1>1
<1>3. s \in Surjection(1..Len(s), T)
  BY <1>1, <1>2 DEF Surjection
<1>4. s \in Injection(1..Len(s), T)
  BY <1>2 DEF Injection, IsInjective
<1>5. ExistsBijection(1..Len(s), T)
  BY <1>3, <1>4 DEF ExistsBijection, Bijection
<1>6. QED
  BY <1>1, <1>5, FS_CountingElements

(* No turn is shown live twice, by two mirrors or by a mirror and the adapter, unless
   a transcript could not be read as a mirror started. *)
THEOREM TurnsShownOnce == RelaySpec => []ShownOnce
<1>1. RelayInv => ShownOnce
  <2> SUFFICES ASSUME RelayInv, ~unread PROVE Mirror!ShownOnce
    BY DEF ShownOnce, Mirror!ShownOnce
  <2> SUFFICES ASSUME NEW k \in Mirror!Mirrors
               PROVE  /\ Mirror!Pending(k) \cap live = {}
                      /\ Cardinality(Mirror!Pending(k)) = Len(chain[k])
                      /\ \A l \in Mirror!Mirrors \ {k} :
                           Mirror!Pending(k) \cap Mirror!Pending(l) = {}
    BY SameCardinality DEF Mirror!ShownOnce
  <2> Mirror!TypeOK /\ Once
    BY DEF RelayInv, MirrorInv
  <2>1. \A l \in Mirror!Mirrors : /\ chain[l] \in Seq(Mirror!Turns)
                                  /\ Mirror!Pending(l) = {chain[l][i] : i \in DOMAIN chain[l]}
                                  /\ DOMAIN chain[l] = 1..Len(chain[l])
    BY LenProperties DEF Mirror!Pending, Mirror!ToSet, Mirror!TypeOK
  <2>2. Cardinality(Mirror!Pending(k)) = Len(chain[k])
    <3>1. \A i, j \in 1..Len(chain[k]) : chain[k][i] = chain[k][j] => i = j
      BY DEF Once
    <3>2. QED
      BY <2>1, <3>1, SizeOfDistinct
  <2>3. Mirror!Pending(k) \cap live = {}
    BY <2>1 DEF Once
  <2>4. \A l \in Mirror!Mirrors \ {k} : Mirror!Pending(k) \cap Mirror!Pending(l) = {}
    BY <2>1 DEF Once
  <2>5. QED
    BY <2>2, <2>3, <2>4
<1>2. QED
  BY <1>1, RelayInvariant, PTL

(* A relay that has fallen back to polling has left the stream host for the api host
   before, or was refused by it. *)
THEOREM PollsLast == RelaySpec => []Channel!PollsOnlyAfterApi
<1>1. RelayInv => Channel!PollsOnlyAfterApi
  BY DEF RelayInv, ChannelInv, Channel!TypeOK, LadderInv, OnFirstRung, Channel!PollsOnlyAfterApi
<1>2. QED
  BY <1>1, RelayInvariant, PTL

(* Every retry of a beat has a first beat of its own that failed, and none but a
   retry goes out once the relay has stopped. *)
LEMMA BeatsAreBounded == BeatInv => BeatsBounded
<1>1. /\ HB!Cardinality(Retried) = Cardinality(Retried)
      /\ HB!Cardinality(FailedFirst) = Cardinality(FailedFirst)
  BY SameCardinality
<1>2. QED
  BY <1>1 DEF BeatInv, Paid, LateAreRetries, BeatsBounded, HB!BeatsBounded, Retried, FailedFirst

THEOREM RetriesAreBounded == RelaySpec => []BeatsBounded
<1>1. RelayInv => BeatsBounded
  BY BeatsAreBounded DEF RelayInv, PresenceInv
<1>2. QED
  BY <1>1, RelayInvariant, PTL

(* The latch of the announcement is set only when the backend knows the agent that
   runs, unless a POST of before a switch overlapped it. *)
THEOREM LatchMeansKnown == RelaySpec => []LatchedMeansKnown
BY RelayInvariant, PTL DEF RelayInv, PresenceInv, AnnounceInv

(* What the parts' states are, with all of the above: the type invariant of the
   sum. *)
THEOREM TypeCorrect == RelaySpec => []RelayTypeOK
<1>1. RelayInv => RelayTypeOK
  <2> SUFFICES ASSUME RelayInv PROVE RelayTypeOK
    OBVIOUS
  <2>1. HB!TypeOK
    <3>1. retries \in 0..HB!Cardinality(Beats)
      <4>1. Cardinality(FailedFirst) <= Cardinality(Beats) /\ Cardinality(Beats) \in Nat
        BY CountBeats DEF FailedFirst
      <4>2. retries \in Nat /\ retries + Cardinality(Retried) <= Cardinality(FailedFirst)
        BY DEF RelayInv, PresenceInv, BeatInv, Paid
      <4>3. retries \in 0..Cardinality(Beats)
        BY <4>1, <4>2, PaidTypes
      <4>4. QED
        BY <4>3, SameCardinality
    <3>2. QED
      BY <3>1 DEF RelayInv, PresenceInv, BeatInv, HB!TypeOK, Stations
  <2>2. TypeOK /\ LatchedMeansKnown /\ BeatsBounded
    BY BeatsAreBounded DEF RelayInv, PresenceInv, AnnounceInv
  <2>3. Channel!TypeOK /\ Channel!AlwaysAWayBack /\ Mirror!TypeOK
    BY DEF RelayInv, ChannelInv, MirrorInv
  <2>4. Channel!PollsOnlyAfterApi
    BY DEF RelayInv, ChannelInv, Channel!TypeOK, LadderInv, OnFirstRung, Channel!PollsOnlyAfterApi
  <2>5. QED
    BY <2>1, <2>2, <2>3, <2>4 DEF RelayTypeOK
<1>2. QED
  BY <1>1, RelayInvariant, PTL
=============================================================================
