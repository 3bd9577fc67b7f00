--------------------------- MODULE HostAgent_proof ---------------------------
(***************************************************************************)
(* Proofs about HostAgent for any set of deploys and any number of         *)
(* commands and restarts.  Deploys do not disturb each other, so the       *)
(* invariant is a property of one deploy: a child that is to return is     *)
(* there or being recovered, unless the deploy is homeless, which has no   *)
(* child; a deploy stopped with nothing pending has                        *)
(* nothing pending, and every failure since a healthy child is counted in  *)
(* the attempts until it is posted.                                        *)
(***************************************************************************)
EXTENDS HostAgent, FiniteSetTheorems, TLAPS

Known == [child : {"none", "deploy", "resume"}, age : {"young", "up", "healthy"},
           att : 0..Retries, armed : BOOLEAN, exh : BOOLEAN, posted : BOOLEAN, timers : Nat,
           repl : BOOLEAN, refr : BOOLEAN, depl : BOOLEAN, lost : Nat, told : Nat]

Returns(r, needed, homeless) ==
  /\ needed => r.child # "none" \/ Recovering(r) \/ homeless
  /\ homeless => r.child = "none"
Rests(r, stopped) == stopped = "clean" => r.child = "none" /\ ~Recovering(r) /\ ~r.depl
Counted(r, failures) ==
  /\ r.posted \/ failures <= r.att
  /\ r.child # "none" /\ r.age = "healthy" => failures = 0

Fine(d) == Returns(h[d], need[d], Homeless(d)) /\ Rests(h[d], stop[d]) /\ Counted(h[d], fails[d])

(* A host that is down forgets what was asked of it. *)
DownForgets ==
  host # "up" => \A d \in Deploys : stop[d] = "no" /\ ~need[d] /\ fails[d] = 0

IInv == TypeOK /\ DownForgets /\ \A d \in Deploys : Fine(d)

-----------------------------------------------------------------------------
(* What the operations do to the record of a deploy. *)
SameBudget(q, r) == q.att = r.att /\ q.posted = r.posted /\ q.exh = r.exh

LEMMA Deploy0Fine ==
  Deploy0 \in Known /\ ~Recovering(Deploy0) /\ Deploy0.child = "none" /\ ~Deploy0.depl
  /\ Deploy0.att = 0
BY HostAssumption DEF Deploy0, Known, Recovering

LEMMA TrackedDoes ==
  ASSUME NEW r \in Known, NEW kind \in {"deploy", "resume"}
  PROVE  LET q == Tracked(r, kind) IN
           q \in Known /\ q.child = kind /\ q.age = "young" /\ SameBudget(q, r)
<1>1. r.lost + 1 \in Nat
  BY DEF Known
<1>2. CASE r.child = "none"
  BY <1>2 DEF Tracked, Known, SameBudget
<1>3. CASE r.child # "none"
  BY <1>1, <1>3 DEF Tracked, Known, SameBudget
<1>4. QED
  BY <1>2, <1>3

LEMMA UntrackedDoes ==
  ASSUME NEW r \in Known
  PROVE  LET q == Untracked(r) IN
           /\ q \in Known /\ q.child = "none" /\ q.depl = r.depl /\ SameBudget(q, r)
           /\ Recovering(q) <=> Recovering(r)
BY DEF Untracked, Known, SameBudget, Recovering

LEMMA KilledDoes ==
  ASSUME NEW r \in Known
  PROVE  LET q == Killed(r) IN
           /\ q \in Known /\ q.child = "none" /\ q.depl = r.depl /\ SameBudget(q, r)
           /\ Recovering(q) <=> Recovering(r)
<1> DEFINE u == Untracked(r)
<1>1. /\ u \in Known /\ u.child = "none" /\ u.depl = r.depl /\ SameBudget(u, r)
      /\ Recovering(u) <=> Recovering(r)
  BY UntrackedDoes
<1>2. CASE r.child = "resume"
  <2>1. u.told + 1 \in Nat
    BY <1>1 DEF Known
  <2>2. Killed(r) = [u EXCEPT !.told = u.told + 1]
    BY <1>1, <1>2 DEF Killed, Known
  <2> HIDE DEF u
  <2>3. QED
    BY <1>1, <2>1, <2>2 DEF Known, SameBudget, Recovering
<1>3. CASE r.child # "resume"
  <2>1. Killed(r) = [u EXCEPT !.told = u.told]
    BY <1>1, <1>3 DEF Killed, Known
  <2> HIDE DEF u
  <2>2. QED
    BY <1>1, <2>1 DEF Known, SameBudget, Recovering
<1>4. QED
  BY <1>2, <1>3

(* A step towards a child for d, from r to q: there is one, or what will bring it. *)
Comes(d, q, r) ==
  /\ q.child # "none" \/ Recovering(q) \/ Homeless(d)
  /\ SameBudget(q, r)
  /\ (q.child = r.child /\ q.age = r.age) \/ (q.age = "young" /\ ~Homeless(d))

LEMMA SpawnNowDoes ==
  ASSUME NEW d \in Deploys, NEW r \in Known
  PROVE  SpawnNow(d, r) \in Known /\ Comes(d, SpawnNow(d, r), r)
BY TrackedDoes DEF SpawnNow, SameBudget, Comes

LEMMA SpawnResumeDoes ==
  ASSUME NEW d \in Deploys, NEW r \in Known, NEW stale
  PROVE  SpawnResume(d, r, stale) \in Known /\ Comes(d, SpawnResume(d, r, stale), r)
<1>1. CASE r.child # "none" \/ r.refr
  BY <1>1 DEF SpawnResume, SameBudget, Comes, Recovering
<1>2. CASE ~(r.child # "none" \/ r.refr) /\ stale
  BY <1>2 DEF SpawnResume, SameBudget, Known, Comes, Recovering
<1>3. CASE ~(r.child # "none" \/ r.refr) /\ ~stale
  BY <1>3, SpawnNowDoes DEF SpawnResume
<1>4. QED
  BY <1>1, <1>2, <1>3

LEMMA ResumeOneDoes ==
  ASSUME NEW d \in Deploys, NEW r \in Known, NEW stale
  PROVE  ResumeOne(d, r, stale) \in Known /\ Comes(d, ResumeOne(d, r, stale), r)
<1>1. CASE r.child # "none" \/ r.repl \/ r.refr
  BY <1>1 DEF ResumeOne, SameBudget, Recovering, Comes
<1>2. CASE ~(r.child # "none" \/ r.repl \/ r.refr) /\ d \in orphan
  BY <1>2 DEF ResumeOne, SameBudget, Recovering, Known, Comes
<1>3. CASE ~(r.child # "none" \/ r.repl \/ r.refr) /\ d \notin orphan
  BY <1>3, SpawnResumeDoes DEF ResumeOne
<1>4. QED
  BY <1>1, <1>2, <1>3

LEMMA ChildDiedDoes ==
  ASSUME NEW r \in Known
  PROVE  LET q == ChildDied(r) IN
           /\ q \in Known /\ Recovering(q) /\ q.child = r.child /\ q.age = r.age
           /\ q.posted \/ (q.att = r.att + 1 /\ q.posted = r.posted)
<1>1. CASE r.att < Retries
  <2>1. r.att + 1 \in 0..Retries /\ r.timers + 1 \in Nat /\ r.timers + 1 > 0
    BY <1>1, HostAssumption DEF Known
  <2>2. QED
    BY <1>1, <2>1 DEF ChildDied, Known, Recovering
<1>2. CASE ~(r.att < Retries)
  BY <1>2 DEF ChildDied, FailsLoudly, Known, Recovering
<1>3. QED
  BY <1>1, <1>2

LEMMA FiredDoes ==
  ASSUME NEW r \in Known, r.timers > 0
  PROVE  Fired(r) \in Known /\ SameBudget(Fired(r), r)
         /\ Fired(r).child = r.child /\ Fired(r).age = r.age
<1>1. r.timers - 1 \in Nat
  BY DEF Known
<1>2. QED
  BY <1>1 DEF Fired, Known, SameBudget

-----------------------------------------------------------------------------
(* A step changes the record of one deploy to q, or each to one of its own. *)
LEMMA BecomesTypes ==
  ASSUME TypeOK, NEW f \in [Deploys -> Known], Becomes(f)
  PROVE  h' \in [Deploys -> Known] /\ store' \subseteq Deploys
BY DEF TypeOK, Becomes, Mirrored, Live

LEMMA WithTypes ==
  ASSUME TypeOK, NEW d \in Deploys, NEW q \in Known
  PROVE  /\ With(d, q) \in [Deploys -> Known] /\ With(d, q)[d] = q
         /\ \A e \in Deploys \ {d} : With(d, q)[e] = h[e]
BY DEF TypeOK, With, Known

(* The step of one deploy, which becomes q, keeps the invariant when it leaves that
   deploy fine. *)
Others(d) ==
  \A e \in Deploys \ {d} :
    /\ need'[e] = need[e] /\ stop'[e] = stop[e] /\ fails'[e] = fails[e]
    /\ Homeless(e)' = Homeless(e)

HistoryOK ==
  /\ need' \in [Deploys -> BOOLEAN] /\ stop' \in [Deploys -> {"no", "clean", "dirty"}]
  /\ fails' \in [Deploys -> 0..Retries + 1] /\ alive' = alive

WorldOK ==
  /\ paired' \subseteq Deploys /\ workspace' \subseteq Deploys /\ orphan' \subseteq Deploys
  /\ host = "up" /\ host' = "up" /\ commands' \in 0..MaxCommands /\ deaths' = deaths
  /\ wrapper' \in BOOLEAN

LEMMA OneDeploy ==
  ASSUME IInv, NEW d \in Deploys, NEW q \in Known,
         h' = With(d, q), store' = store \/ store' = Mirrored(With(d, q)),
         Others(d), HistoryOK, WorldOK,
         Returns(q, need'[d], Homeless(d)'), Rests(q, stop'[d]), Counted(q, fails'[d])
  PROVE  IInv'
<1>1. /\ h' \in [Deploys -> Known] /\ h'[d] = q
      /\ \A e \in Deploys \ {d} : h'[e] = h[e]
  BY WithTypes DEF IInv
<1>2. store' \subseteq Deploys
  BY DEF IInv, TypeOK, Mirrored, Live
<1>3. TypeOK'
  BY <1>1, <1>2 DEF IInv, TypeOK, Known, HistoryOK, WorldOK
<1>4. ASSUME NEW e \in Deploys PROVE Fine(e)'
  <2>1. CASE e = d
    BY <1>1, <2>1 DEF Fine
  <2>2. CASE e # d
    BY <1>1, <2>2 DEF Fine, IInv, Others
  <2>3. QED
    BY <2>1, <2>2
<1>5. QED
  BY <1>3, <1>4 DEF IInv, DownForgets, WorldOK

(* The steps after which nothing is asked of a deploy change only this. *)
LEMMA HistorySame ==
  ASSUME TypeOK, UNCHANGED <<need, stop, fails, alive>>, UNCHANGED <<workspace, wrapper>>
  PROVE  HistoryOK /\ \A d \in Deploys : Others(d) /\ Homeless(d)' = Homeless(d)
BY DEF TypeOK, HistoryOK, Others, Homeless

-----------------------------------------------------------------------------
(* The commands of the app and the life of a child. *)
LEMMA DeploySteps ==
  ASSUME IInv, NEW d \in Deploys, DeployStep(d)
  PROVE  IInv'
<1>0. /\ TypeOK /\ h \in [Deploys -> Known] /\ h[d] \in Known /\ Fine(d)
      /\ need[d] \in BOOLEAN /\ stop[d] \in {"no", "clean", "dirty"} /\ fails[d] \in 0..Retries + 1
      /\ commands \in 0..MaxCommands
  BY DEF IInv, TypeOK, Known
<1>c. ASSUME Command PROVE commands' \in 0..MaxCommands
  BY <1>0, <1>c, HostAssumption DEF Command
<1>1. CASE Deploy(d)
  <2> DEFINE q == [h[d] EXCEPT !.depl = TRUE]
  <2>1. q \in Known /\ (Recovering(q) <=> Recovering(h[d]))
    BY <1>0 DEF Known, Recovering
  <2>2. h' = With(d, q) /\ store' = Mirrored(With(d, q)) /\ stop'[d] = "no"
    BY <1>0, <1>1 DEF Deploy, Becomes, TypeOK
  <2>3. HistoryOK /\ Others(d) /\ WorldOK
    BY <1>0, <1>1, <1>c DEF Deploy, Command, TypeOK, HistoryOK, Others, Homeless, WorldOK, env
  <2>4. Returns(q, need'[d], Homeless(d)') /\ Rests(q, stop'[d]) /\ Counted(q, fails'[d])
    BY <1>0, <1>1, <2>1, <2>2 DEF Deploy, Fine, Returns, Homeless, env, Rests, Counted, Known
  <2> HIDE DEF q
  <2>5. QED
    BY <2>1, <2>2, <2>3, <2>4, OneDeploy
<1>2. CASE DeploySpawns(d)
  <2> DEFINE p == [h[d] EXCEPT !.depl = FALSE]
             q == Tracked(p, "deploy")
  <2>1. p \in Known /\ SameBudget(p, h[d])
    BY <1>0 DEF Known, SameBudget
  <2>2. q \in Known /\ q.child = "deploy" /\ q.age = "young" /\ SameBudget(q, p)
    BY <2>1, TrackedDoes
  <2>3. h' = With(d, q) /\ store' = Mirrored(With(d, q)) /\ ~need'[d]
    BY <1>0, <1>2 DEF DeploySpawns, Becomes, TypeOK
  <2>4. HistoryOK /\ Others(d) /\ WorldOK
    BY <1>0, <1>2 DEF DeploySpawns, TypeOK, HistoryOK, Others, Homeless, WorldOK, bounds
  <2>5. stop[d] # "clean"
    BY <1>0, <1>2 DEF DeploySpawns, Fine, Rests
  <2> HIDE DEF p, q
  <2>6. Returns(q, need'[d], Homeless(d)') /\ Rests(q, stop'[d]) /\ Counted(q, fails'[d])
    BY <1>0, <1>2, <2>1, <2>2, <2>3, <2>5
       DEF DeploySpawns, Fine, Returns, Homeless, env, Rests, Counted, SameBudget
  <2>7. QED
    BY <2>2, <2>3, <2>4, <2>6, OneDeploy
<1>3. CASE DeployFails(d)
  <2> DEFINE p == [h[d] EXCEPT !.depl = FALSE]
             q == Killed(p)
  <2>1. p \in Known /\ SameBudget(p, h[d]) /\ (Recovering(p) <=> Recovering(h[d]))
    BY <1>0 DEF Known, SameBudget, Recovering
  <2>2. q \in Known /\ q.child = "none" /\ SameBudget(q, p)
    BY <2>1, KilledDoes
  <2>3. h' = With(d, q) /\ store' = Mirrored(With(d, q)) /\ ~need'[d]
    BY <1>0, <1>3 DEF DeployFails, Becomes, TypeOK
  <2>4. HistoryOK /\ Others(d) /\ WorldOK
    BY <1>0, <1>3 DEF DeployFails, TypeOK, HistoryOK, Others, Homeless, WorldOK, bounds, env
  <2>5. stop[d] # "clean"
    BY <1>0, <1>3 DEF DeployFails, Fine, Rests
  <2> HIDE DEF p, q
  <2>6. Returns(q, need'[d], Homeless(d)') /\ Rests(q, stop'[d]) /\ Counted(q, fails'[d])
    BY <1>0, <1>3, <2>1, <2>2, <2>3, <2>5
       DEF DeployFails, Fine, Returns, Homeless, env, Rests, Counted, SameBudget
  <2>7. QED
    BY <2>2, <2>3, <2>4, <2>6, OneDeploy
<1>4. CASE Pairs(d)
  <2>1. h' = With(d, h[d]) /\ store' = store
    BY <1>0, <1>4 DEF Pairs, With
  <2>2. HistoryOK /\ Others(d) /\ WorldOK
    BY <1>0, <1>4, HistorySame DEF Pairs, TypeOK, WorldOK, bounds, hist
  <2>3. QED
    BY <1>0, <1>4, <2>1, <2>2, OneDeploy DEF Pairs, Fine, Homeless, hist
<1>5. CASE Ages(d)
  <2> DEFINE q == [h[d] EXCEPT !.age = IF @ = "young" THEN "up" ELSE "healthy"]
  <2>1. q \in Known /\ q.child = h[d].child /\ SameBudget(q, h[d])
        /\ (q.age = "healthy" => h[d].age = "up")
    BY <1>0, <1>5 DEF Ages, Known, SameBudget
  <2>2. h' = With(d, q) /\ store' = store
    BY <1>0, <1>5 DEF Ages, With
  <2>3. fails'[d] = IF h[d].age = "up" THEN 0 ELSE fails[d]
    BY <1>0, <1>5 DEF Ages, TypeOK
  <2>4. HistoryOK /\ Others(d) /\ WorldOK
    BY <1>0, <1>5, HostAssumption DEF Ages, TypeOK, HistoryOK, Others, Homeless, WorldOK, bounds, env
  <2> HIDE DEF q
  <2>5. Returns(q, need'[d], Homeless(d)') /\ Rests(q, stop'[d]) /\ Counted(q, fails'[d])
    BY <1>0, <1>5, <2>1, <2>3 DEF Ages, Fine, Returns, Homeless, env, Rests, Counted, SameBudget, Known
  <2>6. QED
    BY <2>1, <2>2, <2>4, <2>5, OneDeploy
<1>6. CASE StopChild(d) \/ CleanupWorkspace(d)
  <2> DEFINE q == Killed(h[d])
  <2>1. /\ q \in Known /\ q.child = "none" /\ q.depl = h[d].depl /\ SameBudget(q, h[d])
        /\ Recovering(q) <=> Recovering(h[d])
    BY <1>0, KilledDoes
  <2>2. h' = With(d, q) /\ store' = Mirrored(With(d, q)) /\ ~need'[d]
        /\ stop'[d] = (IF Pending(h[d]) THEN "dirty" ELSE "clean")
    BY <1>0, <1>6 DEF StopChild, CleanupWorkspace, StoppedAs, Becomes, TypeOK
  <2>3. HistoryOK /\ Others(d) /\ WorldOK
    BY <1>0, <1>6, <1>c
       DEF StopChild, CleanupWorkspace, StoppedAs, Command, TypeOK, HistoryOK, Others, Homeless, WorldOK, env
  <2> HIDE DEF q
  <2>4. Returns(q, need'[d], Homeless(d)') /\ Rests(q, stop'[d]) /\ Counted(q, fails'[d])
    BY <1>0, <1>6, <2>1, <2>2
       DEF StopChild, CleanupWorkspace, Fine, Returns, Homeless, env, Rests, Counted, SameBudget, Pending
  <2>5. QED
    BY <2>1, <2>2, <2>3, <2>4, OneDeploy
<1>7. ASSUME NEW deleted \in BOOLEAN, AppStops(d, deleted) PROVE IInv'
  <2> DEFINE u == Untracked(h[d])
  <2>0. WorldOK
    BY <1>0, <1>7, <1>c DEF AppStops, Command, TypeOK, WorldOK
  <2>1. /\ u \in Known /\ u.child = "none" /\ u.depl = h[d].depl /\ SameBudget(u, h[d])
        /\ Recovering(u) <=> Recovering(h[d])
    BY <1>0, UntrackedDoes
  <2>2. CASE DiesToReturn(d) /\ stop' = [stop EXCEPT ![d] = "dirty"]
    <3>1. IInv'
      <4> DEFINE q == ChildDied(u)
      <4>1. /\ q \in Known /\ Recovering(q) /\ q.child = "none"
            /\ q.posted \/ (q.att = u.att + 1 /\ q.posted = u.posted)
        BY <2>1, ChildDiedDoes
      <4>2. h' = With(d, q) /\ store' = Mirrored(With(d, q)) /\ stop'[d] = "dirty"
        BY <1>0, <2>2 DEF DiesToReturn, Becomes, TypeOK
      <4>3. HistoryOK /\ Others(d) /\ fails'[d] \in {fails[d], fails[d] + 1}
        BY <1>0, <1>7, <2>2, HostAssumption
           DEF AppStops, DiesToReturn, CountFailure, TypeOK, HistoryOK, Others, Homeless
      <4> HIDE DEF q, u
      <4>4. Returns(q, need'[d], Homeless(d)') /\ Rests(q, stop'[d]) /\ Counted(q, fails'[d])
        BY <1>0, <2>1, <4>1, <4>2, <4>3 DEF Fine, Returns, Homeless, env, Rests, Counted, SameBudget, Known
      <4>5. QED
        BY <2>0, <4>1, <4>2, <4>3, <4>4, OneDeploy
    <3>2. QED
      BY <3>1
  <2>3. CASE DiesForGood(d) /\ StoppedAs(d)
    <3>1. h' = With(d, u) /\ store' = Mirrored(With(d, u)) /\ ~need'[d] /\ fails' = fails
          /\ stop'[d] = (IF Pending(h[d]) THEN "dirty" ELSE "clean")
      BY <1>0, <2>3 DEF DiesForGood, StoppedAs, Becomes, TypeOK
    <3>2. HistoryOK /\ Others(d)
      BY <1>0, <1>7, <2>3 DEF AppStops, DiesForGood, StoppedAs, TypeOK, HistoryOK, Others, Homeless
    <3> HIDE DEF u
    <3>3. Returns(u, need'[d], Homeless(d)') /\ Rests(u, stop'[d]) /\ Counted(u, fails'[d])
      BY <1>0, <2>1, <3>1 DEF Fine, Returns, Homeless, env, Rests, Counted, SameBudget, Pending
    <3>4. QED
      BY <2>0, <2>1, <3>1, <3>2, <3>3, OneDeploy
  <2>4. QED
    BY <1>7, <2>2, <2>3 DEF AppStops
<1>8. ASSUME NEW stale \in BOOLEAN, ResumeSaved(d, stale) PROVE IInv'
  <2> DEFINE q == ResumeOne(d, h[d], stale)
  <2>1. q \in Known /\ Comes(d, q, h[d])
    BY <1>0, ResumeOneDoes
  <2>2. Homeless(d)' = Homeless(d)
    BY <1>8 DEF ResumeSaved, env, Homeless
  <2>3. h' = With(d, q) /\ store' = Mirrored(With(d, q)) /\ stop'[d] = "no"
    BY <1>0, <1>8 DEF ResumeSaved, Becomes, TypeOK
  <2>4. HistoryOK /\ Others(d) /\ WorldOK
    BY <1>0, <1>8, <1>c DEF ResumeSaved, Command, TypeOK, HistoryOK, Others, Homeless, WorldOK, env
  <2> HIDE DEF q
  <2>5. Returns(q, need'[d], Homeless(d)') /\ Rests(q, stop'[d]) /\ Counted(q, fails'[d])
    BY <1>0, <1>8, <2>1, <2>2, <2>3
       DEF ResumeSaved, Fine, Returns, Rests, Counted, SameBudget, Comes
  <2>6. QED
    BY <2>1, <2>3, <2>4, <2>5, OneDeploy
<1>9. QED
  BY <1>1, <1>2, <1>3, <1>4, <1>5, <1>6, <1>7, <1>8 DEF DeployStep

(* The exit of a child. *)
LEMMA ExitSteps ==
  ASSUME IInv, NEW d \in Deploys, ExitStep(d)
  PROVE  IInv'
<1>0. /\ TypeOK /\ h \in [Deploys -> Known] /\ h[d] \in Known /\ Fine(d)
      /\ need[d] \in BOOLEAN /\ stop[d] \in {"no", "clean", "dirty"} /\ fails[d] \in 0..Retries + 1
  BY DEF IInv, TypeOK, Known
<1> DEFINE u == Untracked(h[d])
<1>u. /\ u \in Known /\ u.child = "none" /\ u.depl = h[d].depl /\ SameBudget(u, h[d])
      /\ Recovering(u) <=> Recovering(h[d])
  BY <1>0, UntrackedDoes
<1>r. ASSUME DiesToReturn(d), WorldOK, UNCHANGED <<workspace, wrapper>>, h[d].child # "none", stop' = stop,
             alive' = alive
      PROVE  IInv'
  <2> DEFINE q == ChildDied(u)
  <2>1. /\ q \in Known /\ Recovering(q) /\ q.child = "none"
        /\ q.posted \/ (q.att = u.att + 1 /\ q.posted = u.posted)
    BY <1>u, ChildDiedDoes
  <2>2. h' = With(d, q) /\ store' = Mirrored(With(d, q))
    BY <1>r DEF DiesToReturn, Becomes
  <2>3. HistoryOK /\ Others(d) /\ fails'[d] \in {fails[d], fails[d] + 1}
    BY <1>0, <1>r, HostAssumption DEF DiesToReturn, CountFailure, TypeOK, HistoryOK, Others, Homeless
  <2> HIDE DEF q, u
  <2>4. Returns(q, need'[d], Homeless(d)') /\ Rests(q, stop'[d]) /\ Counted(q, fails'[d])
    BY <1>0, <1>r, <1>u, <2>1, <2>3 DEF Fine, Returns, Homeless, env, Rests, Counted, SameBudget, Known
  <2>5. QED
    BY <1>r, <2>1, <2>2, <2>3, <2>4, OneDeploy
<1>g. ASSUME DiesForGood(d), WorldOK, UNCHANGED <<workspace, wrapper>>, h[d].child # "none", stop' = stop,
             alive' = alive
      PROVE  IInv'
  <2>1. h' = With(d, u) /\ store' = Mirrored(With(d, u)) /\ ~need'[d] /\ fails' = fails
    BY <1>0, <1>g DEF DiesForGood, Becomes, TypeOK
  <2>2. HistoryOK /\ Others(d)
    BY <1>0, <1>g DEF DiesForGood, TypeOK, HistoryOK, Others, Homeless
  <2> HIDE DEF u
  <2>3. Returns(u, need'[d], Homeless(d)') /\ Rests(u, stop'[d]) /\ Counted(u, fails'[d])
    BY <1>0, <1>g, <1>u, <2>1 DEF Fine, Returns, Homeless, env, Rests, Counted, SameBudget
  <2>4. QED
    BY <1>g, <1>u, <2>1, <2>2, <2>3, OneDeploy
<1>1. CASE DeployChildExits(d)
  <2>1. WorldOK /\ UNCHANGED <<workspace, wrapper>> /\ h[d].child # "none" /\ stop' = stop
        /\ alive' = alive
    BY <1>0, <1>1 DEF DeployChildExits, TypeOK, WorldOK, env, bounds
  <2>2. DiesToReturn(d) \/ DiesForGood(d)
    BY <1>1 DEF DeployChildExits
  <2>3. QED
    BY <1>r, <1>g, <2>1, <2>2
<1>2. ASSUME NEW how \in {"clean", "fails", "signal"}, ResumeChildExits(d, how) PROVE IInv'
  <2>1. WorldOK /\ UNCHANGED <<workspace, wrapper>> /\ h[d].child # "none" /\ stop' = stop
        /\ alive' = alive
    BY <1>0, <1>2 DEF ResumeChildExits, TypeOK, WorldOK, env, bounds
  <2>2. DiesToReturn(d) \/ DiesForGood(d)
    BY <1>2 DEF ResumeChildExits
  <2>3. QED
    BY <1>r, <1>g, <2>1, <2>2
<1>3. ASSUME NEW how \in {"clean", "fails", "signal"}, ToldChildExits(d, how) PROVE IInv'
  <2> DEFINE r == [h[d] EXCEPT !.told = @ - 1]
             q == ChildDied(r)
  <2>1. /\ r \in Known /\ r.child = h[d].child /\ r.age = h[d].age /\ r.depl = h[d].depl
        /\ SameBudget(r, h[d]) /\ (Recovering(r) <=> Recovering(h[d]))
    <3>1. h[d].told - 1 \in Nat
      BY <1>0, <1>3 DEF ToldChildExits, Known
    <3>2. QED
      BY <1>0, <3>1 DEF Known, SameBudget, Recovering
  <2>2. /\ q \in Known /\ Recovering(q) /\ q.child = r.child /\ q.age = r.age
        /\ q.posted \/ (q.att = r.att + 1 /\ q.posted = r.posted)
    BY <2>1, ChildDiedDoes
  <2>3. WorldOK /\ UNCHANGED <<workspace, wrapper>> /\ alive' = alive
        /\ stop' = [stop EXCEPT ![d] = IF @ = "clean" /\ how = "fails" THEN "dirty" ELSE @]
    BY <1>0, <1>3 DEF ToldChildExits, TypeOK, WorldOK, env, bounds
  <2>4. CASE how = "fails"
    <3>1. /\ h' = With(d, q) /\ store' = Mirrored(With(d, q))
          /\ need' = [need EXCEPT ![d] = TRUE]
          /\ IF r.child = "none" THEN CountFailure(d) ELSE UNCHANGED fails
      BY <1>3, <2>4 DEF ToldChildExits, FailingExit, Becomes
    <3>2. stop'[d] # "clean"
      BY <1>0, <2>3, <2>4 DEF TypeOK
    <3> HIDE DEF q, r
    <3>3. HistoryOK /\ Others(d)
      BY <1>0, <2>3, <3>1, HostAssumption DEF CountFailure, TypeOK, HistoryOK, Others, Homeless
    <3>4. fails'[d] = fails[d] \/ (r.child = "none" /\ fails'[d] \in {fails[d], fails[d] + 1})
      BY <1>0, <3>1 DEF CountFailure, TypeOK
    <3>5. Returns(q, need'[d], Homeless(d)') /\ Rests(q, stop'[d]) /\ Counted(q, fails'[d])
      BY <1>0, <2>1, <2>2, <2>3, <3>2, <3>4 DEF Fine, Returns, Homeless, env, Rests, Counted, SameBudget, Known
    <3>6. QED
      BY <2>2, <2>3, <3>1, <3>3, <3>5, OneDeploy
  <2>5. CASE how # "fails"
    <3>1. h' = With(d, r) /\ store' = Mirrored(With(d, r)) /\ UNCHANGED <<need, fails>>
          /\ stop' = stop
      BY <1>0, <1>3, <2>3, <2>5 DEF ToldChildExits, FailingExit, Becomes, TypeOK
    <3> HIDE DEF r
    <3>2. HistoryOK /\ Others(d)
      BY <1>0, <2>3, <3>1 DEF TypeOK, HistoryOK, Others, Homeless
    <3>3. Returns(r, need'[d], Homeless(d)') /\ Rests(r, stop'[d]) /\ Counted(r, fails'[d])
      BY <1>0, <2>1, <2>3, <3>1 DEF Fine, Returns, Homeless, env, Rests, Counted, SameBudget
    <3>4. QED
      BY <2>1, <2>3, <3>1, <3>2, <3>3, OneDeploy
  <2>6. QED
    BY <2>4, <2>5
<1>4. QED
  BY <1>1, <1>2, <1>3 DEF ExitStep

(* The recovery of a child: none of its steps gives up what was to return. *)
LEMMA RecoverySteps ==
  ASSUME IInv, NEW d \in Deploys, RecoveryStep(d)
  PROVE  IInv'
<1>0. /\ TypeOK /\ h \in [Deploys -> Known] /\ h[d] \in Known /\ Fine(d)
      /\ need[d] \in BOOLEAN /\ stop[d] \in {"no", "clean", "dirty"} /\ fails[d] \in 0..Retries + 1
  BY DEF IInv, TypeOK, Known
<1>q. ASSUME NEW q \in Known, NEW r \in Known, Recovering(h[d]),
             Comes(d, q, r), SameBudget(r, h[d]), r.child = h[d].child, r.age = h[d].age,
             h' = With(d, q), store' = store \/ store' = Mirrored(With(d, q)),
             WorldOK, UNCHANGED hist, UNCHANGED <<workspace, wrapper>>
      PROVE  IInv'
  <2>1. HistoryOK /\ Others(d) /\ Homeless(d)' = Homeless(d) /\ UNCHANGED <<need, stop, fails>>
    BY <1>0, <1>q, HistorySame DEF hist
  <2>2. Returns(q, need'[d], Homeless(d)') /\ Rests(q, stop'[d]) /\ Counted(q, fails'[d])
    BY <1>0, <1>q, <2>1 DEF Fine, Returns, Rests, Counted, SameBudget, Comes
  <2>3. QED
    BY <1>q, <2>1, <2>2, OneDeploy
<1>1. ASSUME NEW stale \in BOOLEAN, RetryTimer(d, stale) PROVE IInv'
  <2> DEFINE r == Fired(h[d])
             q == ResumeOne(d, r, stale)
  <2>1. r \in Known /\ SameBudget(r, h[d]) /\ r.child = h[d].child /\ r.age = h[d].age
    BY <1>0, <1>1, FiredDoes DEF RetryTimer
  <2>2. q \in Known /\ Comes(d, q, r)
    BY <2>1, ResumeOneDoes
  <2>3. h' = With(d, q) /\ store' = Mirrored(With(d, q)) /\ Recovering(h[d])
    BY <1>1 DEF RetryTimer, Becomes, Recovering
  <2>4. WorldOK /\ UNCHANGED hist /\ UNCHANGED <<workspace, wrapper>>
    BY <1>0, <1>1 DEF RetryTimer, TypeOK, WorldOK, env, bounds
  <2> HIDE DEF r, q
  <2>5. QED
    BY <1>q, <2>1, <2>2, <2>3, <2>4
<1>2. ASSUME NEW stale \in BOOLEAN, Replaced(d, stale) PROVE IInv'
  <2> DEFINE r == [h[d] EXCEPT !.repl = FALSE]
             q == SpawnResume(d, r, stale)
  <2>1. r \in Known /\ SameBudget(r, h[d]) /\ r.child = h[d].child /\ r.age = h[d].age
    BY <1>0 DEF Known, SameBudget
  <2>2. q \in Known /\ Comes(d, q, r)
    BY <2>1, SpawnResumeDoes
  <2>3. h' = With(d, q) /\ store' = Mirrored(With(d, q)) /\ Recovering(h[d])
    BY <1>2 DEF Replaced, Becomes, Recovering
  <2>4. WorldOK /\ UNCHANGED hist /\ UNCHANGED <<workspace, wrapper>>
    BY <1>0, <1>2 DEF Replaced, TypeOK, WorldOK, bounds
  <2> HIDE DEF r, q
  <2>5. QED
    BY <1>q, <2>1, <2>2, <2>3, <2>4
<1>3. ASSUME NEW stale \in BOOLEAN, Reprobe(d, stale) PROVE IInv'
  <2> DEFINE q == ResumeOne(d, h[d], stale)
  <2>1. q \in Known /\ Comes(d, q, h[d])
    BY <1>0, ResumeOneDoes
  <2>2. h' = With(d, q) /\ store' = Mirrored(With(d, q)) /\ Recovering(h[d])
    BY <1>3 DEF Reprobe, Becomes, Recovering
  <2>3. WorldOK /\ UNCHANGED hist /\ UNCHANGED <<workspace, wrapper>> /\ SameBudget(h[d], h[d])
    BY <1>0, <1>3 DEF Reprobe, TypeOK, WorldOK, env, bounds, SameBudget
  <2> HIDE DEF q
  <2>4. QED
    BY <1>0, <1>q, <2>1, <2>2, <2>3
<1>4. CASE Refreshed(d)
  <2> DEFINE r == [h[d] EXCEPT !.refr = FALSE]
             q == SpawnNow(d, r)
  <2>1. r \in Known /\ SameBudget(r, h[d]) /\ r.child = h[d].child /\ r.age = h[d].age
    BY <1>0 DEF Known, SameBudget
  <2>2. q \in Known /\ Comes(d, q, r)
    BY <2>1, SpawnNowDoes
  <2>3. h' = With(d, q) /\ store' = Mirrored(With(d, q)) /\ Recovering(h[d])
    BY <1>4 DEF Refreshed, Becomes, Recovering
  <2>4. WorldOK /\ UNCHANGED hist /\ UNCHANGED <<workspace, wrapper>>
    BY <1>0, <1>4 DEF Refreshed, TypeOK, WorldOK, env, bounds
  <2> HIDE DEF r, q
  <2>5. QED
    BY <1>q, <2>1, <2>2, <2>3, <2>4
<1>5. CASE RecoveryReset(d)
  <2> DEFINE q == [h[d] EXCEPT !.att = 0, !.exh = FALSE, !.posted = FALSE]
  <2>0. 0 \in 0..Retries
    BY HostAssumption
  <2>1. q \in Known /\ q.child = h[d].child /\ q.age = h[d].age /\ q.att = 0
    BY <1>0, <2>0 DEF Known
  <2>2. h' = With(d, q) /\ store' = store
    BY <1>0, <1>5 DEF RecoveryReset, With
  <2>3. h[d].child # "none" /\ fails[d] = 0
    BY <1>0, <1>5 DEF RecoveryReset, Healthy, Fine, Counted
  <2>4. WorldOK /\ HistoryOK /\ Others(d) /\ UNCHANGED <<need, stop, fails, workspace, wrapper>>
    BY <1>0, <1>5, HistorySame DEF RecoveryReset, TypeOK, WorldOK, env, bounds, hist
  <2> HIDE DEF q
  <2>5. Returns(q, need'[d], Homeless(d)') /\ Rests(q, stop'[d]) /\ Counted(q, fails'[d])
    BY <1>0, <2>1, <2>3, <2>4 DEF Fine, Returns, Homeless, env, Rests, Counted
  <2>6. QED
    BY <2>1, <2>2, <2>4, <2>5, OneDeploy
<1>6. QED
  BY <1>1, <1>2, <1>3, <1>4, <1>5 DEF RecoveryStep

-----------------------------------------------------------------------------
(* The steps of several deploys. *)
LEMMA RefreshSteps ==
  ASSUME IInv, NEW S \in SUBSET Deploys, NEW stale \in SUBSET Deploys,
         RefreshCredentials(S, stale)
  PROVE  IInv'
<1> DEFINE q(d) == IF d \in S \cap paired THEN ResumeOne(d, Killed(h[d]), d \in stale) ELSE h[d]
<1>0. /\ TypeOK /\ h \in [Deploys -> Known] /\ UNCHANGED <<env, host, deaths, hist>>
      /\ host = "up" /\ S \subseteq Live(h)
      /\ h' = [d \in Deploys |-> q(d)] /\ store' = Mirrored([d \in Deploys |-> q(d)])
  BY DEF IInv, TypeOK, Known, RefreshCredentials, Command, Becomes
<1>1. ASSUME NEW d \in Deploys
      PROVE  q(d) \in Known /\ Returns(q(d), need[d], Homeless(d)) /\ Rests(q(d), stop[d]) /\ Counted(q(d), fails[d])
  <2>1. h[d] \in Known /\ Fine(d)
    BY <1>0 DEF IInv
  <2>2. CASE d \in S \cap paired
    <3> DEFINE k == Killed(h[d])
    <3>1. k \in Known /\ SameBudget(k, h[d]) /\ k.child = "none"
      BY <2>1, KilledDoes
    <3>3. q(d) \in Known /\ Comes(d, q(d), k)
      BY <2>2, <3>1, ResumeOneDoes
    <3>4. h[d].child # "none"
      BY <1>0, <2>2 DEF Live
    <3> HIDE DEF q, k
    <3>5. QED
      BY <2>1, <3>1, <3>3, <3>4 DEF Fine, Returns, Rests, Counted, SameBudget, Comes
  <2>3. CASE d \notin S \cap paired
    BY <2>1, <2>3 DEF Fine
  <2>4. QED
    BY <2>2, <2>3
<1> HIDE DEF q
<1>2. h' \in [Deploys -> Known] /\ \A d \in Deploys : h'[d] = q(d)
  BY <1>0, <1>1
<1>3. store' \subseteq Deploys /\ commands' \in 0..MaxCommands
  BY <1>0, HostAssumption DEF TypeOK, Mirrored, Live, RefreshCredentials, Command
<1>4. TypeOK'
  BY <1>0, <1>2, <1>3 DEF TypeOK, Known, env, hist
<1>5. QED
  BY <1>0, <1>1, <1>2, <1>4 DEF IInv, Fine, Homeless, DownForgets, hist, env

LEMMA BootResumes ==
  ASSUME TypeOK, NEW R \in SUBSET store, NEW stale \in SUBSET Deploys, Boot(R, stale)
  PROVE  h' \in [Deploys -> Known] /\ store' \subseteq Deploys
<1> DEFINE q(d) == IF d \in R \cap paired THEN ResumeOne(d, Deploy0, d \in stale) ELSE Deploy0
<1>1. ASSUME NEW d \in Deploys PROVE q(d) \in Known
  <2>2. CASE d \in R \cap paired
    BY <2>2, Deploy0Fine, ResumeOneDoes
  <2>3. CASE d \notin R \cap paired
    BY <2>3, Deploy0Fine
  <2>4. QED
    BY <2>2, <2>3
<1>2. h' = [d \in Deploys |-> q(d)]
  BY DEF Boot
<1>3. store' \subseteq Deploys
  BY DEF Boot, TypeOK, Live
<1> HIDE DEF q
<1>4. QED
  BY <1>1, <1>2, <1>3

LEMMA HostSteps ==
  ASSUME IInv, (\E S \in SUBSET Deploys : HostDies(S)) \/ Wipe \/ BootStep
  PROVE  IInv'
<1>0. TypeOK
  BY DEF IInv
<1>1. ASSUME NEW S \in SUBSET Deploys, HostDies(S) PROVE IInv'
  <2>1. deaths' \in 0..MaxDeaths /\ alive' \subseteq Deploys /\ orphan' \subseteq Deploys
    BY <1>0, <1>1, HostAssumption DEF HostDies, TypeOK, Live
  <2>2. /\ h' \in [Deploys -> Known] /\ fails' \in [Deploys -> 0..Retries + 1]
        /\ \A d \in Deploys : h'[d] = Deploy0 /\ stop'[d] = "no" /\ ~need'[d] /\ fails'[d] = 0
    BY <1>1, Deploy0Fine, HostAssumption DEF HostDies
  <2>3. TypeOK'
    BY <1>0, <1>1, <2>1, <2>2 DEF HostDies, TypeOK, Known
  <2>4. QED
    BY <2>2, <2>3, Deploy0Fine DEF IInv, Fine, DownForgets, Returns, Homeless, Rests, Counted
<1>2. CASE Wipe
  <2>1. commands' \in 0..MaxCommands
    BY <1>0, <1>2, HostAssumption DEF Wipe, Command, TypeOK
  <2>2. /\ h' \in [Deploys -> Known] /\ fails' \in [Deploys -> 0..Retries + 1]
        /\ \A d \in Deploys : h'[d] = Deploy0 /\ stop'[d] = "no" /\ ~need'[d] /\ fails'[d] = 0
    BY <1>2, Deploy0Fine, HostAssumption DEF Wipe
  <2>3. TypeOK'
    BY <1>0, <1>2, <2>1, <2>2 DEF Wipe, TypeOK, Known, env
  <2>4. QED
    BY <2>2, <2>3, Deploy0Fine DEF IInv, Fine, DownForgets, Returns, Homeless, Rests, Counted
<1>3. ASSUME NEW R \in SUBSET store, NEW stale \in SUBSET Deploys, Boot(R, stale) PROVE IInv'
  <2>1. h' \in [Deploys -> Known] /\ store' \subseteq Deploys
    BY <1>0, <1>3, BootResumes
  <2>2. TypeOK'
    BY <1>0, <1>3, <2>1 DEF Boot, TypeOK, Known, env, bounds, hist
  <2>3. \A d \in Deploys : stop'[d] = "no" /\ ~need'[d] /\ fails'[d] = 0
    BY <1>3 DEF Boot, IInv, DownForgets, hist
  <2>4. \A d \in Deploys : Fine(d)'
    <3>1. ASSUME NEW d \in Deploys
          PROVE  h'[d] = Deploy0 \/ Comes(d, h'[d], Deploy0)
      BY <1>3, Deploy0Fine, ResumeOneDoes DEF Boot
    <3>2. UNCHANGED <<workspace, wrapper>>
      BY <1>3 DEF Boot, env
    <3>3. QED
      BY <2>1, <2>3, <3>1, <3>2, Deploy0Fine
         DEF Fine, Returns, Homeless, Rests, Counted, Known, Comes
  <2>5. QED
    BY <1>3, <2>2, <2>4 DEF IInv, DownForgets, Boot
<1>4. QED
  BY <1>1, <1>2, <1>3 DEF BootStep

-----------------------------------------------------------------------------
LEMMA InitIInv == Init => IInv
<1> SUFFICES ASSUME Init PROVE IInv
  OBVIOUS
<1>1. h \in [Deploys -> Known] /\ fails \in [Deploys -> 0..Retries + 1]
  BY Deploy0Fine, HostAssumption DEF Init
<1>2. commands \in 0..MaxCommands /\ deaths \in 0..MaxDeaths
  BY HostAssumption DEF Init
<1>3. TypeOK
  BY <1>1, <1>2 DEF Init, TypeOK, Known
<1>4. QED
  BY <1>3, Deploy0Fine DEF Init, IInv, Fine, DownForgets, Returns, Homeless, Rests, Counted

LEMMA NextIInv == IInv /\ [Next]_vars => IInv'
<1> SUFFICES ASSUME IInv, [Next]_vars PROVE IInv'
  OBVIOUS
<1>1. CASE UNCHANGED vars
  BY <1>1 DEF vars, env, bounds, hist, IInv, TypeOK, Fine, DownForgets, Returns, Homeless, Rests,
     Counted, Recovering
<1>2. CASE Next
  BY <1>2, DeploySteps, ExitSteps, RecoverySteps, RefreshSteps, HostSteps DEF Next
<1>3. QED
  BY <1>1, <1>2

LEMMA Invariance == Spec => []IInv
BY InitIInv, NextIInv, PTL DEF Spec

(* Every field of a deploy, of the file and of the host keeps its type. *)
THEOREM TypeCorrect == Spec => []TypeOK
<1>1. IInv => TypeOK
  BY DEF IInv
<1>2. QED
  BY <1>1, Invariance, PTL

(* A session that is to come back has a child or something that still works on it,
   unless its workspace is gone and the supervisor sits in the wrapper checkout, with
   any number of deploys, orphans, refreshes, commands and restarts. *)
THEOREM CrashedIsRecovered == Spec => []NeverAbandoned
<1>1. IInv => NeverAbandoned
  BY DEF IInv, Fine, Returns, NeverAbandoned
<1>2. QED
  BY <1>1, Invariance, PTL

(* More failures in a row than there are retries reach the failure bubble: its flag is
   set, and its POST was attempted if the pairing has its token. *)
THEOREM CrashLoopPosted == Spec => []CrashLoopIsTold
<1>1. IInv => CrashLoopIsTold
  BY HostAssumption DEF IInv, TypeOK, Fine, Counted, CrashLoopIsTold
<1>2. QED
  BY <1>1, Invariance, PTL

(* A session stopped while nothing was pending has no child until it is asked for. *)
THEOREM CleanStopLasts == Spec => []StoppedStaysDown
<1>1. IInv => StoppedStaysDown
  BY DEF IInv, Fine, Rests, StoppedStaysDown
<1>2. QED
  BY <1>1, Invariance, PTL

-----------------------------------------------------------------------------
(* The file has every live child, and, while the host is down, those it died with,
   none of which is homeless. *)
FileHasLive ==
  /\ host = "up" => Live(h) \subseteq store
  /\ host = "down" => alive \subseteq store /\ \A d \in alive : ~Homeless(d)

(* What a step of a running supervisor makes of the file. *)
Written ==
  \/ store' = Mirrored(h')
  \/ store' = store /\ \A d \in Deploys : h'[d].child = h[d].child

LEMMA StepsWrite ==
  ASSUME TypeOK,
         \/ \E d \in Deploys : DeployStep(d) \/ ExitStep(d) \/ RecoveryStep(d)
         \/ \E S, stale \in SUBSET Deploys : RefreshCredentials(S, stale)
  PROVE  Written /\ host = "up" /\ host' = "up"
<1> USE DEF env, hist, Command
<1>1. ASSUME NEW d \in Deploys, DeployStep(d) PROVE Written /\ host = "up" /\ host' = "up"
  <2>1. CASE Ages(d)
    BY <2>1 DEF Ages, Written, TypeOK
  <2>2. CASE Pairs(d)
    BY <2>2 DEF Pairs, Written
  <2>3. CASE \E deleted \in BOOLEAN : AppStops(d, deleted)
    BY <2>3 DEF AppStops, DiesToReturn, DiesForGood, Becomes, Written
  <2>4. QED
    BY <1>1, <2>1, <2>2, <2>3 DEF DeployStep, Deploy, DeploySpawns, DeployFails, StopChild,
       CleanupWorkspace, ResumeSaved, Becomes, Written
<1>2. ASSUME NEW d \in Deploys, ExitStep(d) PROVE Written /\ host = "up" /\ host' = "up"
  BY <1>2 DEF ExitStep, DeployChildExits, ResumeChildExits, ToldChildExits, DiesToReturn,
     DiesForGood, Becomes, Written
<1>3. ASSUME NEW d \in Deploys, RecoveryStep(d) PROVE Written /\ host = "up" /\ host' = "up"
  <2>1. CASE RecoveryReset(d)
    BY <2>1 DEF RecoveryReset, Written, TypeOK
  <2>2. QED
    BY <1>3, <2>1 DEF RecoveryStep, RetryTimer, Replaced, Refreshed, Reprobe, Becomes, Written
<1>4. ASSUME NEW S \in SUBSET Deploys, NEW stale \in SUBSET Deploys, RefreshCredentials(S, stale)
      PROVE  Written /\ host = "up" /\ host' = "up"
  BY <1>4 DEF RefreshCredentials, Becomes, Written
<1>5. QED
  BY <1>1, <1>2, <1>3, <1>4

LEMMA WrittenHasLive ==
  ASSUME TypeOK, Live(h) \subseteq store, Written
  PROVE  Live(h') \subseteq store'
<1>1. CASE \A d \in Deploys : h'[d].child = h[d].child
  BY <1>1 DEF Written, Mirrored, Live
<1>2. CASE ~ \A d \in Deploys : h'[d].child = h[d].child
  <2>1. [d \in Deploys |-> h'[d].child] # [d \in Deploys |-> h[d].child]
    BY <1>2
  <2>2. QED
    BY <1>2, <2>1 DEF Written, Mirrored
<1>3. QED
  BY <1>1, <1>2

LEMMA InitFile == Init => FileHasLive
  BY DEF Init, FileHasLive, Live, Deploy0

LEMMA NextFile == IInv /\ FileHasLive /\ [Next]_vars => FileHasLive'
<1> SUFFICES ASSUME IInv, FileHasLive, [Next]_vars PROVE FileHasLive'
  OBVIOUS
<1>0. TypeOK /\ \A d \in Live(h) : ~Homeless(d)
  BY DEF IInv, Fine, Returns, Live
<1>1. CASE \/ \E d \in Deploys : DeployStep(d) \/ ExitStep(d) \/ RecoveryStep(d)
           \/ \E S, stale \in SUBSET Deploys : RefreshCredentials(S, stale)
  <2>1. Written /\ host = "up" /\ host' = "up"
    BY <1>0, <1>1, StepsWrite
  <2>2. Live(h)' = Live(h')
    BY DEF Live
  <2>3. QED
    BY <1>0, <2>1, <2>2, WrittenHasLive DEF FileHasLive
<1>2. ASSUME NEW S \in SUBSET Deploys, HostDies(S) PROVE FileHasLive'
  BY <1>0, <1>2 DEF HostDies, FileHasLive, Homeless
<1>3. CASE Wipe
  BY <1>3 DEF Wipe, FileHasLive
<1>4. CASE BootStep
  BY <1>4 DEF BootStep, Boot, FileHasLive, Live
<1>5. CASE UNCHANGED vars
  BY <1>5 DEF vars, env, hist, FileHasLive, Live, Homeless
<1>6. QED
  BY <1>1, <1>2, <1>3, <1>4, <1>5 DEF Next

(* A file within the bound is resumed as a whole. *)
LEMMA WholeFile ==
  ASSUME TypeOK, NEW R \in SUBSET store, Cardinality(store) <= MaxResume,
         Cardinality(R) = LeastOf(MaxResume, Cardinality(store))
  PROVE  R = store
<1>1. IsFiniteSet(store) /\ Cardinality(store) \in Nat
  BY HostAssumption, FS_Subset, FS_CardinalityType DEF TypeOK
<1>2. Cardinality(R) = Cardinality(store)
  BY <1>1, HostAssumption DEF LeastOf
<1>3. QED
  BY <1>1, <1>2, FS_Subset

(* The sessions that were live when the supervisor went down are brought back by the
   next boot, as far as they are still paired, if no more of them are in the file than
   one boot resumes. *)
THEOREM LiveIsResumed == Spec => LiveComesBack
<1> DEFINE Back ==
      host = "down" /\ host' = "up" /\ Cardinality(store) <= MaxResume =>
        \A d \in alive \cap paired : h'[d].child # "none" \/ h'[d].repl \/ h'[d].refr
<1>1. Init => FileHasLive
  BY InitFile
<1>2. IInv /\ FileHasLive /\ [Next]_vars => FileHasLive' /\ Back
  <2> SUFFICES ASSUME IInv, FileHasLive, [Next]_vars, host = "down", host' = "up",
                      Cardinality(store) <= MaxResume, NEW d \in alive \cap paired
               PROVE  h'[d].child # "none" \/ h'[d].repl \/ h'[d].refr
    BY NextFile DEF IInv
  <2>1. TypeOK
    BY DEF IInv
  <2>2. BootStep
    <3>1. ~Wipe /\ ~UNCHANGED vars /\ ~\E S \in SUBSET Deploys : HostDies(S)
      BY DEF Wipe, Command, vars, HostDies
    <3>2. QED
      BY <2>1, <3>1, StepsWrite DEF Next
  <2>3. PICK R \in SUBSET store, stale \in SUBSET Deploys : Boot(R, stale)
    BY <2>2 DEF BootStep
  <2>4. d \in R \cap paired /\ d \in Deploys
    BY <2>1, <2>3, WholeFile DEF Boot, FileHasLive, TypeOK
  <2>5. h'[d] = ResumeOne(d, Deploy0, d \in stale)
    BY <2>3, <2>4 DEF Boot
  <2>6. ~Homeless(d)
    BY <2>3 DEF Boot, FileHasLive
  <2>7. QED
    BY <2>5, <2>6 DEF ResumeOne, SpawnResume, SpawnNow, Tracked, Deploy0
<1>3. QED
  BY <1>1, <1>2, Invariance, PTL DEF Spec, LiveComesBack
=============================================================================
