------------------------ MODULE BatonController_proof ------------------------
(***************************************************************************)
(* Proofs about BatonController for every set of conversations and every   *)
(* number of switches, abandoned hand-offs included.                       *)
(***************************************************************************)
EXTENDS BatonController, TLAPS

(* What ties the controller to the call it is in: it is SWITCHING exactly
   while switchDriver() has not returned, that call works on an existing
   hand-off, and what the hand-off noted when it began (state and conversation
   it switches away from) is still what the controller holds, although
   abandoned hand-offs go on meanwhile. *)
InSwitch ==
  /\ (state = "SWITCHING") <=> (call.pc # "idle")
  /\ call.pc # "idle" => /\ call.job \in Jobs
                         /\ prior[call.job] = conv
                         /\ active = KindOf(from[call.job])
  /\ state \in Steady => active = KindOf(state)
  /\ state = "STARTING" => active = "local_tui" /\ published = None

UpDrives == \A d \in Drivers : up[d] => driving[d] \in Convs

IInv == TypeOK /\ InSwitch /\ UpDrives /\ ReaffirmsPublished

LEMMA KindIsDriver == \A s : KindOf(s) \in Drivers
  BY DEF KindOf, Drivers

LEMMA OppositeIsSteady ==
  \A s \in Steady : Opposite(s) \in Steady /\ KindOf(Opposite(s)) # KindOf(s)
  BY DEF Opposite, Steady, KindOf

LEMMA NoneIsNoConv == None \notin Convs
  BY BatonAssumption

LEMMA JobIsJob == \A k \in Jobs : k \in Nat /\ k # 0 /\ k <= MaxSwitches
  BY BatonAssumption DEF Jobs

-----------------------------------------------------------------------------
(* A start that resolves leaves the driver running, and returns the
   conversation asked for if that one has a transcript. *)
LEMMA StartTypes ==
  ASSUME TypeOK, UpDrives, NEW d \in Drivers, NEW c \in MaybeConv, NEW id \in MaybeConv,
         StartResolves(d, c, id)
  PROVE  /\ up' \in [Drivers -> BOOLEAN] /\ driving' \in [Drivers -> MaybeConv]
         /\ turned' \in SUBSET Convs /\ used' \in SUBSET Convs /\ probes' \in SUBSET Convs
         /\ up'[d] /\ UpDrives'
         /\ c \in turned => id = c
<1>1. CASE StartResumes(d, c) /\ id = c
  <2>1. /\ up' = [up EXCEPT ![d] = TRUE] /\ driving' = [driving EXCEPT ![d] = c]
        /\ UNCHANGED <<turned, used, probes>> /\ c \in Convs
    BY <1>1 DEF StartResumes, MaybeConv
  <2>2. QED
    BY <1>1, <2>1 DEF TypeOK, MaybeConv, UpDrives
<1>2. CASE \E new \in Convs : StartMints(d, c, new, id)
  <2>1. PICK new \in Convs : StartMints(d, c, new, id)
    BY <1>2
  <2>2. /\ up' = [up EXCEPT ![d] = TRUE] /\ driving' = [driving EXCEPT ![d] = new]
        /\ used' = used \cup {new} /\ probes' \in {probes, probes \cup {new}}
        /\ UNCHANGED turned
        /\ d = "mobile_acp" => c \notin turned
        /\ d = "local_tui" => c = None
    BY <2>1 DEF StartMints, Resumable
  <2>3. c \notin turned
    BY <2>2, NoneIsNoConv DEF TypeOK, Drivers
  <2>4. QED
    BY <2>2, <2>3 DEF TypeOK, MaybeConv, UpDrives
<1>3. QED
  BY <1>1, <1>2 DEF StartResolves

LEMMA StopTypes ==
  ASSUME TypeOK, UpDrives, NEW d \in Drivers, StartRejects(d)
  PROVE  /\ up' \in [Drivers -> BOOLEAN] /\ driving' \in [Drivers -> MaybeConv]
         /\ turned' \in SUBSET Convs /\ used' \in SUBSET Convs /\ probes' \in SUBSET Convs
         /\ UpDrives'
<1>1. up' = [up EXCEPT ![d] = FALSE] /\ UNCHANGED <<driving, turned, used, probes>>
  BY DEF StartRejects
<1>2. QED
  BY <1>1 DEF TypeOK, UpDrives

LEMMA SetStateTypes ==
  ASSUME NEW s \in Steady \cup {"SWITCHING"}, NEW a \in Drivers, NEW c \in MaybeConv,
         SetState(s, a, c)
  PROVE  /\ state' = s /\ active' = a /\ conv' = c
         /\ published' \in {None} \cup ((Steady \cup {"SWITCHING"}) \X Drivers \X MaybeConv)
         /\ ReaffirmsPublished'
  BY DEF SetState, ReaffirmsPublished

-----------------------------------------------------------------------------
LEMMA InitIInv == Init => IInv
<1> SUFFICES ASSUME Init PROVE IInv
  OBVIOUS
<1>1. /\ hand \in [Jobs -> {"none", "yield", "stop", "start", "end"}]
      /\ from \in [Jobs -> Steady] /\ prior \in [Jobs -> MaybeConv]
      /\ up \in [Drivers -> BOOLEAN] /\ driving \in [Drivers -> MaybeConv]
  BY DEF Init, Steady, MaybeConv
<1>2. call \in Calls /\ call.job <= njobs /\ njobs \in 0..MaxSwitches /\ call.pc = "idle"
  BY BatonAssumption DEF Init, NoCall, Calls
<1>3. TypeOK
  BY <1>1, <1>2 DEF Init, TypeOK, Drivers, MaybeConv
<1>4. InSwitch
  BY <1>2 DEF Init, InSwitch, Steady
<1>5. QED
  BY <1>3, <1>4 DEF Init, IInv, UpDrives, ReaffirmsPublished

(* Begin, and what the native TUI reports: the controller is left alone, or
   publishes in LOCAL_DRIVE. *)
NativeReport ==
  \/ Begin
  \/ \E d \in Drivers : Turn(d)
  \/ \E c \in Convs : RebindConversation(c) \/ DiscoveryGivesUp(c) \/ SwitchConversation(c)

LEMMA Publishing ==
  ASSUME InSwitch, NEW c \in MaybeConv, state = "LOCAL_DRIVE", SetState("LOCAL_DRIVE", active, c),
         active \in Drivers, UNCHANGED jobs
  PROVE  /\ state' = "LOCAL_DRIVE" /\ active' = active /\ conv' = c
         /\ published' \in {None} \cup ((Steady \cup {"SWITCHING"}) \X Drivers \X MaybeConv)
         /\ ReaffirmsPublished' /\ InSwitch'
<1>1. "LOCAL_DRIVE" \in Steady
  BY DEF Steady
<1>2. /\ state' = "LOCAL_DRIVE" /\ active' = active /\ conv' = c
      /\ published' \in {None} \cup ((Steady \cup {"SWITCHING"}) \X Drivers \X MaybeConv)
      /\ ReaffirmsPublished'
  BY <1>1, SetStateTypes
<1>3. InSwitch'
  BY <1>2 DEF InSwitch, jobs, KindOf, Steady
<1>4. QED
  BY <1>2, <1>3

LEMMA NativeStep ==
  ASSUME IInv, NativeReport
  PROVE  /\ IInv'
         /\ state = "SWITCHING" => UNCHANGED <<state, active, conv>>
         /\ active' = active
<1> USE DEF IInv
<1>1. CASE Begin
  <2>1. PICK id \in MaybeConv : StartResolves("local_tui", None, id) /\ SetState("LOCAL_DRIVE", "local_tui", id)
    BY <1>1 DEF Begin
  <2>2. state = "STARTING" /\ UNCHANGED <<jobs, late, lost, missed>>
    BY <1>1 DEF Begin
  <2>3. "local_tui" \in Drivers /\ None \in MaybeConv /\ "LOCAL_DRIVE" \in Steady
    BY DEF Drivers, MaybeConv, Steady
  <2>4. /\ up' \in [Drivers -> BOOLEAN] /\ driving' \in [Drivers -> MaybeConv]
        /\ turned' \in SUBSET Convs /\ used' \in SUBSET Convs /\ probes' \in SUBSET Convs
        /\ UpDrives'
    BY <2>1, <2>3, StartTypes
  <2>5. /\ state' = "LOCAL_DRIVE" /\ active' = "local_tui" /\ conv' = id
        /\ published' \in {None} \cup ((Steady \cup {"SWITCHING"}) \X Drivers \X MaybeConv)
        /\ ReaffirmsPublished'
    BY <2>1, <2>3, SetStateTypes
  <2>6. TypeOK'
    BY <2>2, <2>3, <2>4, <2>5 DEF TypeOK, jobs
  <2>7. InSwitch'
    BY <2>2, <2>5 DEF InSwitch, jobs, KindOf, Steady
  <2>8. QED
    BY <2>2, <2>4, <2>5, <2>6, <2>7 DEF InSwitch
<1>2. CASE \E d \in Drivers : Turn(d)
  <2>1. PICK d \in Drivers : Turn(d)
    BY <1>2
  <2>2. /\ turned' = turned \cup {driving[d]} /\ driving[d] \in Convs
        /\ UNCHANGED <<ctl, jobs, up, driving, used, probes, late, lost, missed>>
    BY <2>1 DEF Turn, UpDrives
  <2>3. QED
    BY <2>2 DEF TypeOK, InSwitch, UpDrives, ReaffirmsPublished, ctl, jobs
<1>3. CASE \E c \in Convs : RebindConversation(c)
  <2>1. PICK c \in Convs : RebindConversation(c)
    BY <1>3
  <2>2. /\ probes' = probes \ {c} /\ c \in MaybeConv
        /\ UNCHANGED <<jobs, up, driving, turned, used, late, lost, missed>>
    BY <2>1 DEF RebindConversation, MaybeConv
  <2>3. CASE RebindAllowed
    <3>1. SetState("LOCAL_DRIVE", active, c) /\ state = "LOCAL_DRIVE"
      BY <2>1, <2>3 DEF RebindConversation, RebindAllowed
    <3>2. /\ state' = "LOCAL_DRIVE" /\ active' = active /\ conv' = c
          /\ published' \in {None} \cup ((Steady \cup {"SWITCHING"}) \X Drivers \X MaybeConv)
          /\ ReaffirmsPublished' /\ InSwitch'
      BY <3>1, <2>2, Publishing DEF TypeOK
    <3>3. QED
      BY <3>1, <3>2, <2>2 DEF TypeOK, UpDrives, jobs, Steady
  <2>4. CASE ~RebindAllowed
    BY <2>1, <2>2, <2>4 DEF RebindConversation, TypeOK, InSwitch, UpDrives, ReaffirmsPublished, ctl, jobs
  <2>5. QED
    BY <2>3, <2>4
<1>4. CASE \E c \in Convs : DiscoveryGivesUp(c)
  <2>1. PICK c \in Convs : DiscoveryGivesUp(c)
    BY <1>4
  <2>2. /\ probes' = probes \ {c}
        /\ UNCHANGED <<ctl, jobs, up, driving, turned, used, late, lost, missed>>
    BY <2>1 DEF DiscoveryGivesUp
  <2>3. QED
    BY <2>2 DEF TypeOK, InSwitch, UpDrives, ReaffirmsPublished, ctl, jobs
<1>5. CASE \E c \in Convs : SwitchConversation(c)
  <2>1. PICK c \in Convs : SwitchConversation(c)
    BY <1>5
  <2>2. /\ driving' = [driving EXCEPT !["local_tui"] = c] /\ used' = used \cup {c}
        /\ c \in MaybeConv /\ missed' \in BOOLEAN
        /\ UNCHANGED <<jobs, up, turned, probes, late, lost>>
    BY <2>1 DEF SwitchConversation, MaybeConv, TypeOK
  <2>3. driving' \in [Drivers -> MaybeConv] /\ used' \in SUBSET Convs /\ UpDrives'
    BY <2>2 DEF TypeOK, UpDrives, MaybeConv
  <2>4. CASE state = "LOCAL_DRIVE" /\ conv # c
    <3>1. SetState("LOCAL_DRIVE", active, c)
      BY <2>1, <2>4 DEF SwitchConversation
    <3>2. /\ state' = "LOCAL_DRIVE" /\ active' = active /\ conv' = c
          /\ published' \in {None} \cup ((Steady \cup {"SWITCHING"}) \X Drivers \X MaybeConv)
          /\ ReaffirmsPublished' /\ InSwitch'
      BY <3>1, <2>2, <2>4, Publishing DEF TypeOK
    <3>3. QED
      BY <3>2, <2>2, <2>3, <2>4 DEF TypeOK, jobs, Steady
  <2>5. CASE ~(state = "LOCAL_DRIVE" /\ conv # c)
    <3>1. UNCHANGED ctl
      BY <2>1, <2>5 DEF SwitchConversation
    <3>2. QED
      BY <3>1, <2>2, <2>3 DEF TypeOK, InSwitch, ReaffirmsPublished, ctl, jobs
  <2>6. QED
    BY <2>4, <2>5
<1>6. QED
  BY <1>1, <1>2, <1>3, <1>4, <1>5 DEF NativeReport

-----------------------------------------------------------------------------
(* The steps of switchDriver(), of its hand-off and of its recovery. *)

LEMMA SwitchDriverStep ==
  ASSUME IInv, NEW s \in Steady, SwitchDriver(s)
  PROVE  IInv' /\ UNCHANGED <<active, conv>>
<1> USE DEF IInv
<1> DEFINE k == njobs + 1
<1>1. /\ state = s /\ njobs < MaxSwitches /\ SetState("SWITCHING", active, conv)
      /\ njobs' = k /\ from' = [from EXCEPT ![k] = s] /\ prior' = [prior EXCEPT ![k] = conv]
      /\ hand' = [hand EXCEPT ![k] = "yield"]
      /\ call' = [pc |-> "race", job |-> k, stopped |-> FALSE]
      /\ UNCHANGED <<lateStop, lateStart, drv, late, lost, missed>>
  BY DEF SwitchDriver
<1>2. k \in Jobs /\ k \in Nat /\ k \in 0..MaxSwitches
  BY <1>1, BatonAssumption DEF TypeOK, Jobs
<1>3. active \in Drivers /\ conv \in MaybeConv /\ active = KindOf(s)
  BY <1>1 DEF TypeOK, InSwitch
<1>4. /\ state' = "SWITCHING" /\ active' = active /\ conv' = conv
      /\ published' \in {None} \cup ((Steady \cup {"SWITCHING"}) \X Drivers \X MaybeConv)
      /\ ReaffirmsPublished'
  BY <1>1, <1>3, SetStateTypes
<1>5. call' \in Calls /\ call'.pc = "race" /\ call'.job = k /\ call'.job <= njobs'
  BY <1>1, <1>2 DEF Calls
<1>6. from'[k] = s /\ prior'[k] = conv
  BY <1>1, <1>2 DEF TypeOK
<1>7. TypeOK'
  BY <1>1, <1>2, <1>3, <1>4, <1>5 DEF TypeOK, drv
<1>8. InSwitch'
  BY <1>2, <1>3, <1>4, <1>5, <1>6 DEF InSwitch, Steady
<1>9. UpDrives'
  BY <1>1 DEF UpDrives, drv
<1>10. QED
  BY <1>4, <1>7, <1>8, <1>9

(* Leaving SWITCHING for the steady state s, with the conversation c. *)
LEMMA LeavesSwitching ==
  ASSUME IInv, NEW s \in Steady, NEW c \in MaybeConv,
         SetState(s, KindOf(s), c), call' = NoCall
  PROVE  /\ state' = s /\ active' = KindOf(s) /\ conv' = c
         /\ state' \in Steady \cup {"STARTING", "SWITCHING"} /\ active' \in Drivers /\ conv' \in MaybeConv
         /\ published' \in {None} \cup ((Steady \cup {"SWITCHING"}) \X Drivers \X MaybeConv)
         /\ call' \in Calls /\ call'.job = 0
         /\ ReaffirmsPublished' /\ InSwitch'
<1>1. /\ state' = s /\ active' = KindOf(s) /\ conv' = c /\ active' \in Drivers
      /\ published' \in {None} \cup ((Steady \cup {"SWITCHING"}) \X Drivers \X MaybeConv)
      /\ ReaffirmsPublished'
  BY KindIsDriver, SetStateTypes
<1>2. call' \in Calls /\ call'.job = 0 /\ call'.pc = "idle"
  BY DEF NoCall, Calls
<1>3. QED
  BY <1>1, <1>2 DEF InSwitch, Steady

LEMMA Reverts ==
  ASSUME IInv, NEW c \in MaybeConv, call.pc # "idle", Revert(c)
  PROVE  /\ from[call.job] \in Steady /\ KindOf(from[call.job]) = active
         /\ SetState(from[call.job], KindOf(from[call.job]), c) /\ call' = NoCall
  BY DEF IInv, InSwitch, TypeOK, Revert

(* Entering the recovery does not disturb what the controller holds. *)
LEMMA RecoverTypes ==
  ASSUME IInv, NEW k \in Jobs, call.pc # "idle", call.job = k, Recover(k),
         UNCHANGED <<ctl, njobs, from, prior>>
  PROVE  call' \in Calls /\ call'.job <= njobs' /\ InSwitch'
<1>1. /\ call'.pc = "recStop" /\ call'.job = k
      /\ call' = [pc |-> "recStop", job |-> k, stopped |-> StoppedCurrent(k)]
  BY DEF Recover
<1>2. StoppedCurrent(k) \in BOOLEAN /\ k \in Nat
  BY JobIsJob DEF StoppedCurrent
<1>3. call' \in Calls
  BY <1>1, <1>2 DEF Calls
<1>4. InSwitch'
  BY <1>1 DEF IInv, InSwitch, ctl
<1>5. QED
  BY <1>1, <1>3, <1>4 DEF IInv, TypeOK

(* What a step of a hand-off or of a recovery does to the baton: nothing until
   the switch ends; and then a conversation that has turns is kept, and the
   baton moves to the other side only if that driver has just started. *)
Settles ==
  /\ state' = "SWITCHING" => UNCHANGED <<active, conv>>
  /\ state # "SWITCHING" => UNCHANGED <<state, active, conv>>
  /\ state = "SWITCHING" /\ conv \in turned => conv' = conv
  /\ active' # active => /\ state = "SWITCHING" /\ state' = Opposite(from[call.job])
                         /\ up'[active']

LEMMA HandoffStep ==
  ASSUME IInv, NEW k \in Jobs, Handoff(k)
  PROVE  IInv' /\ Settles
<1> USE DEF IInv
<1>1. CASE Yielded(k)
  <2>1. /\ hand' = [hand EXCEPT ![k] = "stop"]
        /\ UNCHANGED <<ctl, njobs, from, prior, call, lateStop, lateStart, drv, late, lost, missed>>
    BY <1>1 DEF Yielded
  <2>2. QED
    BY <2>1 DEF TypeOK, InSwitch, UpDrives, ReaffirmsPublished, ctl, drv, Settles
<1>2. CASE CurrentStopped(k)
  <2> DEFINE l == late \/ ~Awaited(k)
  <2>1. l \in BOOLEAN
    OBVIOUS
  <2> HIDE DEF l
  <2>2. /\ hand' = [hand EXCEPT ![k] = "start"] /\ StartRejects(CurrentOf(k)) /\ late' = l
        /\ UNCHANGED <<ctl, njobs, from, prior, call, lateStop, lateStart, lost, missed>>
    BY <1>2 DEF CurrentStopped, Stops, l
  <2>3. /\ up' \in [Drivers -> BOOLEAN] /\ driving' \in [Drivers -> MaybeConv]
        /\ turned' \in SUBSET Convs /\ used' \in SUBSET Convs /\ probes' \in SUBSET Convs
        /\ UpDrives'
    BY <2>2, StopTypes, KindIsDriver DEF CurrentOf
  <2>4. TypeOK'
    BY <2>1, <2>2, <2>3 DEF TypeOK, ctl
  <2>5. QED
    BY <2>2, <2>3, <2>4 DEF InSwitch, ReaffirmsPublished, ctl, Settles
<1>3. CASE NextStarted(k)
  <2> DEFINE l == late \/ ~Awaited(k)
  <2>1. l \in BOOLEAN
    OBVIOUS
  <2> HIDE DEF l
  <2>2. PICK id \in MaybeConv :
          /\ StartResolves(NextOf(k), prior[k], id)
          /\ IF Awaited(k)
             THEN SetState(Opposite(from[k]), NextOf(k), id) /\ call' = NoCall
             ELSE UNCHANGED <<ctl, call>>
    BY <1>3 DEF NextStarted
  <2>3. /\ hand' = [hand EXCEPT ![k] = "end"] /\ late' = l
        /\ UNCHANGED <<njobs, from, prior, lateStop, lateStart, lost, missed>>
    BY <1>3 DEF NextStarted, l
  <2>4. NextOf(k) \in Drivers /\ prior[k] \in MaybeConv /\ Opposite(from[k]) \in Steady
    BY KindIsDriver, OppositeIsSteady DEF NextOf, TypeOK
  <2>5. /\ up' \in [Drivers -> BOOLEAN] /\ driving' \in [Drivers -> MaybeConv]
        /\ turned' \in SUBSET Convs /\ used' \in SUBSET Convs /\ probes' \in SUBSET Convs
        /\ UpDrives' /\ up'[NextOf(k)] /\ (prior[k] \in turned => id = prior[k])
    BY <2>2, <2>4, StartTypes
  <2>6. CASE Awaited(k)
    <3>1. call.pc # "idle" /\ call.job = k
      BY <2>6 DEF Awaited
    <3>2. state = "SWITCHING" /\ prior[k] = conv
      BY <3>1 DEF InSwitch
    <3>3. /\ state' = Opposite(from[k]) /\ active' = NextOf(k) /\ conv' = id
          /\ state' \in Steady \cup {"STARTING", "SWITCHING"} /\ active' \in Drivers /\ conv' \in MaybeConv
          /\ published' \in {None} \cup ((Steady \cup {"SWITCHING"}) \X Drivers \X MaybeConv)
          /\ call' \in Calls /\ call'.job = 0
          /\ ReaffirmsPublished' /\ InSwitch'
      BY <2>2, <2>4, <2>6, LeavesSwitching DEF NextOf
    <3>4. TypeOK'
      BY <2>1, <2>3, <2>5, <3>3 DEF TypeOK
    <3>5. Settles
      BY <3>1, <3>2, <3>3, <2>4, <2>5 DEF Settles, Steady
    <3>6. QED
      BY <3>3, <3>4, <3>5, <2>5
  <2>7. CASE ~Awaited(k)
    <3>1. UNCHANGED <<ctl, call>>
      BY <2>2, <2>7
    <3>2. TypeOK'
      BY <2>1, <2>3, <2>5, <3>1 DEF TypeOK, ctl
    <3>3. QED
      BY <3>1, <3>2, <2>3, <2>5 DEF InSwitch, ReaffirmsPublished, ctl, Settles
  <2>8. QED
    BY <2>6, <2>7
<1>4. CASE NextFailed(k)
  <2> DEFINE l == late \/ ~Awaited(k)
  <2>1. l \in BOOLEAN
    OBVIOUS
  <2> HIDE DEF l
  <2>2. /\ hand' = [hand EXCEPT ![k] = "end"] /\ StartRejects(NextOf(k)) /\ late' = l
        /\ IF Awaited(k) THEN Recover(k) ELSE UNCHANGED call
        /\ UNCHANGED <<ctl, njobs, from, prior, lateStop, lateStart, lost, missed>>
    BY <1>4 DEF NextFailed, l
  <2>3. /\ up' \in [Drivers -> BOOLEAN] /\ driving' \in [Drivers -> MaybeConv]
        /\ turned' \in SUBSET Convs /\ used' \in SUBSET Convs /\ probes' \in SUBSET Convs
        /\ UpDrives'
    BY <2>2, StopTypes, KindIsDriver DEF NextOf
  <2>4. call' \in Calls /\ call'.job <= njobs' /\ InSwitch'
    <3>1. CASE Awaited(k)
      BY <2>2, <3>1, RecoverTypes DEF Awaited
    <3>2. CASE ~Awaited(k)
      BY <2>2, <3>2 DEF InSwitch, TypeOK, ctl
    <3>3. QED
      BY <3>1, <3>2
  <2>5. TypeOK'
    BY <2>1, <2>2, <2>3, <2>4 DEF TypeOK, ctl
  <2>6. QED
    BY <2>2, <2>3, <2>4, <2>5 DEF ReaffirmsPublished, ctl, Settles
<1>5. QED
  BY <1>1, <1>2, <1>3, <1>4 DEF Handoff

Recovery ==
  \/ SwitchTimeout
  \/ RecNextStopped \/ RecStopTimeout
  \/ RecCurrentStarted \/ RecCurrentFailed \/ RecStartTimeout

(* A revert within the recovery keeps the types and the invariants, whatever
   it did to the drivers. *)
LEMMA RevertStep ==
  ASSUME IInv, NEW c \in MaybeConv, call.pc # "idle", Revert(c),
         UNCHANGED <<njobs, hand, from, prior, late>>,
         lateStop' \in SUBSET Jobs, lateStart' \in SUBSET Jobs,
         lost' \in BOOLEAN, missed' = missed,
         up' \in [Drivers -> BOOLEAN], driving' \in [Drivers -> MaybeConv],
         turned' \in SUBSET Convs, used' \in SUBSET Convs, probes' \in SUBSET Convs,
         UpDrives',
         conv \in turned => c = conv
  PROVE  IInv' /\ Settles
<1>1. /\ from[call.job] \in Steady /\ KindOf(from[call.job]) = active
      /\ SetState(from[call.job], KindOf(from[call.job]), c) /\ call' = NoCall
  BY Reverts
<1>2. state = "SWITCHING"
  BY DEF IInv, InSwitch
<1>3. /\ state' = from[call.job] /\ active' = active /\ conv' = c
      /\ state' \in Steady \cup {"STARTING", "SWITCHING"} /\ active' \in Drivers /\ conv' \in MaybeConv
      /\ published' \in {None} \cup ((Steady \cup {"SWITCHING"}) \X Drivers \X MaybeConv)
      /\ call' \in Calls /\ call'.job = 0
      /\ ReaffirmsPublished' /\ InSwitch'
  BY <1>1, LeavesSwitching
<1>4. TypeOK'
  BY <1>3, BatonAssumption DEF IInv, TypeOK
<1>5. Settles
  BY <1>1, <1>2, <1>3 DEF Settles, Steady
<1>6. QED
  BY <1>3, <1>4, <1>5 DEF IInv

LEMMA DriverTypes ==
  ASSUME IInv, UNCHANGED drv
  PROVE  /\ up' \in [Drivers -> BOOLEAN] /\ driving' \in [Drivers -> MaybeConv]
         /\ turned' \in SUBSET Convs /\ used' \in SUBSET Convs /\ probes' \in SUBSET Convs
         /\ UpDrives'
  BY DEF IInv, TypeOK, UpDrives, drv

LEMMA AfterRecStopStep ==
  ASSUME IInv, call.pc = "recStop", AfterRecStop,
         UNCHANGED <<njobs, hand, from, prior, late, lost, missed>>,
         lateStop' \in SUBSET Jobs, lateStart' = lateStart,
         up' \in [Drivers -> BOOLEAN], driving' \in [Drivers -> MaybeConv],
         turned' \in SUBSET Convs, used' \in SUBSET Convs, probes' \in SUBSET Convs,
         UpDrives'
  PROVE  IInv' /\ Settles
<1>1. CASE call.stopped
  <2>1. call' = [call EXCEPT !.pc = "recStart"] /\ UNCHANGED ctl
    BY <1>1 DEF AfterRecStop
  <2>2. call' \in Calls /\ call'.pc = "recStart" /\ call'.job = call.job
    BY <2>1 DEF IInv, TypeOK, Calls
  <2>3. TypeOK' /\ InSwitch' /\ ReaffirmsPublished'
    BY <2>1, <2>2 DEF IInv, TypeOK, InSwitch, ReaffirmsPublished, ctl
  <2>4. Settles
    BY <2>1 DEF Settles, ctl
  <2>5. QED
    BY <2>3, <2>4 DEF IInv
<1>2. CASE ~call.stopped
  <2>1. Revert(prior[call.job]) /\ prior[call.job] = conv /\ conv \in MaybeConv
    BY <1>2 DEF AfterRecStop, IInv, InSwitch, TypeOK
  <2>2. lateStart' \in SUBSET Jobs /\ lost' \in BOOLEAN
    BY DEF IInv, TypeOK
  <2>3. QED
    BY <2>1, <2>2, RevertStep
<1>3. QED
  BY <1>1, <1>2

LEMMA RecoveryStep ==
  ASSUME IInv, Recovery
  PROVE  IInv' /\ Settles
<1>1. call.pc # "idle" => /\ call.job \in Jobs /\ prior[call.job] = conv
                          /\ conv \in MaybeConv /\ None \in MaybeConv
  BY DEF IInv, InSwitch, TypeOK, MaybeConv
<1>2. lateStop \in SUBSET Jobs /\ lateStart \in SUBSET Jobs /\ lost \in BOOLEAN
  BY DEF IInv, TypeOK
<1>3. CASE SwitchTimeout
  <2>1. /\ call.pc = "race" /\ Recover(call.job)
        /\ UNCHANGED <<ctl, njobs, hand, from, prior, lateStop, lateStart, drv, late, lost, missed>>
    BY <1>3 DEF SwitchTimeout
  <2>2. call' \in Calls /\ call'.job <= njobs' /\ InSwitch'
    BY <2>1, <1>1, RecoverTypes
  <2>3. QED
    BY <2>1, <2>2 DEF IInv, TypeOK, UpDrives, ReaffirmsPublished, Settles, ctl, drv
<1>4. CASE RecNextStopped
  <2>1. /\ call.pc = "recStop" /\ StartRejects(NextOf(call.job)) /\ AfterRecStop
        /\ UNCHANGED <<njobs, hand, from, prior, lateStop, lateStart, late, lost, missed>>
    BY <1>4 DEF RecNextStopped, Stops
  <2>2. /\ up' \in [Drivers -> BOOLEAN] /\ driving' \in [Drivers -> MaybeConv]
        /\ turned' \in SUBSET Convs /\ used' \in SUBSET Convs /\ probes' \in SUBSET Convs
        /\ UpDrives'
    BY <2>1, StopTypes, KindIsDriver DEF IInv, NextOf
  <2>3. QED
    BY <2>1, <2>2, <1>2, AfterRecStopStep
<1>5. CASE RecStopTimeout
  <2>1. /\ call.pc = "recStop" /\ AfterRecStop /\ lateStop' = lateStop \cup {call.job}
        /\ UNCHANGED <<njobs, hand, from, prior, lateStart, drv, late, lost, missed>>
    BY <1>5 DEF RecStopTimeout
  <2>2. lateStop' \in SUBSET Jobs
    BY <2>1, <1>1, <1>2
  <2>3. QED
    BY <2>1, <2>2, DriverTypes, AfterRecStopStep
<1>6. CASE RecCurrentStarted
  <2> DEFINE kept(id) == IF id # None THEN id ELSE prior[call.job]
  <2>1. PICK id \in MaybeConv :
          /\ StartResolves(CurrentOf(call.job), prior[call.job], id) /\ Revert(kept(id))
    BY <1>6 DEF RecCurrentStarted
  <2>2. /\ call.pc # "idle"
        /\ UNCHANGED <<njobs, hand, from, prior, lateStop, lateStart, late, lost, missed>>
    BY <1>6 DEF RecCurrentStarted
  <2>3. /\ up' \in [Drivers -> BOOLEAN] /\ driving' \in [Drivers -> MaybeConv]
        /\ turned' \in SUBSET Convs /\ used' \in SUBSET Convs /\ probes' \in SUBSET Convs
        /\ UpDrives' /\ (conv \in turned => id = conv)
    BY <2>1, <2>2, <1>1, StartTypes, KindIsDriver DEF IInv, CurrentOf
  <2>4. kept(id) \in MaybeConv /\ (conv \in turned => kept(id) = conv)
    BY <2>2, <2>3, <1>1
  <2> HIDE DEF kept
  <2>5. QED
    BY <2>1, <2>2, <2>3, <2>4, <1>2, RevertStep
<1>7. CASE RecCurrentFailed
  <2>1. /\ call.pc # "idle" /\ StartRejects(CurrentOf(call.job)) /\ Revert(prior[call.job]) /\ lost' = TRUE
        /\ UNCHANGED <<njobs, hand, from, prior, lateStop, lateStart, late, missed>>
    BY <1>7 DEF RecCurrentFailed
  <2>2. /\ up' \in [Drivers -> BOOLEAN] /\ driving' \in [Drivers -> MaybeConv]
        /\ turned' \in SUBSET Convs /\ used' \in SUBSET Convs /\ probes' \in SUBSET Convs
        /\ UpDrives'
    BY <2>1, StopTypes, KindIsDriver DEF IInv, CurrentOf
  <2>3. QED
    BY <2>1, <2>2, <1>1, <1>2, RevertStep
<1>8. CASE RecStartTimeout
  <2>1. /\ call.pc # "idle" /\ Revert(prior[call.job])
        /\ lateStart' = lateStart \cup {call.job} /\ lost' = TRUE
        /\ UNCHANGED <<njobs, hand, from, prior, lateStop, drv, late, missed>>
    BY <1>8 DEF RecStartTimeout
  <2>2. lateStart' \in SUBSET Jobs
    BY <2>1, <1>1, <1>2
  <2>3. QED
    BY <2>1, <2>2, <1>1, <1>2, DriverTypes, RevertStep
<1>9. QED
  BY <1>3, <1>4, <1>5, <1>6, <1>7, <1>8 DEF Recovery

LEMMA LateStep ==
  ASSUME IInv, NEW k \in Jobs, LateStopDone(k) \/ LateStartDone(k)
  PROVE  IInv' /\ UNCHANGED <<state, active, conv>>
<1>1. UNCHANGED <<ctl, njobs, hand, from, prior, call, lost, missed>> /\ late' = TRUE
  BY DEF LateStopDone, LateStartDone
<1>2. lateStop' \in SUBSET Jobs /\ lateStart' \in SUBSET Jobs
  BY DEF LateStopDone, LateStartDone, IInv, TypeOK
<1>3. NextOf(k) \in Drivers /\ CurrentOf(k) \in Drivers /\ prior[k] \in MaybeConv
  BY KindIsDriver DEF NextOf, CurrentOf, IInv, TypeOK
<1>4. /\ up' \in [Drivers -> BOOLEAN] /\ driving' \in [Drivers -> MaybeConv]
      /\ turned' \in SUBSET Convs /\ used' \in SUBSET Convs /\ probes' \in SUBSET Convs
      /\ UpDrives'
  <2>1. CASE LateStopDone(k)
    BY <2>1, <1>3, StopTypes DEF LateStopDone, Stops, IInv
  <2>2. CASE LateStartDone(k)
    BY <2>2, <1>3, StopTypes, StartTypes DEF LateStartDone, IInv
  <2>3. QED
    BY <2>1, <2>2
<1>5. QED
  BY <1>1, <1>2, <1>4 DEF IInv, TypeOK, InSwitch, ReaffirmsPublished, ctl

-----------------------------------------------------------------------------
(* Which drivers run, as long as no abandoned call has touched one: none before
   begin(); in a steady state that state's driver alone; and during a switch
   the one it started from until the hand-off has stopped it, with the other
   one down.  The excuses are those of TimelySingleDriver: a recovery's stop
   still open, a revival given up. *)
NoSecond(d) == ~up[d] \/ lateStop # {}
Serves(d) == up[d] \/ lost
StoppedSoFar == IF call.pc = "race" THEN hand[call.job] = "start" ELSE call.stopped

AtRest ==
  /\ state = "STARTING" => \A d \in Drivers : ~up[d]
  /\ state \in Steady => NoSecond(KindOf(Opposite(state))) /\ Serves(KindOf(state))

InFlight ==
  call.pc # "idle" =>
    /\ NoSecond(NextOf(call.job))
    /\ StoppedSoFar \/ Serves(CurrentOf(call.job))
    /\ call.pc = "race" /\ hand[call.job] = "start" => ~up[CurrentOf(call.job)]

Timely == ~late => AtRest /\ InFlight

LEMMA TwoDrivers ==
  ASSUME NEW s \in Steady
  PROVE  /\ KindOf(s) \in Drivers /\ KindOf(Opposite(s)) \in Drivers
         /\ KindOf(s) # KindOf(Opposite(s)) /\ Opposite(s) \in Steady
         /\ Opposite(Opposite(s)) = s
  BY DEF Steady, KindOf, Opposite, Drivers

LEMMA StartRuns ==
  ASSUME NEW d \in Drivers, NEW c, NEW id, StartResolves(d, c, id)
  PROVE  up' = [up EXCEPT ![d] = TRUE]
  BY DEF StartResolves, StartResumes, StartMints

(* A step that leaves the call, the hand-offs and the processes alone. *)
LEMMA TimelyKept ==
  ASSUME IInv, Timely, late' = late, UNCHANGED <<jobs, up, lost>>,
         state' = state
  PROVE  Timely'
  BY DEF Timely, AtRest, InFlight, NoSecond, Serves, StoppedSoFar, jobs, CurrentOf, NextOf

LEMMA TimelyNative ==
  ASSUME IInv, Timely, NativeReport
  PROVE  Timely'
<1>1. CASE Begin
  <2>1. PICK id \in MaybeConv : StartResolves("local_tui", None, id) /\ SetState("LOCAL_DRIVE", "local_tui", id)
    BY <1>1 DEF Begin
  <2>2. state = "STARTING" /\ UNCHANGED <<jobs, late, lost, missed>>
    BY <1>1 DEF Begin
  <2>3. up' = [up EXCEPT !["local_tui"] = TRUE]
    BY <2>1, StartRuns DEF Drivers
  <2>4. state' = "LOCAL_DRIVE" /\ call'.pc = "idle"
    BY <2>1, <2>2 DEF SetState, IInv, InSwitch, jobs
  <2>5. up \in [Drivers -> BOOLEAN] /\ KindOf("LOCAL_DRIVE") = "local_tui"
        /\ KindOf(Opposite("LOCAL_DRIVE")) = "mobile_acp"
    BY DEF IInv, TypeOK, KindOf, Opposite
  <2>6. QED
    BY <2>2, <2>3, <2>4, <2>5 DEF Timely, AtRest, InFlight, NoSecond, Serves, Drivers
<1>2. CASE \E d \in Drivers : Turn(d)
  BY <1>2, TimelyKept DEF Turn, ctl
<1>3. CASE \E c \in Convs : RebindConversation(c)
  <2>1. /\ late' = late /\ UNCHANGED <<jobs, up, lost>> /\ state' = state
    BY <1>3 DEF RebindConversation, RebindAllowed, SetState, ctl
  <2>2. QED
    BY <2>1, TimelyKept
<1>4. CASE \E c \in Convs : DiscoveryGivesUp(c)
  BY <1>4, TimelyKept DEF DiscoveryGivesUp, ctl
<1>5. CASE \E c \in Convs : SwitchConversation(c)
  <2>1. /\ late' = late /\ UNCHANGED <<jobs, up, lost>> /\ state' = state
    BY <1>5 DEF SwitchConversation, SetState, ctl
  <2>2. QED
    BY <2>1, TimelyKept
<1>6. QED
  BY <1>1, <1>2, <1>3, <1>4, <1>5 DEF NativeReport

LEMMA TimelyBegins ==
  ASSUME IInv, Timely, NEW s \in Steady, SwitchDriver(s)
  PROVE  Timely'
<1> DEFINE k == njobs + 1
<1>1. /\ state = s /\ njobs < MaxSwitches /\ state' = "SWITCHING"
      /\ njobs' = k /\ from' = [from EXCEPT ![k] = s]
      /\ hand' = [hand EXCEPT ![k] = "yield"]
      /\ call' = [pc |-> "race", job |-> k, stopped |-> FALSE]
      /\ UNCHANGED <<lateStop, up, late, lost>>
  BY DEF SwitchDriver, SetState, drv
<1>2. k \in Jobs
  BY <1>1, BatonAssumption DEF IInv, TypeOK, Jobs
<1>3. from'[k] = s /\ hand'[k] = "yield" /\ call'.job = k /\ call'.pc = "race"
  BY <1>1, <1>2 DEF IInv, TypeOK
<1>4. QED
  BY <1>1, <1>3 DEF Timely, AtRest, InFlight, NoSecond, Serves, StoppedSoFar, CurrentOf, NextOf, Steady

(* A step of an abandoned hand-off marks the run; one of the awaited hand-off
   finds the drivers as its switch left them. *)
LEMMA TimelyHandoff ==
  ASSUME IInv, Timely, NEW k \in Jobs, Handoff(k)
  PROVE  Timely'
<1> SUFFICES ASSUME ~late' PROVE AtRest' /\ InFlight'
  BY DEF Timely
<1> USE DEF NoSecond, Serves, StoppedSoFar, CurrentOf, NextOf
<1>1. /\ hand \in [Jobs -> {"none", "yield", "stop", "start", "end"}]
      /\ up \in [Drivers -> BOOLEAN] /\ from[k] \in Steady
  BY DEF IInv, TypeOK
<1>2. /\ KindOf(from[k]) \in Drivers /\ KindOf(Opposite(from[k])) \in Drivers
      /\ KindOf(from[k]) # KindOf(Opposite(from[k]))
      /\ Opposite(from[k]) \in Steady /\ Opposite(Opposite(from[k])) = from[k]
  BY <1>1, TwoDrivers
<1>3. call.pc # "idle" => state \notin Steady \cup {"STARTING"} /\ call.job \in Jobs
  BY DEF IInv, InSwitch, Steady
<1>4. CASE Yielded(k)
  <2>1. /\ hand[k] = "yield" /\ hand' = [hand EXCEPT ![k] = "stop"]
        /\ UNCHANGED <<state, from, call, lateStop, up, late, lost>>
    BY <1>4 DEF Yielded, ctl, drv
  <2>2. call.job \in Jobs => (hand'[call.job] = "start" <=> hand[call.job] = "start")
    BY <2>1, <1>1
  <2>3. AtRest'
    BY <2>1 DEF Timely, AtRest
  <2>4. InFlight'
    BY <2>1, <2>2, <1>3 DEF Timely, InFlight
  <2>5. QED
    BY <2>3, <2>4
<1>5. CASE CurrentStopped(k)
  <2>1. /\ hand' = [hand EXCEPT ![k] = "start"] /\ up' = [up EXCEPT ![CurrentOf(k)] = FALSE]
        /\ UNCHANGED <<state, from, call, lateStop, lost>>
        /\ ~late /\ call.pc = "race" /\ call.job = k
    BY <1>5 DEF CurrentStopped, Stops, StartRejects, Awaited, ctl
  <2>2. hand'[k] = "start" /\ ~up'[CurrentOf(k)] /\ up'[NextOf(k)] = up[NextOf(k)]
    BY <2>1, <1>1, <1>2
  <2>3. QED
    BY <2>1, <2>2, <1>3 DEF Timely, AtRest, InFlight
<1>6. CASE NextStarted(k)
  <2>1. PICK id \in MaybeConv :
          /\ StartResolves(NextOf(k), prior[k], id)
          /\ IF Awaited(k)
             THEN SetState(Opposite(from[k]), NextOf(k), id) /\ call' = NoCall
             ELSE UNCHANGED <<ctl, call>>
    BY <1>6 DEF NextStarted
  <2>2. hand[k] = "start" /\ ~late /\ Awaited(k) /\ UNCHANGED <<from, lateStop, lost>>
    BY <1>6 DEF NextStarted
  <2>3. up' = [up EXCEPT ![NextOf(k)] = TRUE]
    BY <2>1, <1>2, StartRuns
  <2>4. state' = Opposite(from[k]) /\ call'.pc = "idle"
    BY <2>1, <2>2 DEF SetState, NoCall
  <2>5. ~up[CurrentOf(k)]
    BY <2>2 DEF Timely, InFlight, Awaited
  <2>6. ~up'[CurrentOf(k)] /\ up'[NextOf(k)]
    BY <2>3, <2>5, <1>1, <1>2
  <2>7. QED
    BY <2>4, <2>6, <1>2 DEF AtRest, InFlight, Steady
<1>7. CASE NextFailed(k)
  <2>1. /\ hand[k] = "start" /\ up' = [up EXCEPT ![NextOf(k)] = FALSE]
        /\ UNCHANGED <<state, from, lateStop, lost>>
        /\ ~late /\ call.pc = "race" /\ call.job = k /\ Recover(k)
    BY <1>7 DEF NextFailed, StartRejects, Awaited, ctl
  <2>2. call'.pc = "recStop" /\ call'.job = k /\ call'.stopped /\ ~up'[NextOf(k)]
    BY <2>1, <1>1, <1>2 DEF Recover, StoppedCurrent
  <2>3. QED
    BY <2>1, <2>2, <1>3 DEF AtRest, InFlight
<1>8. QED
  BY <1>4, <1>5, <1>6, <1>7 DEF Handoff

(* A revert with the driver it reverts to running, or given up, and the other
   one down, or its stop still open. *)
LEMMA TimelyRevert ==
  ASSUME IInv, call.pc # "idle", NEW c \in MaybeConv, Revert(c),
         ~up'[NextOf(call.job)] \/ lateStop' # {}, up'[CurrentOf(call.job)] \/ lost'
  PROVE  AtRest' /\ InFlight'
<1>1. state' = from[call.job] /\ call'.pc = "idle" /\ from[call.job] \in Steady
  BY Reverts DEF SetState, NoCall
<1>2. QED
  BY <1>1 DEF AtRest, InFlight, NoSecond, Serves, CurrentOf, NextOf, Steady

LEMMA TimelyRecovery ==
  ASSUME IInv, Timely, Recovery
  PROVE  Timely'
<1> SUFFICES ASSUME ~late' PROVE AtRest' /\ InFlight'
  BY DEF Timely
<1> DEFINE cur == CurrentOf(call.job)
<1> DEFINE nxt == NextOf(call.job)
<1>1. /\ call \in Calls /\ call.pc # "idle" /\ ~late /\ late' = late
      /\ UNCHANGED <<hand, from>>
  BY DEF IInv, TypeOK, Recovery, SwitchTimeout, RecNextStopped, RecStopTimeout,
         RecCurrentStarted, RecCurrentFailed, RecStartTimeout
<1>2. /\ call.job \in Jobs /\ state \notin Steady \cup {"STARTING"}
      /\ prior[call.job] \in MaybeConv
  BY <1>1 DEF IInv, InSwitch, TypeOK, Steady
<1>3. cur \in Drivers /\ nxt \in Drivers /\ cur # nxt /\ up \in [Drivers -> BOOLEAN]
  BY <1>2, TwoDrivers DEF IInv, TypeOK, CurrentOf, NextOf
<1>4. NoSecond(nxt) /\ (StoppedSoFar \/ Serves(cur))
  BY <1>1 DEF Timely, InFlight
<1> HIDE DEF cur, nxt
<1>5. CASE SwitchTimeout
  <2>1. /\ call.pc = "race" /\ Recover(call.job)
        /\ UNCHANGED <<state, lateStop, up, lost>>
    BY <1>5 DEF SwitchTimeout, ctl, drv
  <2>2. /\ call'.pc = "recStop" /\ call'.job = call.job
        /\ call'.stopped = (hand[call.job] = "start")
    BY <2>1 DEF Recover, StoppedCurrent
  <2>3. AtRest'
    BY <2>1, <1>2 DEF AtRest
  <2>4. NoSecond(nxt)' /\ (StoppedSoFar \/ Serves(cur))'
    BY <2>1, <2>2, <1>1, <1>4 DEF NoSecond, Serves, StoppedSoFar, cur, nxt, CurrentOf, NextOf
  <2>5. QED
    BY <2>2, <2>3, <2>4 DEF InFlight, cur, nxt
<1>6. ASSUME call.pc = "recStop", AfterRecStop, UNCHANGED lost,
             ~up'[nxt] \/ lateStop' # {}, up'[cur] = up[cur]
      PROVE  AtRest' /\ InFlight'
  <2>1. CASE call.stopped
    <3>1. call' = [call EXCEPT !.pc = "recStart"] /\ state' = state
      BY <1>6, <2>1 DEF AfterRecStop, ctl
    <3>2. call'.pc = "recStart" /\ call'.job = call.job /\ call'.stopped
      BY <3>1, <2>1, <1>1 DEF Calls
    <3>3. QED
      BY <3>1, <3>2, <1>1, <1>2, <1>6
      DEF AtRest, InFlight, NoSecond, StoppedSoFar, nxt, NextOf
  <2>2. CASE ~call.stopped
    <3>1. Revert(prior[call.job])
      BY <2>2, <1>6 DEF AfterRecStop
    <3>2. up'[cur] \/ lost'
      BY <2>2, <1>4, <1>6 DEF StoppedSoFar, Serves
    <3>3. QED
      BY <3>1, <3>2, <1>1, <1>2, <1>6, TimelyRevert DEF cur, nxt
  <2>3. QED
    BY <2>1, <2>2
<1>7. CASE RecNextStopped
  <2>1. /\ call.pc = "recStop" /\ up' = [up EXCEPT ![nxt] = FALSE]
        /\ AfterRecStop /\ UNCHANGED lost
    BY <1>7 DEF RecNextStopped, Stops, StartRejects, nxt
  <2>2. ~up'[nxt] /\ up'[cur] = up[cur]
    BY <2>1, <1>3
  <2>3. QED
    BY <2>1, <2>2, <1>6
<1>8. CASE RecStopTimeout
  <2>1. /\ call.pc = "recStop" /\ lateStop' = lateStop \cup {call.job}
        /\ AfterRecStop /\ UNCHANGED <<up, lost>>
    BY <1>8 DEF RecStopTimeout, drv
  <2>2. lateStop' # {} /\ up'[cur] = up[cur]
    BY <2>1
  <2>3. QED
    BY <2>1, <2>2, <1>6
<1>9. CASE RecCurrentStarted
  <2> DEFINE kept(id) == IF id # None THEN id ELSE prior[call.job]
  <2>1. PICK id \in MaybeConv :
          StartResolves(cur, prior[call.job], id) /\ Revert(kept(id))
    BY <1>9 DEF RecCurrentStarted, cur
  <2>2. kept(id) \in MaybeConv
    BY <1>2
  <2>3. up' = [up EXCEPT ![cur] = TRUE] /\ lateStop' = lateStop
    BY <2>1, <1>3, <1>9, StartRuns DEF RecCurrentStarted
  <2>4. up'[cur] /\ (~up'[nxt] \/ lateStop' # {})
    BY <2>3, <1>3, <1>4 DEF NoSecond
  <2> HIDE DEF kept
  <2>5. QED
    BY <2>1, <2>2, <2>4, <1>1, TimelyRevert DEF cur, nxt
<1>10. CASE RecCurrentFailed
  <2>1. /\ up' = [up EXCEPT ![cur] = FALSE] /\ lost' /\ lateStop' = lateStop
        /\ Revert(prior[call.job])
    BY <1>10 DEF RecCurrentFailed, StartRejects, cur
  <2>2. ~up'[nxt] \/ lateStop' # {}
    BY <2>1, <1>3, <1>4 DEF NoSecond
  <2>3. QED
    BY <2>1, <2>2, <1>1, <1>2, TimelyRevert DEF cur, nxt
<1>11. CASE RecStartTimeout
  <2>1. UNCHANGED <<up, lateStop>> /\ lost' /\ Revert(prior[call.job])
    BY <1>11 DEF RecStartTimeout, drv
  <2>2. QED
    BY <2>1, <1>1, <1>2, <1>4, TimelyRevert DEF NoSecond, cur, nxt
<1>12. QED
  BY <1>5, <1>7, <1>8, <1>9, <1>10, <1>11 DEF Recovery

LEMMA TimelyStep ==
  ASSUME IInv, Timely, [Next]_vars
  PROVE  Timely'
<1>1. CASE \E k \in Jobs : LateStopDone(k) \/ LateStartDone(k)
  BY <1>1 DEF LateStopDone, LateStartDone, Timely
<1>2. CASE UNCHANGED vars
  BY <1>2, TimelyKept DEF vars, ctl, drv
<1>3. QED
  BY <1>1, <1>2, TimelyNative, TimelyBegins, TimelyHandoff, TimelyRecovery
  DEF Next, NativeReport, Recovery

-----------------------------------------------------------------------------
(* Every step keeps the inductive invariant, keeps a conversation that has
   turns, and passes the baton only to a driver that runs. *)
KeepsConversation ==
  state = "SWITCHING" /\ state' # "SWITCHING" /\ conv \in turned => conv' = conv
PassesToRunning ==
  active' # active => state = "SWITCHING" /\ state' = Opposite(from[call.job]) /\ up'[active']

LEMMA Step ==
  ASSUME IInv, [Next]_vars
  PROVE  IInv' /\ KeepsConversation /\ PassesToRunning
<1>1. CASE NativeReport
  BY <1>1, NativeStep DEF KeepsConversation, PassesToRunning
<1>2. CASE \E s \in Steady : SwitchDriver(s)
  <2>1. PICK s \in Steady : SwitchDriver(s)
    BY <1>2
  <2>2. state # "SWITCHING"
    BY <2>1 DEF SwitchDriver, Steady
  <2>3. QED
    BY <2>1, <2>2, SwitchDriverStep DEF KeepsConversation, PassesToRunning
<1>3. CASE \E k \in Jobs : Handoff(k)
  BY <1>3, HandoffStep DEF Settles, KeepsConversation, PassesToRunning
<1>4. CASE Recovery
  BY <1>4, RecoveryStep DEF Settles, KeepsConversation, PassesToRunning
<1>5. CASE \E k \in Jobs : LateStopDone(k) \/ LateStartDone(k)
  BY <1>5, LateStep DEF KeepsConversation, PassesToRunning
<1>6. CASE UNCHANGED vars
  <2>1. TypeOK' /\ UNCHANGED <<state, active, conv>>
    BY <1>6 DEF IInv, TypeOK, vars, ctl, jobs, drv
  <2>2. InSwitch' /\ UpDrives' /\ ReaffirmsPublished'
    BY <1>6 DEF IInv, InSwitch, UpDrives, ReaffirmsPublished, vars, ctl, jobs, drv
  <2>3. QED
    BY <2>1, <2>2 DEF IInv, KeepsConversation, PassesToRunning
<1>7. QED
  BY <1>1, <1>2, <1>3, <1>4, <1>5, <1>6 DEF Next, NativeReport, Recovery

(* Type correctness of the controller, its hand-offs and its drivers. *)
THEOREM TypeCorrect == Spec => []TypeOK
<1>1. IInv => TypeOK
  BY DEF IInv
<1>2. QED
  BY InitIInv, Step, <1>1, PTL DEF Spec

(* The triple currentState() hands to the heartbeat is the one the controller
   published last, at every moment after the first publication. *)
THEOREM ReaffirmsLastPublished == Spec => []ReaffirmsPublished
<1>1. IInv => ReaffirmsPublished
  BY DEF IInv
<1>2. QED
  BY InitIInv, Step, <1>1, PTL DEF Spec

(* However a switch ends (done, failed, timed out, with earlier hand-offs still
   at work), a conversation that has turns stays the session's conversation. *)
THEOREM ConversationIsKept == Spec => ConversationKept
<1>1. IInv /\ [Next]_vars => [KeepsConversation]_vars
  BY Step
<1>2. QED
  BY InitIInv, Step, <1>1, PTL DEF Spec, ConversationKept, KeepsConversation

(* The baton changes hands only as a switch completes, to a driver that runs. *)
THEOREM BatonPassesOnlyToRunning == Spec => BatonPassesToRunning
<1>1. IInv /\ [Next]_vars => [PassesToRunning]_vars
  BY Step
<1>2. QED
  BY InitIInv, Step, <1>1, PTL DEF Spec, BatonPassesToRunning, PassesToRunning

(* Until an abandoned call touches a driver, the driver of a steady state runs,
   or its revival was given up, and the other one does not, or a recovery's
   stop of it is still open: whatever fails, times out or is overtaken. *)
THEOREM OneDriverInTime == Spec => []TimelySingleDriver
<1>1. Init => Timely
  BY DEF Init, Timely, AtRest, InFlight, NoCall, Steady, Drivers
<1>2. IInv /\ Timely => TimelySingleDriver
  BY DEF IInv, InSwitch, Timely, AtRest, NoSecond, Serves, TimelySingleDriver
<1>3. QED
  BY InitIInv, Step, TimelyStep, <1>1, <1>2, PTL DEF Spec
=============================================================================
