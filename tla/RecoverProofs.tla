----------------------------- MODULE RecoverProofs -----------------------------
(***************************************************************************)
(* RecoverCrash and RecoverEvents for any states, any number of changes,   *)
(* of trials and of looks: what a crash scenario that passes has shown,    *)
(* and an assertion that times out.  The waits are covered by the lemmas   *)
(* of WatchProofs.                                                         *)
(***************************************************************************)
EXTENDS RecoverEvents, WatchProofs

USE WatchAssumption, RecoverAssumption, EventsAssumption

\* The scenario starts on a cluster nobody has harmed.
LEMMA TestInitInv == TestInit => RecoverInv
<1> SUFFICES ASSUME TestInit PROVE RecoverInv
  OBVIOUS
<1>1. PICK s \in Restored : log = <<[type |-> "ADDED", name |-> cluster, state |-> s]>>
  BY DEF TestInit
<1>2. log \in Seq(Event) /\ Now = 1 /\ log[1].state = s
  BY <1>1 DEF Event, Now
<1>3. TypeOK
  BY <1>2 DEF TestInit, TypeOK, Version, Now, Want
<1>4. scenario \in Scenario /\ scenario.victims \in Nat \ {0}
  BY DEF TestInit
<1>5. TestTypeOK
  <2>1. step \in Steps
    BY DEF TestInit, Steps
  <2>2. rv \in Version /\ killedAt \in Version
    BY DEF TestInit, Version
  <2>3. victim \in Victims
    BY <1>4 DEF TestInit, Victims
  <2>4. trials \in 1..MaxTrials
    BY DEF TestInit
  <2>5. down \subseteq hit /\ hit \subseteq Victims /\ marked \in BOOLEAN
    BY DEF TestInit
  <2> QED BY <1>3, <1>4, <2>1, <2>2, <2>3, <2>4, <2>5 DEF TestTypeOK
<1>6. WaitInv
  BY <1>2, <1>3 DEF TestInit, WaitInv, Returned, NilIsTrue
<1>7. \A k \in 1..Now : log[k].state \notin Degraded
  BY <1>2
<1>8. 1..(victim - 1) \subseteq hit
  BY DEF TestInit
<1> QED BY <1>2, <1>5, <1>6, <1>7, <1>8 DEF TestInit, RecoverInv, RecoveryProven

\* What a wait that returned nil saw was reported at or before that version.
LEMMA SeenWasReported ==
  ASSUME TypeOK, NEW states, NEW v \in 0..Now, InStateAt(cluster, v, states)
  PROVE  \E k \in 1..v : /\ log[k].state \in states
                        /\ \A j \in (k + 1)..v : log[j].name # cluster
  BY DEF InStateAt, LastChange

\* What kind of value each variable of the test has.
LEMMA TestTypes ==
  ASSUME RecoverInv
  PROVE  /\ TypeOK /\ Now \in Nat /\ Now \in Version /\ Now <= MaxVersion
         /\ rv \in Nat /\ rv \in 0..Now /\ killedAt \in Nat
         /\ scenario \in Scenario /\ scenario.victims \in Nat \ {0} /\ scenario.versioned \in BOOLEAN
         /\ victim \in Nat /\ victim >= 1 /\ victim <= scenario.victims
         /\ begin \in Nat /\ (pc # "idle" => begin <= Now)
<1>1. TypeOK /\ TestTypeOK
  BY DEF RecoverInv, WaitInv
<1>2. Now \in Nat /\ Now \in Version /\ Now <= MaxVersion /\ begin \in Nat
  BY <1>1 DEF TypeOK, Version, Now
<1>3. rv \in Nat /\ rv \in 0..Now /\ killedAt \in Nat
  BY <1>1, <1>2 DEF TestTypeOK, Version, RecoverInv
<1>4. scenario \in Scenario /\ scenario.victims \in Nat \ {0} /\ scenario.versioned \in BOOLEAN
  BY <1>1 DEF TestTypeOK
<1>5. victim \in Nat /\ victim >= 1 /\ victim <= scenario.victims
  BY <1>1, <1>4 DEF TestTypeOK, Victims
<1>6. pc # "idle" => begin <= Now
  BY DEF RecoverInv, WaitInv
<1> QED BY <1>1, <1>2, <1>3, <1>4, <1>5, <1>6

\* To the waits a scenario is one of the callers that Watch knows.
LEMMA TestStepIsNext ==
  ASSUME RecoverInv, [TestNext]_allVars
  PROVE  [Next]_vars
<1>1. rv \in 0..Now
  BY TestTypes
<1>2. CASE StartWait("noticed", Degraded) \/ StartWait("restored", Restored)
  <2>1. Want(Degraded) \in Operation /\ Want(Restored) \in Operation
    BY DEF Want
  <2>2. \E v \in {AnyVersion} \cup (0..Now) : Call(Want(Degraded), v) \/ Call(Want(Restored), v)
    BY <1>1, <1>2 DEF StartWait
  <2> QED BY <2>1, <2>2 DEF Next
<1>3. CASE EndWait("noticed", Second) \/ EndWait("restored", "passed")
  BY <1>3 DEF EndWait, Next
<1>4. CASE (WaitStep \/ StreamEnds) /\ UNCHANGED testVars
  BY <1>4 DEF Next
<1>5. CASE \E s \in State : Report(s)
  BY <1>5 DEF Report, Next
<1>6. CASE GetVersion("getBefore", "act") \/ GetVersion("getAfter", "restored")
  BY <1>6 DEF GetVersion
<1>7. CASE Kill \/ Act \/ \E p \in Victims : Restart(p)
  BY <1>7 DEF Kill, Act, Restart
<1>8. CASE UNCHANGED allVars
  BY <1>8 DEF allVars, vars
<1> QED BY <1>2, <1>3, <1>4, <1>5, <1>6, <1>7, <1>8 DEF TestNext, TestStep

\* So the steps of the waits, of the test and of others keep the waits' invariant.
LEMMA TestKeepsWaitInv ==
  ASSUME RecoverInv, [TestNext]_allVars
  PROVE  WaitInv'
BY TestStepIsNext, NextInv DEF RecoverInv

\* The versions are read.
LEMMA ReadInv ==
  ASSUME RecoverInv, WaitInv',
         \/ GetVersion("getBefore", "act")
         \/ GetVersion("getAfter", "restored") /\ scenario.versioned
  PROVE  RecoverInv'
<1>1. UNCHANGED <<vars, scenario, victim, trials, marked, down, hit, killedAt>> /\ Now' = Now /\ pc = "idle"
  BY DEF GetVersion, vars, Now, RecoverInv
<1>2. TestTypeOK'
  BY <1>1, TestTypes DEF RecoverInv, WaitInv, TestTypeOK, GetVersion, Steps, Victims
<1>3. step' = "restored" => Floor' = Now /\ step = "getAfter"
  BY <1>1 DEF GetVersion, Floor
<1>4. /\ rv' <= Now /\ killedAt <= Now
      /\ step' \in {"act", "restored", "failed"}
  BY TestTypes DEF GetVersion, RecoverInv
<1> QED BY <1>1, <1>2, <1>3, <1>4 DEF RecoverInv, vars, RecoveryProven, Victims

\* A pod is hit, the next one is turned to, the others are left.
LEMMA HitInv ==
  ASSUME RecoverInv, WaitInv', Kill \/ Act
  PROVE  RecoverInv'
<1>1. /\ UNCHANGED <<vars, scenario, rv>> /\ Now' = Now /\ Victims' = Victims /\ step = "act" /\ pc = "idle"
  BY DEF Kill, Act, vars, Now, RecoverInv, Victims
<1>2. /\ hit \subseteq hit' /\ down' \subseteq hit' /\ hit' \subseteq Victims /\ killedAt' \in Version
      /\ killedAt' <= Now
      /\ hit # {} => killedAt' = killedAt
  <2>1. Crashed \/ Unharmed
    BY DEF Kill, Act
  <2>2. victim \in Victims
    BY DEF RecoverInv, TestTypeOK
  <2>3. CASE Crashed
    BY <2>2, <2>3, TestTypes DEF Crashed, RecoverInv, TestTypeOK
  <2>4. CASE Unharmed
    BY <2>4, TestTypes DEF Unharmed, RecoverInv, TestTypeOK
  <2> QED BY <2>1, <2>3, <2>4
<1>3. /\ step' \in {"act", "noticed", "failed"} /\ marked' \in BOOLEAN /\ (marked => marked')
      /\ trials' \in 1..MaxTrials
  <2>1. trials \in 1..MaxTrials /\ MaxTrials \in Nat \ {0} /\ marked \in BOOLEAN
    BY DEF RecoverInv, TestTypeOK
  <2>2. CASE Kill
    <3>1. step' \in {"act", "noticed", "failed"} /\ marked' = marked
      BY <1>1, <2>2 DEF Kill, NextVictim
    <3>2. trials' \in 1..MaxTrials
      BY <2>1, <2>2 DEF Kill, NextVictim
    <3> QED BY <2>1, <3>1, <3>2
  <2>3. CASE Act
    <3>1. step' \in {"act", "noticed", "failed"} /\ (marked' = marked \/ marked' = TRUE)
      BY <1>1, <2>3 DEF Act, NextVictim
    <3>2. trials' \in 1..MaxTrials
      BY <2>1, <2>3 DEF Act, NextVictim
    <3>3. marked' \in BOOLEAN /\ (marked => marked')
      <4>1. CASE marked' = marked
        BY <2>1, <4>1
      <4>2. CASE marked' = TRUE
        BY <4>2
      <4> QED BY <3>1, <4>1, <4>2
    <3> QED BY <3>1, <3>2, <3>3
  <2> QED BY <2>2, <2>3
<1>4. \/ NextVictim /\ (Crashed \/ marked')
      \/ UNCHANGED victim /\ step' # "noticed"
  BY <1>1 DEF Kill, Act
<1>5. /\ victim' \in Victims
      /\ ~marked' => 1..(victim' - 1) \subseteq hit'
      /\ step' = "noticed" => marked' \/ hit' = Victims
  <2>1. ~marked' => 1..(victim - 1) \subseteq hit'
    BY <1>2, <1>3 DEF RecoverInv
  <2>2. CASE UNCHANGED victim /\ step' # "noticed"
    BY <2>1, <2>2 DEF RecoverInv, TestTypeOK
  <2>3. CASE NextVictim /\ (Crashed \/ marked')
    <3>1. ~marked' => victim \in hit'
      BY <2>3 DEF Crashed
    <3>2. ~marked' => 1..victim \subseteq hit'
      BY <2>1, <3>1, TestTypes
    <3>3. CASE victim < scenario.victims
      <4>1. victim' = victim + 1 /\ step' = step
        BY <2>3, <3>3 DEF NextVictim
      <4> QED BY <1>1, <3>2, <3>3, <4>1, TestTypes DEF Victims
    <3>4. CASE ~(victim < scenario.victims)
      <4>1. victim' = victim /\ victim = scenario.victims
        BY <2>3, <3>4, TestTypes DEF NextVictim
      <4>2. ~marked' => hit' = Victims
        BY <1>2, <3>2, <4>1 DEF Victims
      <4> QED BY <2>1, <4>1, <4>2 DEF RecoverInv, TestTypeOK
    <3> QED BY <3>3, <3>4
  <2> QED BY <1>4, <2>2, <2>3
<1>6. TestTypeOK'
  BY <1>1, <1>2, <1>3, <1>5 DEF RecoverInv, WaitInv, TestTypeOK, Steps
<1>7. \A k \in 1..Now : log[k].state \in Degraded => hit' # {} /\ killedAt' < k
  BY <1>2 DEF RecoverInv
<1> QED BY <1>1, <1>2, <1>3, <1>5, <1>6, <1>7 DEF RecoverInv, vars, RecoveryProven

\* A pod comes back.
LEMMA RestartInv ==
  ASSUME RecoverInv, WaitInv', NEW p \in Victims, Restart(p)
  PROVE  RecoverInv'
<1>1. /\ UNCHANGED <<vars, scenario, step, rv, victim, trials, marked, hit, killedAt>>
      /\ down' \subseteq down /\ Now' = Now /\ Floor' = Floor /\ Victims' = Victims
  BY DEF Restart, vars, Now, Floor, Victims
<1>2. TestTypeOK'
  BY <1>1 DEF RecoverInv, WaitInv, TestTypeOK
<1> QED BY <1>1, <1>2 DEF RecoverInv, vars, RecoveryProven

\* A wait starts from the version read last, or from what there is, and its steps
\* change no report.
LEMMA TestWaitInv ==
  ASSUME RecoverInv, WaitInv',
         \/ StartWait("noticed", Degraded) \/ StartWait("restored", Restored)
         \/ (WaitStep \/ StreamEnds) /\ UNCHANGED testVars
  PROVE  RecoverInv'
<1>1. UNCHANGED testVars /\ log' = log /\ Now' = Now /\ Victims' = Victims
  BY DEF StartWait, Call, WaitStep, StreamEnds, Has, OpenWatch, Receive, Answer, Timeout, Now, testVars, Victims
<1>2. TestTypeOK' /\ RecoveryProven'
  BY <1>1 DEF RecoverInv, WaitInv, TestTypeOK, testVars, RecoveryProven
<1>3. pc' # "idle" => /\ step \in {"noticed", "restored"}
                      /\ since' = IF scenario.versioned THEN rv ELSE AnyVersion
                      /\ call' = Want(IF step = "noticed" THEN Degraded ELSE Restored)
  BY DEF RecoverInv, StartWait, Call, WaitStep, StreamEnds, Has, OpenWatch, Receive, Answer, Timeout
<1>4. Floor' = Floor
  <2>1. scenario' = scenario /\ rv' = rv
    BY <1>1 DEF testVars
  <2>2. CASE StartWait("noticed", Degraded) \/ StartWait("restored", Restored)
    <3>1. pc = "idle" /\ pc' # "idle" /\ begin' = Now
      BY <2>2 DEF StartWait, Call
    <3> QED BY <1>1, <2>1, <3>1 DEF Floor
  <2>3. CASE WaitStep \/ StreamEnds
    <3>1. pc # "idle" /\ pc' # "idle" /\ begin' = begin
      BY <2>3 DEF WaitStep, StreamEnds, Has, OpenWatch, Receive, Answer, Timeout, Return
    <3> QED BY <2>1, <3>1 DEF Floor
  <2> QED BY <2>2, <2>3
<1> QED BY <1>1, <1>2, <1>3, <1>4 DEF RecoverInv, testVars

\* The operator reports a degraded cluster only while a pod is down.
LEMMA ReportInv ==
  ASSUME RecoverInv, WaitInv', NEW s \in State, Report(s)
  PROVE  RecoverInv'
<1>1. /\ UNCHANGED testVars /\ UNCHANGED waitVars
      /\ log' = Append(log, [type |-> "MODIFIED", name |-> cluster, state |-> s])
      /\ s \in Degraded => down # {}
  BY DEF Report, Change
<1>2. log \in Seq(Event) /\ Now \in Nat /\ killedAt \in Nat /\ rv \in Nat
  BY TestTypes DEF TypeOK
<1>3. /\ Now' = Now + 1 /\ log'[Now + 1].state = s
      /\ \A k \in 1..Now : log'[k] = log[k]
  BY <1>1, <1>2 DEF Now
<1>4. TestTypeOK' /\ Victims' = Victims
  BY <1>1 DEF RecoverInv, TestTypeOK, WaitInv, testVars, Victims
<1>5. \A k \in 1..Now' : log'[k].state \in Degraded => hit # {} /\ killedAt < k
  <2> SUFFICES ASSUME NEW k \in 1..Now', log'[k].state \in Degraded
               PROVE  hit # {} /\ killedAt < k
    OBVIOUS
  <2>1. CASE k \in 1..Now
    BY <1>3, <2>1 DEF RecoverInv
  <2>2. CASE k = Now + 1
    <3>1. hit # {}
      BY <1>1, <1>3, <2>2 DEF RecoverInv, TestTypeOK
    <3>2. killedAt <= Now
      BY DEF RecoverInv
    <3> QED BY <1>2, <2>2, <3>1, <3>2
  <2> QED BY <1>2, <1>3, <2>1, <2>2
<1>6. RecoveryProven'
  <2> SUFFICES ASSUME step = "passed"
               PROVE  /\ marked \/ hit = Victims
                      /\ \E i, j \in Version : /\ killedAt < i /\ i < j /\ j <= Now'
                                               /\ log'[i].state \in Degraded /\ log'[j].state \in Restored
    BY <1>1, <1>4 DEF RecoveryProven, testVars
  <2>1. PICK i, j \in Version : /\ killedAt < i /\ i < j /\ j <= Now
                                /\ log[i].state \in Degraded /\ log[j].state \in Restored
    BY DEF RecoverInv, RecoveryProven
  <2>2. i \in 1..Now /\ j \in 1..Now
    BY <1>2, <2>1 DEF Version
  <2>3. marked \/ hit = Victims
    BY DEF RecoverInv, RecoveryProven
  <2> QED BY <1>2, <1>3, <2>1, <2>2, <2>3
<1>7. step = "getAfter" => \E i \in 1..Now' : log'[i].state \in Degraded
  BY <1>2, <1>3 DEF RecoverInv
<1>8. step = "restored" => \E i \in 1..Floor' : log'[i].state \in Degraded
  <2>1. /\ rv' = rv /\ begin' = begin /\ (pc' = "idle" <=> pc = "idle")
        /\ (scenario'.versioned <=> scenario.versioned)
    BY <1>1 DEF testVars, waitVars
  <2>2. Floor \in 0..Now /\ Floor' \in 0..Now' /\ Floor <= Floor'
    <3>1. Now' = Now + 1 /\ rv \in 0..Now /\ begin \in Nat /\ (pc # "idle" => begin <= Now)
      BY <1>3, TestTypes
    <3>2. CASE scenario.versioned
      <4>1. Floor = rv /\ Floor' = rv
        BY <2>1, <3>2 DEF Floor
      <4> QED BY <1>2, <3>1, <4>1
    <3>3. CASE ~scenario.versioned /\ pc = "idle"
      <4>1. Floor = Now /\ Floor' = Now'
        BY <2>1, <3>3 DEF Floor
      <4> QED BY <1>2, <3>1, <4>1
    <3>4. CASE ~scenario.versioned /\ pc # "idle"
      <4>1. Floor = begin /\ Floor' = begin
        BY <2>1, <3>4 DEF Floor
      <4> QED BY <1>2, <3>1, <3>4, <4>1
    <3> QED BY <3>2, <3>3, <3>4
  <2>3. SUFFICES ASSUME step = "restored" PROVE \E i \in 1..Floor' : log'[i].state \in Degraded
    OBVIOUS
  <2>4. PICK i \in 1..Floor : log[i].state \in Degraded
    BY <2>3 DEF RecoverInv
  <2>5. i \in 1..Now /\ i \in 1..Floor'
    BY <1>2, <2>2
  <2> QED BY <1>3, <2>4, <2>5
<1>9. rv <= Now' /\ killedAt <= Now'
  BY <1>2, <1>3 DEF RecoverInv
<1> QED BY <1>1, <1>4, <1>5, <1>6, <1>7, <1>8, <1>9 DEF RecoverInv, testVars, waitVars

\* The first wait ends: a degraded cluster was reported.
LEMMA FirstWaitInv ==
  ASSUME RecoverInv, WaitInv', EndWait("noticed", Second)
  PROVE  RecoverInv'
<1>1. /\ UNCHANGED <<log, scenario, rv, victim, trials, marked, down, hit, killedAt>>
      /\ Now' = Now /\ Victims' = Victims
      /\ step = "noticed" /\ pc = "done" /\ pc' = "idle" /\ step' \in {Second, "failed"}
  BY DEF EndWait, Resume, Now, Victims
<1>2. Second = IF scenario.versioned THEN "getAfter" ELSE "restored"
  BY DEF Second
<1>3. TestTypeOK'
  BY <1>1, <1>2 DEF RecoverInv, TestTypeOK, WaitInv, Steps
<1>4. ASSUME step' = Second PROVE \E i \in 1..Now : log[i].state \in Degraded
  <2>1. result = "nil" /\ call = Want(Degraded)
    BY <1>1, <1>2, <1>4 DEF EndWait, RecoverInv
  <2>2. PICK v \in Base..Now : HoldsAt(v)
    BY <1>1, <2>1 DEF RecoverInv, WaitInv, NilIsTrue, Returned
  <2>3. Base \in Nat
    BY <1>1, TestTypes DEF Base, RecoverInv, WaitInv, TypeOK, Version
  <2>4. InStateAt(cluster, v, Degraded) /\ v \in 0..Now
    BY <2>1, <2>2, <2>3, TestTypes DEF HoldsAt, Want
  <2> QED BY <2>4, SeenWasReported, TestTypes
<1>5. step' = "restored" => step' = Second /\ Floor' = Now
  BY <1>1, <1>2 DEF Floor
<1>6. step' = "getAfter" => step' = Second
  BY <1>1, <1>2
<1>7. step' # "passed" /\ (marked \/ hit = Victims)
  BY <1>1, <1>2 DEF RecoverInv
<1> QED BY <1>1, <1>2, <1>3, <1>4, <1>5, <1>6, <1>7 DEF RecoverInv, RecoveryProven

\* The second wait ends: a restored cluster was reported, after that.
LEMMA SecondWaitInv ==
  ASSUME RecoverInv, WaitInv', EndWait("restored", "passed")
  PROVE  RecoverInv'
<1>1. /\ UNCHANGED <<log, scenario, rv, victim, trials, marked, down, hit, killedAt>>
      /\ Now' = Now /\ Victims' = Victims
      /\ step = "restored" /\ pc = "done" /\ pc' = "idle" /\ step' \in {"passed", "failed"}
  BY DEF EndWait, Resume, Now, Victims
<1>2. TestTypeOK'
  BY <1>1 DEF RecoverInv, TestTypeOK, WaitInv, Steps
<1>3. ASSUME step' = "passed"
      PROVE  \E i, j \in Version : /\ killedAt < i /\ i < j /\ j <= Now
                                   /\ log[i].state \in Degraded /\ log[j].state \in Restored
  <2>1. result = "nil" /\ call = Want(Restored) /\ since = IF scenario.versioned THEN rv ELSE AnyVersion
    BY <1>1, <1>3 DEF EndWait, RecoverInv
  <2>2. Base = Floor /\ Floor \in Nat
    <3>1. Floor \in Nat
      BY <1>1, TestTypes DEF Floor
    <3>2. CASE scenario.versioned
      BY <1>1, <2>1, <3>1, <3>2, TestTypes DEF Base, Floor
    <3>3. CASE ~scenario.versioned
      BY <1>1, <2>1, <3>1, <3>3 DEF Base, Floor
    <3> QED BY <3>1, <3>2, <3>3
  <2>3. PICK i \in 1..Floor : log[i].state \in Degraded
    BY <1>1 DEF RecoverInv
  <2>4. PICK v \in Floor..Now : HoldsAt(v)
    BY <1>1, <2>1, <2>2 DEF RecoverInv, WaitInv, NilIsTrue, Returned
  <2>5. InStateAt(cluster, v, Restored) /\ v \in 0..Now
    BY <2>1, <2>2, <2>4, TestTypes DEF HoldsAt, Want
  <2>6. PICK j \in 1..v : log[j].state \in Restored /\ \A h \in (j + 1)..v : log[h].name # cluster
    BY <2>5, SeenWasReported, TestTypes
  <2>7. \A h \in 1..Now : log[h].name = cluster
    <3>1. \A h \in 1..Now : log[h] \in Event
      BY TestTypes DEF TypeOK, Now
    <3> QED BY <3>1 DEF Event
  <2>8. i \in 1..v /\ i # j
    BY <2>2, <2>3, <2>4, <2>6, TestTypes
  <2>9. i < j
    BY <2>4, <2>5, <2>6, <2>7, <2>8, TestTypes
  <2>10. killedAt < i
    BY <2>5, <2>8, TestTypes, <2>3 DEF RecoverInv
  <2> QED BY <2>3, <2>5, <2>6, <2>8, <2>9, <2>10, TestTypes DEF Version
<1>4. marked \/ hit = Victims
  BY <1>1 DEF RecoverInv
<1> QED BY <1>1, <1>2, <1>3, <1>4 DEF RecoverInv, RecoveryProven

\* Every step of the scenario keeps the invariant.
LEMMA TestNextInv ==
  ASSUME RecoverInv, [TestNext]_allVars
  PROVE  RecoverInv'
<1>1. WaitInv'
  BY TestKeepsWaitInv
<1>2. CASE GetVersion("getBefore", "act") \/ GetVersion("getAfter", "restored")
  <2>1. step = "getAfter" => scenario.versioned
    BY DEF RecoverInv
  <2> QED BY <1>1, <1>2, <2>1, ReadInv DEF GetVersion
<1>3. CASE Kill \/ Act
  BY <1>1, <1>3, HitInv
<1>4. CASE \E p \in Victims : Restart(p)
  BY <1>1, <1>4, RestartInv
<1>5. CASE \/ StartWait("noticed", Degraded) \/ StartWait("restored", Restored)
           \/ (WaitStep \/ StreamEnds) /\ UNCHANGED testVars
  BY <1>1, <1>5, TestWaitInv
<1>6. CASE \E s \in State : Report(s)
  BY <1>1, <1>6, ReportInv
<1>7. CASE EndWait("noticed", Second)
  BY <1>1, <1>7, FirstWaitInv
<1>8. CASE EndWait("restored", "passed")
  BY <1>1, <1>8, SecondWaitInv
<1>9. CASE UNCHANGED allVars
  BY <1>1, <1>9 DEF allVars, RecoverInv, TestTypeOK, WaitInv, RecoveryProven, Now, Victims, Floor
<1> QED BY <1>2, <1>3, <1>4, <1>5, <1>6, <1>7, <1>8, <1>9 DEF TestNext, TestStep

-----------------------------------------------------------------------------
\* A crash scenario that passes has seen the operator report the cluster degraded
\* after a pod was hit, and restored after that.
THEOREM PassedMeansRecovered == TestSpec => []RecoveryProven
<1>1. TestInit => RecoverInv
  BY TestInitInv
<1>2. RecoverInv /\ [TestNext]_allVars => RecoverInv'
  BY TestNextInv
<1>3. RecoverInv => RecoveryProven
  BY DEF RecoverInv
<1> QED BY <1>1, <1>2, <1>3, PTL DEF TestSpec

\* Every step of a scenario is one that Watch knows of, or leaves its variables alone.
THEOREM ScenariosUseWatches == TestSpec => WaitsAreWatches
<1>1. TestInit => RecoverInv
  BY TestInitInv
<1>2. RecoverInv /\ [TestNext]_allVars => RecoverInv'
  BY TestNextInv
<1>3. RecoverInv /\ [TestNext]_allVars => [Next]_vars
  BY TestStepIsNext
<1> QED BY <1>1, <1>2, <1>3, PTL DEF TestSpec, WaitsAreWatches

-----------------------------------------------------------------------------
(* The assertions that follow the waits. *)

\* What a scenario asserts does not change.
LEMMA AssertedStays ==
  ASSUME EventInv, [ScenarioNext]_scenarioVars
  PROVE  /\ Asserted' = Asserted /\ Asserted \in Seq(State) /\ Len(Asserted) \in Nat
<1>1. scenario' = scenario
  BY DEF ScenarioNext, TestStep, GetVersion, Kill, Act, StartWait, EndWait, Restart, testVars, ReportDue, Report,
         Post, Expire, Assert, Look, GiveUp, allVars, scenarioVars
<1>2. scenario \in Scenario
  BY DEF EventInv, EventTypeOK, TestTypeOK
<1> QED BY <1>1, <1>2 DEF Asserted

\* At the start nothing has been asserted.
LEMMA EventInitInv == EventInit => EventInv
<1> SUFFICES ASSUME EventInit PROVE EventInv
  OBVIOUS
<1>1. RecoverInv /\ TestTypeOK /\ Now = 1 /\ 1 \in Version
  BY TestInitInv DEF EventInit, TestInit, RecoverInv, Now, Version
<1>2. 1 \in 1..(Len(Asserted) + 1) /\ 0 \in 0..MaxLooks
  BY <1>1 DEF TestTypeOK, Asserted
<1> QED BY <1>1, <1>2 DEF EventInit, EventInv, EventTypeOK, AssertionIsHonest

\* The events a look sees are those of changes made.
LEMMA ListedStates ==
  ASSUME EventInv
  PROVE  \A version : Listed(version) \in SUBSET State
<1>1. \A k \in 1..Now : log[k].state \in State
  <2>1. log \in Seq(Event)
    BY DEF EventInv, RecoverInv, WaitInv, TypeOK
  <2>2. \A k \in 1..Now : log[k] \in Event
    BY <2>1 DEF Now
  <2> QED BY <2>2 DEF Event
<1> QED BY <1>1 DEF EventInv, EventTypeOK, Listed

\* Below its events the scenario goes on as it does without them.
LEMMA ScenarioStepIsTest ==
  ASSUME [ScenarioNext]_scenarioVars
  PROVE  [TestNext]_allVars
<1>1. CASE TestStep
  BY <1>1 DEF TestNext
<1>2. CASE ReportDue
  BY <1>2 DEF ReportDue, TestNext
<1>3. CASE (\E k \in Version : Post(k)) \/ Expire \/ Assert
  BY <1>3 DEF Post, Expire, Assert, Look, GiveUp
<1>4. CASE UNCHANGED scenarioVars
  BY <1>4 DEF scenarioVars, allVars
<1> QED BY <1>1, <1>2, <1>3, <1>4 DEF ScenarioNext

LEMMA ScenarioKeepsRecoverInv ==
  ASSUME EventInv, [ScenarioNext]_scenarioVars
  PROVE  RecoverInv'
BY ScenarioStepIsTest, TestNextInv DEF EventInv

\* A look that misses counts, and one that sees the event ends the assertion.
LEMMA LookInv ==
  ASSUME EventInv, RecoverInv', Look
  PROVE  EventInv'
<1>1. /\ TestTypeOK' /\ Now' = Now /\ UNCHANGED <<old, posted, due>>
      /\ turn \in 1..(Len(Asserted) + 1) /\ turn <= Len(Asserted)
      /\ looks \in 0..MaxLooks /\ looks < MaxLooks /\ verdict = "none"
      /\ Asserted' = Asserted /\ Len(Asserted) \in Nat
  BY AssertedStays DEF RecoverInv, Look, EventInv, EventTypeOK, allVars, Now, ScenarioNext, Assert
<1>2. posted \cup due \subseteq 1..Now /\ old \in SUBSET State /\ posted \in SUBSET Version /\ due \in SUBSET Version
  BY DEF EventInv, EventTypeOK
<1>3. CASE verdict' = "error" /\ UNCHANGED <<turn, looks, seen>>
  BY <1>1, <1>2, <1>3 DEF EventInv, EventTypeOK, AssertionIsHonest
<1>4. CASE seen' = Listed(rv) /\ Asserted[turn] \in Listed(rv) /\ AssertionDone
  <2>1. seen' \in SUBSET State /\ turn' \in 1..(Len(Asserted) + 1) /\ looks' = 0 /\ verdict' \in {"passed", "none"}
    BY <1>1, <1>4, ListedStates DEF AssertionDone
  <2> QED BY <1>1, <1>2, <2>1 DEF EventInv, EventTypeOK, AssertionIsHonest
<1>5. CASE seen' = Listed(rv) /\ Asserted[turn] \notin Listed(rv) /\ looks' = looks + 1 /\ UNCHANGED <<turn, verdict>>
  <2>1. seen' \in SUBSET State /\ looks' \in 0..MaxLooks
    BY <1>1, <1>5, ListedStates
  <2> QED BY <1>1, <1>2, <1>5, <2>1 DEF EventInv, EventTypeOK, AssertionIsHonest
<1> QED BY <1>3, <1>4, <1>5 DEF Look

\* Every step of a scenario with its assertions keeps the invariant.
LEMMA ScenarioNextInv ==
  ASSUME EventInv, [ScenarioNext]_scenarioVars
  PROVE  EventInv'
<1>1. RecoverInv' /\ TestTypeOK'
  BY ScenarioKeepsRecoverInv DEF RecoverInv
<1>2. /\ Now \in Nat /\ Now \in Version /\ Now' \in Nat /\ Now' \in Version
      /\ Asserted' = Asserted /\ Len(Asserted) \in Nat
  BY <1>1, AssertedStays DEF EventInv, RecoverInv, WaitInv, TypeOK, Now, Version
<1>3. CASE Assert
  <2>1. CASE GiveUp
    BY <1>1, <1>2, <2>1 DEF GiveUp, EventInv, EventTypeOK, AssertionIsHonest, allVars, Now
  <2> QED BY <1>1, <1>3, <2>1, LookInv DEF Assert
<1>4. CASE ReportDue
  <2>1. Now' = Now + 1 /\ due' = due \cup {Now + 1} /\ UNCHANGED <<old, posted, turn, looks, seen, verdict>>
    BY <1>4 DEF ReportDue, Report, Change, Now, EventInv, RecoverInv, WaitInv, TypeOK
  <2>2. posted' \cup due' \subseteq 1..Now' /\ due' \in SUBSET Version
    BY <1>2, <2>1 DEF EventInv, EventTypeOK
  <2> QED BY <1>1, <1>2, <2>1, <2>2 DEF EventInv, EventTypeOK, AssertionIsHonest
<1>5. CASE (\E k \in Version : Post(k)) \/ Expire
  <2>1. /\ old' \subseteq old /\ posted' \subseteq posted \cup due /\ due' \subseteq due
        /\ UNCHANGED <<turn, looks, seen, verdict>> /\ Now' = Now
    BY <1>5 DEF Post, Expire, allVars, Now
  <2> QED BY <1>1, <1>2, <2>1 DEF EventInv, EventTypeOK, AssertionIsHonest
<1>6. CASE TestStep /\ UNCHANGED eventVars
  <2>1. Now' = Now
    BY <1>6 DEF TestStep, GetVersion, Kill, Act, StartWait, EndWait, Restart, Call, Resume, WaitStep, StreamEnds,
                Has, OpenWatch, Receive, Answer, Timeout, Now, vars
  <2> QED BY <1>1, <1>2, <1>6, <2>1 DEF eventVars, EventInv, EventTypeOK, AssertionIsHonest
<1>7. CASE UNCHANGED scenarioVars
  BY <1>1, <1>2, <1>7 DEF scenarioVars, EventInv, EventTypeOK, AssertionIsHonest, Now
<1> QED BY <1>3, <1>4, <1>5, <1>6, <1>7 DEF ScenarioNext

\* The invariant of the scenario, its waits and its assertions together.
THEOREM EventInvHolds == ScenarioSpec => []EventInv
BY EventInitInv, ScenarioNextInv, PTL DEF ScenarioSpec

\* An assertion that times out has looked as often as it may and missed what it
\* wanted at its last look.
THEOREM TimedOutAssertionsLooked == ScenarioSpec => []AssertionIsHonest
<1>1. EventInv => AssertionIsHonest
  BY DEF EventInv
<1> QED BY <1>1, EventInvHolds, PTL

\* A scenario with its assertions is one without, and more.
THEOREM ScenariosAreTests == ScenarioSpec => TestSpec
<1>1. EventInit => TestInit
  BY DEF EventInit
<1>2. [ScenarioNext]_scenarioVars => [TestNext]_allVars
  BY ScenarioStepIsTest
<1> QED BY <1>1, <1>2, PTL DEF ScenarioSpec, TestSpec

\* The waits have shown what they should also when assertions follow them.
THEOREM PassedBeforeAssertions == ScenarioSpec => []RecoveryProven
BY ScenariosAreTests, PassedMeansRecovered, PTL

\* Assertions on events leave the waits of the scenario what they are.
THEOREM WaitsAreWatchesStill == ScenarioSpec => WaitsAreWatches
BY ScenariosAreTests, ScenariosUseWatches, PTL

\* So no wait of a scenario lets a report of the operator go by, while pods crash
\* and come back and events are posted (client.go:637-794).
THEOREM ScenariosMissNothing == ScenarioSpec => []NothingMissed
<1>1. TestInit => RecoverInv /\ NothingMissed
  BY TestInitInv DEF TestInit, NothingMissed, Silent
<1>2. RecoverInv /\ NothingMissed /\ [TestNext]_allVars => (RecoverInv /\ NothingMissed)'
  BY TestNextInv, TestStepIsNext, NextKeepsNothingMissed DEF RecoverInv
<1> QED BY <1>1, <1>2, ScenariosAreTests, PTL DEF TestSpec

=============================================================================
