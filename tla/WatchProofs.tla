------------------------------ MODULE WatchProofs ------------------------------
(***************************************************************************)
(* Watch for any objects, states, waits and any number of changes: what a  *)
(* wait that returned nil, or timed out, says about the history.           *)
(***************************************************************************)
EXTENDS Watch, TLAPS

USE WatchAssumption

\* What was true of an object at a version stays true as the history grows.
LEMMA HistoryFixed ==
  ASSUME log \in Seq(Event), NEW e \in Event, log' = Append(log, e),
         NEW n, NEW S, NEW v \in 0..Now
  PROVE  InStateAt(n, v, S)' <=> InStateAt(n, v, S)
<1>1. \A k \in 1..v : log'[k] = log[k]
  BY DEF Now
<1>2. \A k \in 1..v : LastChange(k, n, v)' <=> LastChange(k, n, v)
  <2> SUFFICES ASSUME NEW k \in 1..v
               PROVE  LastChange(k, n, v)' <=> LastChange(k, n, v)
    OBVIOUS
  <2>1. \A j \in (k + 1)..v : log'[j] = log[j]
    BY <1>1 DEF Now
  <2> QED BY <1>1, <2>1 DEF LastChange
<1> QED BY <1>1, <1>2 DEF InStateAt

\* An event that ends the wait brings what the wait is for.
LEMMA MatchHolds ==
  ASSUME TypeOK, NEW k \in 1..Now, Matches(log[k])
  PROVE  HoldsAt(k)
<1>1. k \in 1..k /\ log[k] \in Event /\ k \in Nat
  BY DEF TypeOK, Now
<1>2. CASE call.kind = "gone"
  <2>1. \A j \in 1..k : ~LastChange(j, call.name, k)
    <3> SUFFICES ASSUME NEW j \in 1..k, LastChange(j, call.name, k) PROVE FALSE
      OBVIOUS
    <3>1. CASE j = k
      BY <1>2, <3>1 DEF LastChange, Matches
    <3>2. CASE j # k
      BY <1>1, <1>2, <3>2 DEF LastChange, Matches
    <3> QED BY <3>1, <3>2
  <2> QED BY <1>2, <2>1 DEF HoldsAt, ExistsAt, InStateAt
<1>3. CASE call.kind # "gone"
  <2>1. LastChange(k, call.name, k)
    BY <1>1, <1>3 DEF LastChange, Matches
  <2> QED BY <1>1, <1>3, <2>1 DEF HoldsAt, InStateAt, Matches
<1> QED BY <1>2, <1>3

\* Conversely, a change of the object that does not end the wait does not.
LEMMA NoMatchNoHold ==
  ASSUME TypeOK, NEW k \in 1..Now, log[k].name = call.name, ~Matches(log[k])
  PROVE  ~HoldsAt(k)
<1>1. log[k] \in Event /\ k \in Nat /\ call \in Operation
  BY DEF TypeOK, Now
<1>2. CASE call.kind = "gone"
  <2>1. LastChange(k, call.name, k) /\ log[k].state \in State
    BY <1>1, <1>2 DEF LastChange, Matches, Event
  <2> QED BY <1>2, <2>1, <1>1 DEF HoldsAt, ExistsAt, InStateAt
<1>3. CASE call.kind # "gone"
  <2> SUFFICES ASSUME NEW j \in 1..k, LastChange(j, call.name, k), log[j].state \in call.want
               PROVE  FALSE
    BY <1>3 DEF HoldsAt, InStateAt
  <2>1. j = k
    BY <1>1 DEF LastChange
  <2> QED BY <1>1, <1>3, <2>1 DEF LastChange, Matches, Event
<1> QED BY <1>2, <1>3

\* A synthetic event that ends the wait shows what held when the watch began.
LEMMA InitialHolds ==
  ASSUME TypeOK, NEW n \in initial, NEW k \in 1..opened, LastChange(k, n, opened),
         Matches([log[k] EXCEPT !.type = "ADDED"]), opened <= Now
  PROVE  HoldsAt(opened)
<1>1. log[k] \in Event
  BY DEF TypeOK, Now, Version
<1>2. call.kind # "gone" /\ n = call.name /\ log[k].state \in call.want
  BY <1>1 DEF Matches, Event, LastChange
<1> QED BY <1>2 DEF HoldsAt, InStateAt

-----------------------------------------------------------------------------
\* The wait has not begun.
LEMMA InitInv == Init => WaitInv
  BY DEF Init, WaitInv, TypeOK, Now, Version, Returned, NilIsTrue

\* A change made by others is after everything the invariant speaks of.
LEMMA ChangeInv ==
  ASSUME WaitInv, NEW n \in Name, NEW t \in {"ADDED", "MODIFIED", "DELETED"},
         NEW s \in State, Change(n, t, s)
  PROVE  WaitInv'
<1> DEFINE e == [type |-> t, name |-> n, state |-> s]
<1>1. e \in Event /\ log' = Append(log, e) /\ Now < MaxVersion /\ UNCHANGED waitVars
  BY DEF Change, Event
<1>2. log \in Seq(Event) /\ Now \in Nat /\ call \in Operation
  BY DEF WaitInv, TypeOK, Now
<1>3. Now' = Now + 1 /\ \A k \in 1..Now : log'[k] = log[k]
  BY <1>1, <1>2 DEF Now
<1>4. TypeOK'
  BY <1>1, <1>2, <1>3 DEF WaitInv, TypeOK, waitVars, Version, Now
<1>5. \A v \in 0..Now : HoldsAt(v)' <=> HoldsAt(v)
  BY <1>1, <1>2, HistoryFixed DEF HoldsAt, ExistsAt, waitVars
<1>6. \A v \in Base..Now : v \in 0..Now /\ v \in Base'..Now'
  BY <1>1, <1>2, <1>3 DEF Base, WaitInv, TypeOK, Version, waitVars
<1>7. ASSUME pos <= Now, opened <= pos, NothingFound PROVE NothingFound'
  <2>1. \A k \in (opened + 1)..pos : log'[k] = log[k]
    BY <1>2, <1>3, <1>7 DEF WaitInv, TypeOK, Version
  <2>2. opened \in 0..Now
    BY <1>2, <1>7 DEF WaitInv, TypeOK, Version
  <2> QED BY <1>1, <1>5, <1>7, <2>1, <2>2 DEF NothingFound, Matches, waitVars
<1>8. NilIsTrue'
  BY <1>1, <1>5, <1>6 DEF WaitInv, NilIsTrue, Returned, waitVars
<1>9. (pc = "select" /\ rx = "sending" => \E v \in Base..Now : HoldsAt(v))'
  BY <1>1, <1>5, <1>6 DEF WaitInv, waitVars
<1> QED
  BY <1>1, <1>2, <1>3, <1>4, <1>7, <1>8, <1>9
  DEF WaitInv, Returned, waitVars, TypeOK, Version

\* A call starts from nothing.
LEMMA CallInv ==
  ASSUME WaitInv, NEW c \in Operation, NEW v \in 0..Now \cup {AnyVersion}, Call(c, v)
  PROVE  WaitInv'
  BY DEF WaitInv, TypeOK, Call, Now, Version, Returned, NilIsTrue, NothingFound

\* HasPod and HasInnoDBCluster.
LEMMA HasInv ==
  ASSUME WaitInv, Has
  PROVE  WaitInv'
<1>1. TypeOK' /\ Now' = Now /\ UNCHANGED <<log, call, since, begin>>
  BY DEF WaitInv, TypeOK, Has, Return, Now, Version
<1>2. ASSUME Returned("nil")' PROVE \E v \in Base'..Now' : HoldsAt(v)'
  <2>1. ~Exists(call.name) /\ call.kind = "gone"
    BY <1>2 DEF WaitInv, Has, Return, Returned
  <2>2. HoldsAt(Now)
    BY <2>1 DEF HoldsAt, Exists
  <2>3. HoldsAt(Now)' /\ Now' = Now
    BY <1>1, <2>2 DEF HoldsAt, ExistsAt, InStateAt, LastChange
  <2>4. Now' \in Base'..Now'
    BY <1>1 DEF WaitInv, Has, TypeOK, Base, Now, Version
  <2> QED BY <1>1, <2>3, <2>4
<1> QED BY <1>1, <1>2 DEF WaitInv, Has, Return, Returned, NilIsTrue, NothingFound, TypeOK

\* The watch covers the history from the version given, or from now on.
LEMMA OpenWatchInv ==
  ASSUME WaitInv, OpenWatch
  PROVE  WaitInv'
<1>1. TypeOK' /\ Now' = Now /\ UNCHANGED <<log, call, since, begin>>
  BY DEF WaitInv, TypeOK, OpenWatch, Return, Now, Version
<1>2. CASE Return("error")
  BY <1>1, <1>2 DEF WaitInv, OpenWatch, Return, Returned, NilIsTrue, TypeOK
<1>3. CASE pc' = "select"
  <2>1. /\ stream' = "open" /\ rx' = "reading" /\ pos' = opened'
        /\ opened' = IF since = AnyVersion THEN Now ELSE since
        /\ initial' = IF since = AnyVersion THEN {n \in Name : Exists(n)} ELSE {}
    BY <1>3 DEF OpenWatch, Return
  <2>2. /\ opened' <= pos' /\ pos' <= Now' /\ opened' \in Nat
        /\ IF since' = AnyVersion THEN begin' <= opened' ELSE opened' = since'
    BY <1>1, <2>1 DEF WaitInv, TypeOK, Version, OpenWatch
  <2>3. NothingFound'
    <3>1. \A k \in (opened' + 1)..pos' : FALSE
      BY <2>1, <2>2
    <3>2. ASSUME since = AnyVersion, call.kind = "reached", call.name \notin initial'
          PROVE  ~HoldsAt(opened')
      <4>1. ~Exists(call.name) /\ opened' = Now /\ call \in Operation
        BY <3>2, <2>1 DEF WaitInv, TypeOK
      <4> QED BY <4>1, <3>2 DEF Exists, ExistsAt, HoldsAt, InStateAt
    <3> QED
      BY <1>1, <3>1, <3>2
      DEF NothingFound, HoldsAt, ExistsAt, InStateAt, LastChange
  <2>4. begin' <= Now' /\ (since' # AnyVersion => since' <= begin')
    BY <1>1 DEF WaitInv, OpenWatch
  <2> QED BY <1>1, <1>3, <2>1, <2>2, <2>3, <2>4 DEF WaitInv, Returned, NilIsTrue
<1> QED BY <1>2, <1>3 DEF OpenWatch

\* The goroutine reads one event.
LEMMA ReceiveInv ==
  ASSUME WaitInv, Receive
  PROVE  WaitInv'
<1>1. /\ UNCHANGED <<log, pc, call, since, begin, opened, stream, result>>
      /\ pc = "select" /\ rx = "reading" /\ Now' = Now /\ stream # "none"
  BY DEF Receive, Now, WaitInv
<1>2. \A v : HoldsAt(v)' <=> HoldsAt(v)
  BY <1>1 DEF HoldsAt, ExistsAt, InStateAt, LastChange
<1>3. NothingFound /\ opened <= pos /\ pos <= Now /\ opened \in Nat /\ pos \in Nat
  BY <1>1 DEF WaitInv, TypeOK, Version
<1>4. Base' = Base /\ Base \in Nat /\ Now \in Nat /\ opened \in Base..Now
  BY <1>1, <1>3 DEF Base, WaitInv, TypeOK, Version, Now
<1>5. ASSUME NEW n \in Name, ReadInitial(n) PROVE WaitInv'
  <2>1. PICK k \in 1..opened :
           /\ LastChange(k, n, opened)
           /\ rx' = IF Matches([log[k] EXCEPT !.type = "ADDED"]) THEN "sending" ELSE "reading"
    BY <1>5 DEF ReadInitial
  <2>2. TypeOK' /\ pos' = pos
    BY <1>1, <1>5, <2>1 DEF ReadInitial, WaitInv, TypeOK
  <2>3. CASE Matches([log[k] EXCEPT !.type = "ADDED"])
    <3>1. n \in initial /\ TypeOK /\ opened <= Now
      BY <1>3, <1>4, <1>5 DEF WaitInv, ReadInitial
    <3>2. HoldsAt(opened)
      BY <2>1, <2>3, <3>1, InitialHolds
    <3> QED BY <1>1, <1>2, <1>4, <2>1, <2>2, <2>3, <3>2 DEF WaitInv, Returned, NilIsTrue
  <2>4. CASE ~Matches([log[k] EXCEPT !.type = "ADDED"])
    <3>1. ASSUME since = AnyVersion, call.kind = "reached", call.name \notin initial'
          PROVE  ~HoldsAt(opened)
      <4>1. CASE n # call.name
        BY <1>3, <1>5, <3>1, <4>1 DEF ReadInitial, NothingFound
      <4>2. CASE n = call.name
        <5>1. log[k] \in Event /\ k \in Nat
          BY <1>3 DEF WaitInv, TypeOK, Now
        <5>2. log[k].state \notin call.want
          BY <2>1, <2>4, <3>1, <4>2, <5>1 DEF LastChange, Matches, Event
        <5>3. \A j \in 1..opened : LastChange(j, n, opened) => j = k
          BY <1>3, <2>1, <5>1 DEF LastChange
        <5> QED BY <3>1, <4>2, <5>2, <5>3 DEF HoldsAt, InStateAt
      <4> QED BY <4>1, <4>2
    <3>2. NothingFound'
      BY <1>1, <1>2, <1>3, <2>2, <3>1 DEF NothingFound, Matches
    <3> QED BY <1>1, <2>1, <2>2, <2>4, <3>2 DEF WaitInv, Returned, NilIsTrue
  <2> QED BY <2>3, <2>4
<1>6. ASSUME ReadChange PROVE WaitInv'
  <2>1. /\ pos' = pos + 1 /\ pos < Now /\ initial' = initial
        /\ rx' = IF Matches(log[pos + 1]) THEN "sending" ELSE "reading"
    BY <1>6 DEF ReadChange
  <2>2. TypeOK' /\ pos + 1 \in 1..Now /\ pos + 1 \in Base..Now
    <3>1. TypeOK'
      BY <1>1, <1>3, <2>1 DEF WaitInv, TypeOK, Version, Now
    <3> QED BY <1>3, <1>4, <2>1, <3>1
  <2>3. CASE Matches(log[pos + 1])
    <3>1. HoldsAt(pos + 1)
      BY <2>2, <2>3, MatchHolds DEF WaitInv
    <3> QED BY <1>1, <1>2, <1>3, <1>4, <2>1, <2>2, <2>3, <3>1 DEF WaitInv, Returned, NilIsTrue
  <2>4. CASE ~Matches(log[pos + 1])
    <3>1. \A k \in (opened + 1)..(pos + 1) : ~Matches(log[k])
      BY <1>3, <2>4 DEF NothingFound
    <3>2. NothingFound'
      BY <1>1, <1>2, <1>3, <2>1, <3>1 DEF NothingFound, Matches
    <3> QED BY <1>1, <1>3, <2>1, <2>2, <2>4, <3>2 DEF WaitInv, Returned, NilIsTrue
  <2> QED BY <2>3, <2>4
<1> QED BY <1>5, <1>6 DEF Receive

\* The other steps of the wait read nothing.
LEMMA EndInv ==
  ASSUME WaitInv, StreamEnds \/ Answer \/ Timeout \/ Resume
  PROVE  WaitInv'
<1>1. /\ UNCHANGED <<log, call, since, begin, opened, initial, pos>>
      /\ Now' = Now /\ Base' = Base
  BY DEF StreamEnds, Answer, Timeout, Resume, Now, Base
<1>2. \A v : HoldsAt(v)' <=> HoldsAt(v)
  BY <1>1 DEF HoldsAt, ExistsAt, InStateAt, LastChange
<1>3. NothingFound' <=> NothingFound
  BY <1>1, <1>2 DEF NothingFound, Matches
<1>4. TypeOK'
  BY <1>1 DEF WaitInv, TypeOK, StreamEnds, Answer, Timeout, Resume, Return
<1>5. CASE StreamEnds
  BY <1>1, <1>2, <1>3, <1>4, <1>5 DEF WaitInv, StreamEnds, Returned, NilIsTrue
<1>6. CASE Answer
  BY <1>1, <1>2, <1>3, <1>4, <1>6 DEF WaitInv, Answer, Return, Returned, NilIsTrue
<1>7. CASE Timeout
  BY <1>1, <1>2, <1>3, <1>4, <1>7 DEF WaitInv, Timeout, Return, Returned, NilIsTrue
<1>8. CASE Resume
  BY <1>1, <1>2, <1>3, <1>4, <1>8 DEF WaitInv, Resume, Returned, NilIsTrue
<1> QED BY <1>5, <1>6, <1>7, <1>8

\* Every step keeps the invariant.
LEMMA NextInv ==
  ASSUME WaitInv, [Next]_vars
  PROVE  WaitInv'
<1>1. CASE \E c \in Operation, v \in 0..Now \cup {AnyVersion} : Call(c, v)
  BY <1>1, CallInv
<1>2. CASE WaitStep
  BY <1>2, HasInv, OpenWatchInv, ReceiveInv, EndInv DEF WaitStep
<1>3. CASE StreamEnds \/ Resume
  BY <1>3, EndInv
<1>4. CASE \E n \in Name, t \in {"ADDED", "MODIFIED", "DELETED"}, s \in State : Change(n, t, s)
  BY <1>4, ChangeInv
<1>5. CASE UNCHANGED vars
  <2>1. (\A v : HoldsAt(v)' <=> HoldsAt(v)) /\ Base' = Base /\ Now' = Now
    BY <1>5 DEF vars, HoldsAt, ExistsAt, InStateAt, LastChange, Base, Now
  <2> QED BY <1>5, <2>1 DEF vars, WaitInv, TypeOK, Returned, NilIsTrue, NothingFound, Matches
<1> QED BY <1>1, <1>2, <1>3, <1>4, <1>5 DEF Next

-----------------------------------------------------------------------------
\* Where a wait stands in the history and what its goroutine has read.
THEOREM WaitInvHolds == Spec => []WaitInv
<1>1. Init => WaitInv
  BY InitInv
<1>2. WaitInv /\ [Next]_vars => WaitInv'
  BY NextInv
<1> QED BY <1>1, <1>2, PTL DEF Spec

\* A wait of the k8s client that returns nil is right, for any history.
THEOREM NilIsAlwaysTrue == Spec => []NilIsTrue
<1>1. WaitInv => NilIsTrue
  BY DEF WaitInv
<1> QED BY <1>1, WaitInvHolds, PTL

\* A wait that times out before the goroutine had an answer has skipped nothing.
THEOREM TimeoutIsAlwaysHonest == Spec => []TimeoutIsHonest
<1>1. WaitInv => TimeoutIsHonest
  <2> SUFFICES ASSUME WaitInv, Returned("timeout"), rx # "stuck"
               PROVE  /\ \A v \in (opened + 1)..pos : log[v].name = call.name => ~HoldsAt(v)
                      /\ since = AnyVersion /\ call.kind = "reached"
                            /\ stream # "none" /\ call.name \notin initial => ~HoldsAt(opened)
    BY DEF TimeoutIsHonest
  <2>1. NothingFound /\ TypeOK /\ pos <= Now
    BY DEF WaitInv
  <2>2. \A v \in (opened + 1)..pos : v \in 1..Now
    BY <2>1 DEF TypeOK, Version, Now
  <2> QED BY <2>1, <2>2, NoMatchNoHold DEF NothingFound
<1> QED BY <1>1, WaitInvHolds, PTL

-----------------------------------------------------------------------------
(* What holds between the changes. *)

\* A change that does not end the wait brings nothing about, of whatever object.
LEMMA NoMatchNoChange ==
  ASSUME TypeOK, NEW k \in Nat, k + 1 \in 1..Now, ~HoldsAt(k), ~Matches(log[k + 1])
  PROVE  ~HoldsAt(k + 1)
<1>1. log[k + 1] \in Event /\ call \in Operation
  BY DEF TypeOK, Now
<1>2. CASE log[k + 1].name = call.name
  BY <1>2, NoMatchNoHold
<1>3. CASE log[k + 1].name # call.name
  <2>1. \A j \in 1..k : LastChange(j, call.name, k + 1) <=> LastChange(j, call.name, k)
    BY <1>3 DEF LastChange
  <2>2. ~LastChange(k + 1, call.name, k + 1)
    BY <1>3 DEF LastChange
  <2>3. \A S : InStateAt(call.name, k + 1, S) <=> InStateAt(call.name, k, S)
    BY <2>1, <2>2 DEF InStateAt
  <2> QED BY <2>3 DEF HoldsAt, ExistsAt
<1> QED BY <1>2, <1>3

\* The steps that leave history and reading alone, or end the silence.
LEMMA QuietKeepsNothingMissed ==
  ASSUME WaitInv, NothingMissed,
         UNCHANGED <<log, call, opened, pos>>, Silent' => Silent
  PROVE  NothingMissed'
<1>1. \A v : HoldsAt(v)' <=> HoldsAt(v)
  BY DEF HoldsAt, ExistsAt, InStateAt, LastChange
<1> QED BY <1>1 DEF NothingMissed

\* A change made by others is after everything read.
LEMMA ChangeKeepsNothingMissed ==
  ASSUME WaitInv, NothingMissed, NEW n \in Name, NEW t \in {"ADDED", "MODIFIED", "DELETED"},
         NEW s \in State, Change(n, t, s)
  PROVE  NothingMissed'
<1> DEFINE e == [type |-> t, name |-> n, state |-> s]
<1>1. e \in Event /\ log' = Append(log, e) /\ UNCHANGED waitVars
  BY DEF Change, Event
<1>2. log \in Seq(Event) /\ Now \in Nat
  BY DEF WaitInv, TypeOK, Now
<1>3. \A v \in 0..Now : HoldsAt(v)' <=> HoldsAt(v)
  BY <1>1, <1>2, HistoryFixed DEF HoldsAt, ExistsAt, waitVars
<1>4. Silent' <=> Silent
  BY <1>1 DEF Silent, Returned, waitVars
<1>5. Silent => opened \in 0..Now /\ \A v \in opened..pos : v \in 0..Now
  BY <1>2 DEF Silent, WaitInv, TypeOK, Version
<1> QED BY <1>1, <1>3, <1>4, <1>5 DEF NothingMissed, waitVars

\* The goroutine goes on by one change at most.
LEMMA ReceiveKeepsNothingMissed ==
  ASSUME WaitInv, NothingMissed, Receive
  PROVE  NothingMissed'
<1>1. /\ UNCHANGED <<log, pc, call, since, begin, opened, stream, result>>
      /\ pc = "select" /\ rx = "reading" /\ stream # "none" /\ Silent
  BY DEF Receive, Silent, WaitInv
<1>2. \A v : HoldsAt(v)' <=> HoldsAt(v)
  BY <1>1 DEF HoldsAt, ExistsAt, InStateAt, LastChange
<1>3. opened <= pos /\ pos <= Now /\ opened \in Nat /\ pos \in Nat /\ Now \in Nat /\ TypeOK
  BY <1>1 DEF WaitInv, TypeOK, Version, Now
<1>4. CASE UNCHANGED pos
  BY <1>1, <1>4, QuietKeepsNothingMissed
<1>5. CASE ReadChange
  <2>1. /\ pos' = pos + 1 /\ pos < Now
        /\ rx' = IF Matches(log[pos + 1]) THEN "sending" ELSE "reading"
    BY <1>5 DEF ReadChange
  <2>2. SUFFICES ASSUME Silent', ~HoldsAt(opened)
                 PROVE  \A v \in opened..(pos + 1) : ~HoldsAt(v)
    BY <1>1, <1>2, <2>1 DEF NothingMissed
  <2>3. ~Matches(log[pos + 1])
    BY <1>1, <2>1, <2>2 DEF Silent, Returned
  <2>4. \A v \in opened..pos : ~HoldsAt(v)
    BY <1>1, <2>2 DEF NothingMissed
  <2>5. ~HoldsAt(pos) /\ pos + 1 \in 1..Now
    BY <1>3, <2>1, <2>4
  <2>6. ~HoldsAt(pos + 1)
    BY <1>3, <2>3, <2>5, NoMatchNoChange
  <2> QED BY <1>3, <2>4, <2>6
<1> QED BY <1>4, <1>5 DEF Receive, ReadInitial

\* A watch that has just been opened has read nothing.
LEMMA OpenKeepsNothingMissed ==
  ASSUME WaitInv, OpenWatch
  PROVE  NothingMissed'
<1>1. CASE pc' = "select"
  <2>1. UNCHANGED <<log, call, since>> /\ pos' = opened' /\ opened' \in Nat
    BY <1>1 DEF OpenWatch, Return, WaitInv, TypeOK, Version, Now
  <2>2. \A v \in opened'..pos' : v = opened'
    BY <2>1
  <2> QED BY <2>1, <2>2 DEF NothingMissed
<1>2. CASE Return("error")
  BY <1>2 DEF NothingMissed, Silent, Return, Returned
<1> QED BY <1>1, <1>2 DEF OpenWatch

\* No step of the wait or of others lets a change go by.
LEMMA NextKeepsNothingMissed == WaitInv /\ NothingMissed /\ [Next]_vars => NothingMissed'
<1> SUFFICES ASSUME WaitInv, NothingMissed, [Next]_vars PROVE NothingMissed'
  OBVIOUS
<1>1. CASE \E c \in Operation, v \in 0..Now \cup {AnyVersion} : Call(c, v)
  BY <1>1 DEF Call, NothingMissed, Silent
<1>2. CASE Has \/ StreamEnds \/ Answer \/ Timeout \/ Resume \/ UNCHANGED vars
  <2>1. UNCHANGED <<log, call, opened, pos>>
    BY <1>2 DEF Has, StreamEnds, Answer, Timeout, Resume, vars
  <2>2. Silent' => Silent
    BY <1>2 DEF Has, StreamEnds, Answer, Timeout, Resume, vars, Silent, Return, Returned, WaitInv
  <2> QED BY <2>1, <2>2, QuietKeepsNothingMissed
<1>3. CASE OpenWatch
  BY <1>3, OpenKeepsNothingMissed
<1>4. CASE Receive
  BY <1>4, ReceiveKeepsNothingMissed
<1>5. CASE \E n \in Name, t \in {"ADDED", "MODIFIED", "DELETED"}, s \in State : Change(n, t, s)
  BY <1>5, ChangeKeepsNothingMissed
<1> QED BY <1>1, <1>2, <1>3, <1>4, <1>5 DEF Next, WaitStep

\* If what was waited for did not hold when the watch began, it held at no version
\* that a wait without an answer has come by, for any history (client.go:637-794).
THEOREM NothingIsMissed == Spec => []NothingMissed
<1>1. Init => NothingMissed
  BY DEF Init, NothingMissed, Silent
<1> QED BY <1>1, NextKeepsNothingMissed, WaitInvHolds, PTL DEF Spec

=============================================================================
