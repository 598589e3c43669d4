---------------------------- MODULE CrossSyncProofs ----------------------------
(***************************************************************************)
(* CrossSync for every number of pods and every set of transactions: what  *)
(* CrossSyncGtids has established when it returns nil.                     *)
(***************************************************************************)
EXTENDS CrossSync, TLAPS

USE CrossSyncAssumption DEF Pods, Others

\* The call starts with nothing established.
LEMMA InitInv == Init => SyncInv
  BY DEF Init, SyncInv, TypeOK, LoopShape, Progress, Control, Covered, Answered, Looping

\* What the group does only adds to what the pods have executed.
LEMMA GrowthInv ==
  ASSUME SyncInv, NEW p \in Pods, NEW g \in Gtid, Commit(p, g) \/ Replicate(p, g)
  PROVE  SyncInv'
<1>1. /\ executed' = [executed EXCEPT ![p] = @ \cup {g}]
      /\ UNCHANGED callVars
  BY DEF Commit, Replicate
<1>2. \A q \in Pods : executed[q] \subseteq executed'[q]
  BY <1>1 DEF SyncInv, TypeOK
<1>3. TypeOK'
  BY <1>1 DEF SyncInv, TypeOK, callVars
<1>4. LoopShape'
  BY <1>1 DEF SyncInv, LoopShape, callVars
<1>5. Covered' = Covered /\ Answered' = Answered
  BY <1>1 DEF Covered, Answered, callVars
<1>6. Covered \subseteq Pods /\ Answered \subseteq Pods /\ 1 \in Pods
  BY DEF SyncInv, TypeOK, Covered, Answered, LoopShape, Looping
<1>7. Progress'
  <2>1. \A q \in Pods : start'[q] \subseteq executed'[q]
    BY <1>1, <1>2 DEF SyncInv, Progress, callVars
  <2>2. pc' = "waitFirst" => start'[i'] \subseteq gtidSet'
    BY <1>1 DEF SyncInv, Progress, callVars
  <2>3. \A q \in Covered' : start'[q] \subseteq executed'[1]
    BY <1>1, <1>2, <1>5, <1>6 DEF SyncInv, Progress, callVars
  <2>4. pc' = "waitOther" => \A q \in Pods : start'[q] \subseteq gtidSet'
    BY <1>1 DEF SyncInv, Progress, callVars
  <2>5. \A q \in Pods, r \in Answered' : start'[q] \subseteq executed'[r]
    BY <1>1, <1>2, <1>5, <1>6 DEF SyncInv, Progress, callVars
  <2>6. result' = "ok" => \A q \in Pods : start'[q] \subseteq executed'[1]
    BY <1>1, <1>2, <1>6 DEF SyncInv, Progress, callVars
  <2> QED BY <2>1, <2>2, <2>3, <2>4, <2>5, <2>6 DEF Progress
<1> QED BY <1>3, <1>4, <1>7 DEF SyncInv

\* Every way out through the deferred close keeps the invariant.
LEMMA ErrorInv ==
  ASSUME SyncInv, Error
  PROVE  SyncInv'
<1>1. TypeOK'
  BY DEF SyncInv, TypeOK, Error, Control
<1>2. LoopShape'
  BY DEF SyncInv, LoopShape, Error, Looping
<1>3. Progress'
  BY DEF SyncInv, Progress, Error, Covered, Answered
<1> QED BY <1>1, <1>2, <1>3 DEF SyncInv

\* Begin, OpenSession and CloseSessions compare nothing.
LEMMA FrameInv ==
  ASSUME SyncInv, Begin \/ OpenSession \/ CloseSessions
  PROVE  SyncInv'
<1>1. CASE Begin
  BY <1>1 DEF SyncInv, TypeOK, LoopShape, Progress, Begin, Covered, Answered, Looping, Control
<1>2. CASE OpenSession
  <2>1. TypeOK'
    BY <1>2 DEF SyncInv, TypeOK, OpenSession, StartLoop, LoopShape, Control
  <2>2. LoopShape'
    BY <1>2 DEF SyncInv, TypeOK, LoopShape, OpenSession, StartLoop, Looping
  <2>3. Progress'
    BY <1>2 DEF SyncInv, TypeOK, LoopShape, Progress, OpenSession, StartLoop, Covered, Answered
  <2> QED BY <2>1, <2>2, <2>3 DEF SyncInv
<1>3. CASE CloseSessions
  BY <1>3 DEF SyncInv, TypeOK, LoopShape, Progress, CloseSessions, Covered, Answered, Looping, Control
<1> QED BY <1>1, <1>2, <1>3

\* A set read from a pod holds what that pod is known to have.
LEMMA ReadInv ==
  ASSUME SyncInv, ReadOther \/ ReadFirst
  PROVE  SyncInv'
<1>1. CASE ReadOther
  <2>1. TypeOK'
    BY <1>1 DEF SyncInv, TypeOK, ReadOther, LoopShape, Looping, Control
  <2>2. LoopShape'
    BY <1>1 DEF SyncInv, LoopShape, ReadOther, Looping
  <2>3. Progress'
    BY <1>1 DEF SyncInv, TypeOK, LoopShape, Progress, ReadOther, Covered, Answered, Looping
  <2> QED BY <2>1, <2>2, <2>3 DEF SyncInv
<1>2. CASE ReadFirst
  <2>1. TypeOK'
    BY <1>2 DEF SyncInv, TypeOK, ReadFirst, LoopShape, Looping, Control
  <2>2. LoopShape'
    BY <1>2 DEF SyncInv, LoopShape, ReadFirst, Looping
  <2>3. \A p \in Pods : start[p] \subseteq executed[1]
    BY <1>2 DEF SyncInv, Progress, Covered, ReadFirst
  <2>4. Progress'
    BY <1>2, <2>3 DEF SyncInv, TypeOK, LoopShape, Progress, ReadFirst, Covered, Answered, Looping
  <2> QED BY <2>1, <2>2, <2>4 DEF SyncInv
<1> QED BY <1>1, <1>2

\* The first loop: another pod is covered by the first one.
LEMMA WaitFirstInv ==
  ASSUME SyncInv, WaitFirst
  PROVE  SyncInv'
<1>1. i \in Others /\ start[i] \subseteq executed[1]
  BY DEF SyncInv, LoopShape, Progress, WaitFirst, Looping
<1>2. TypeOK'
  BY <1>1 DEF SyncInv, TypeOK, WaitFirst, NextIteration, Control
<1>3. LoopShape'
  BY <1>1 DEF SyncInv, TypeOK, LoopShape, WaitFirst, NextIteration, Looping
<1>4. Covered' = 2..i
  BY <1>1 DEF WaitFirst, NextIteration, Covered, SyncInv, TypeOK
<1>5. \A p \in 2..i : start[p] \subseteq executed[1]
  BY <1>1 DEF SyncInv, Progress, Covered, WaitFirst
<1>6. Answered' = {}
  BY <1>1 DEF WaitFirst, NextIteration, Answered, SyncInv, LoopShape
<1>7. Progress'
  BY <1>4, <1>5, <1>6 DEF SyncInv, Progress, LoopShape, WaitFirst, NextIteration
<1> QED BY <1>2, <1>3, <1>7 DEF SyncInv

\* The second loop: another pod has all that any of them had.
LEMMA WaitOtherInv ==
  ASSUME SyncInv, WaitOther
  PROVE  SyncInv'
<1>1. i \in Others /\ \A p \in Pods : start[p] \subseteq executed[i]
  BY DEF SyncInv, LoopShape, Progress, WaitOther, Looping
<1>2. TypeOK'
  BY <1>1 DEF SyncInv, TypeOK, WaitOther, NextIteration, Control
<1>3. LoopShape'
  BY <1>1 DEF SyncInv, TypeOK, LoopShape, WaitOther, NextIteration, Looping
<1>4. \A p \in Pods : start[p] \subseteq executed[1]
  BY DEF SyncInv, Progress, Covered, WaitOther
<1>5. Answered' = 2..i
  BY <1>1 DEF WaitOther, NextIteration, Answered, SyncInv, TypeOK, LoopShape
<1>6. \A p \in Pods, q \in 2..i : start[p] \subseteq executed[q]
  BY <1>1 DEF SyncInv, Progress, Answered, WaitOther
<1>7. Covered' \subseteq Pods
  BY <1>1 DEF Covered, WaitOther, NextIteration
<1>8. Progress'
  BY <1>4, <1>5, <1>6, <1>7 DEF SyncInv, Progress, LoopShape, WaitOther, NextIteration
<1> QED BY <1>2, <1>3, <1>8 DEF SyncInv

\* Every step keeps the invariant.
LEMMA NextInv ==
  ASSUME SyncInv, [Next]_vars
  PROVE  SyncInv'
<1>1. CASE Begin \/ OpenSession \/ CloseSessions
  BY <1>1, FrameInv
<1>2. CASE ReadOther \/ ReadFirst
  BY <1>2, ReadInv
<1>3. CASE WaitFirst
  BY <1>3, WaitFirstInv
<1>4. CASE WaitOther
  BY <1>4, WaitOtherInv
<1>5. CASE TimesOut \/ QueryFails
  BY <1>5, ErrorInv DEF TimesOut, QueryFails
<1>6. CASE \E p \in Pods, g \in Gtid : Commit(p, g) \/ Replicate(p, g)
  BY <1>6, GrowthInv
<1>7. CASE UNCHANGED vars
  BY <1>7 DEF vars, SyncInv, TypeOK, LoopShape, Progress, Covered, Answered
<1> QED BY <1>1, <1>2, <1>3, <1>4, <1>5, <1>6, <1>7 DEF Next, Call

\* What the loops of CrossSyncGtids have established at each point of the call.
THEOREM SyncInvHolds == Spec => []SyncInv
<1>1. Init => SyncInv
  BY InitInv
<1>2. SyncInv /\ [Next]_vars => SyncInv'
  BY NextInv
<1> QED BY <1>1, <1>2, PTL DEF Spec

\* A call that returned nil: every pod has all that any of them had executed
\* when the call began, for any number of pods, whatever commits meanwhile.
THEOREM SyncIsComplete == Spec => []CrossSynced
<1>1. SyncInv => CrossSynced
  <2> SUFFICES ASSUME SyncInv, result = "ok", NEW p \in Pods, NEW q \in Pods
               PROVE  start[p] \subseteq executed[q]
    BY DEF CrossSynced
  <2>1. CASE q = 1
    BY <2>1 DEF SyncInv, Progress
  <2>2. CASE q # 1
    <3>1. q \in Others
      BY <2>2
    <3>2. pc \in {"close", "done"}
      BY DEF SyncInv, LoopShape
    <3>3. Answered = Others
      BY <3>2 DEF Answered
    <3> QED BY <3>1, <3>3 DEF SyncInv, Progress
  <2> QED BY <2>1, <2>2
<1> QED BY <1>1, SyncInvHolds, PTL

\* What is not delivered to others stays where it is.
LEMMA ErrantStaysAlone ==
  ASSUME SyncInv, ErrantAlone, [Next]_vars
  PROVE  ErrantAlone'
<1>1. CASE UNCHANGED executed
  BY <1>1 DEF ErrantAlone
<1>2. ASSUME NEW p \in Pods, NEW g \in Gtid, Commit(p, g) \/ Replicate(p, g)
      PROVE  ErrantAlone'
  <2>1. executed' = [executed EXCEPT ![p] = @ \cup {g}] /\ executed \in [Pods -> SUBSET Gtid]
    BY <1>2 DEF Commit, Replicate, SyncInv, TypeOK
  <2>2. \A h \in Gtid \ {g}, q \in Pods : h \in executed'[q] <=> h \in executed[q]
    BY <2>1
  <2>3. CASE Commit(p, g)
    BY <2>1, <2>2, <2>3 DEF Commit, ErrantAlone
  <2>4. CASE Replicate(p, g)
    BY <2>1, <2>2, <2>4 DEF Replicate, ErrantAlone
  <2> QED BY <1>2, <2>3, <2>4
<1>3. CASE Call \/ QueryFails \/ UNCHANGED vars
  <2>1. UNCHANGED executed
    BY <1>3 DEF Call, Begin, OpenSession, ReadOther, WaitFirst, ReadFirst, WaitOther, TimesOut, CloseSessions,
                QueryFails, Error, vars
  <2> QED BY <1>1, <2>1
<1> QED BY <1>2, <1>3 DEF Next

\* A call that returned nil certifies, for any number of pods, that none of them
\* had an errant transaction when it began.
THEOREM NilExcludesErrant == Spec => []NilMeansNoErrant
<1>1. Init => ErrantAlone
  BY DEF Init
<1>2. SyncInv /\ ErrantAlone /\ [Next]_vars => ErrantAlone'
  BY ErrantStaysAlone
<1>3. SyncInv /\ CrossSynced /\ ErrantAlone => NilMeansNoErrant
  <2> SUFFICES ASSUME SyncInv, CrossSynced, ErrantAlone, result = "ok", N > 1,
                      NEW p \in Pods, NEW g \in Errant, g \in start[p]
               PROVE  FALSE
    BY DEF NilMeansNoErrant
  <2>1. PICK q \in Pods : q # p
    <3>1. 1 \in Pods /\ 2 \in Pods
      OBVIOUS
    <3> QED BY <3>1
  <2>2. g \in executed[p] /\ g \in executed[q]
    BY DEF CrossSynced
  <2> QED BY <2>1, <2>2 DEF ErrantAlone
<1> QED BY <1>1, <1>2, <1>3, SyncInvHolds, SyncIsComplete, PTL DEF Spec

\* No path out of the call leaves a session open.
THEOREM SessionsAreClosed == Spec => []SessionsBalanced
<1>1. SyncInv => SessionsBalanced
  BY DEF SyncInv, LoopShape, SessionsBalanced
<1> QED BY <1>1, SyncInvHolds, PTL

=============================================================================
