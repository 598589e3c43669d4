--------------------------- MODULE UnitPromiseProofs ---------------------------
(***************************************************************************)
(* UnitLifecycle implements UnitPromise, for every cluster and every bound *)
(* on polls, faults and runs: the initial states map to initial states and *)
(* every step of the calls and controllers to a step of the promise or to  *)
(* none.                                                                   *)
(***************************************************************************)
EXTENDS UnitLifecycleProofs

\* The abstract state, as the instance Promise reads it.
AbsUnit == IF op # "none" THEN op ELSE IF pc = "body" THEN "in" ELSE "out"
AbsExists == {n \in Namespace : nsPhase[n] # "absent"}
AbsCondemned == {n \in Namespace : nsPhase[n] = "terminating"}

AbsStutters == UNCHANGED <<AbsUnit, outcome, AbsExists, AbsCondemned>>

USE DEF AbsUnit, AbsExists, AbsCondemned

-----------------------------------------------------------------------------
(* Steps of the unit that leave the phases of the namespaces alone. *)

\* A step within an operation, on whatever object, is none of the promise's.
LEMMA InsideStutters ==
    ASSUME UNCHANGED <<op, outcome, nsPhase>>, op # "none"
    PROVE  AbsStutters
BY DEF AbsStutters

\* An operation that fails, or a process that dies, gives up.
LEMMA FailGivesUp ==
    ASSUME UnitInv, pc # "idle", Fail, nsPhase' = nsPhase
    PROVE  Promise!GivesUp
<1>1. op # "none" \/ pc = "body"
  BY DEF UnitInv, QueueShape
<1>2. op \in {"none", "setup", "teardown"}
  BY DEF UnitInv, TypeOK
<1> QED
  BY <1>1, <1>2 DEF Promise!GivesUp, Fail, Return, Goto

\* A namespace that is wiped ends Teardown only when both are gone.
LEMMA WipedSucceeds ==
    ASSUME UnitInv, UnitInv', Wiped, pc \in Wiping, nsPhase' = nsPhase
    PROVE  AbsStutters \/ Promise!TeardownSucceeds
<1>1. op \in {"setup", "teardown"}
  BY DEF UnitInv, QueueShape, Wiping
<1>2. CASE UNCHANGED <<op, outcome>>
  BY <1>1, <1>2, InsideStutters
<1>3. CASE op = "teardown" /\ Return("idle", "ok")
  <2>1. \A n \in UnitNamespaces : nsPhase[n] = "absent"
    BY <1>3 DEF UnitInv, WipedStayGone, Return, Goto
  <2>2. AbsExists \cap {Ns, Aux} = {}
    BY <2>1, UnitAssumption DEF UnitNamespaces
  <2> QED
    BY <1>3, <2>2 DEF Promise!TeardownSucceeds, Promise!Own, Return, Goto
<1> QED
  BY <1>1, <1>2, <1>3 DEF Wiped

\* The calls that change no namespace.
LEMMA CallsKeepPromise ==
    ASSUME UnitInv, UnitInv',
           \/ CheckNamespace \/ ListStage \/ CollectStage \/ CheckPending
           \/ \E o \in Obj : ReadFinalizers(o) \/ PatchFinalizers(o) \/ DeleteListed(o)
    PROVE  AbsStutters \/ Promise!GivesUp \/ Promise!TeardownSucceeds
<1>1. pc \in Wiping /\ pc # "idle" /\ op # "none"
  BY DEF CheckNamespace, ListStage, CollectStage, CheckPending, ReadFinalizers,
         PatchFinalizers, DeleteListed, Wiping, UnitInv, QueueShape
<1>2. nsPhase' = nsPhase
  BY DEF CheckNamespace, ListStage, CollectStage, CheckPending, ReadFinalizers,
         PatchFinalizers, DeleteListed, apiVars, DropFinalizer, DeleteObject
<1>3. GoesOn \/ Fail \/ Wiped
  BY DEF CheckNamespace, ListStage, CollectStage, CheckPending, ReadFinalizers,
         PatchFinalizers, DeleteListed, CallFails, StripError, ItemDone
<1> QED
  BY <1>1, <1>2, <1>3, InsideStutters, FailGivesUp, WipedSucceeds DEF GoesOn

-----------------------------------------------------------------------------
(* Steps that change a phase. *)

\* Deleting the namespace condemns it, also when the answer is lost.
LEMMA DeleteCondemns ==
    ASSUME UnitInv, DeleteNamespaceCall
    PROVE  Promise!GivesUp \/ \E n \in Namespace : Promise!Condemn(n)
<1>1. pc \in Wiping \ {"has"} /\ pc # "idle" /\ op \in {"setup", "teardown"}
  BY DEF DeleteNamespaceCall, Wiping, UnitInv, QueueShape
<1>2. PICK n \in Namespace : n = Cur /\ n \in {Ns, Aux}
  BY <1>1, CurIsOwn
<1>3. CASE DeleteNs(Cur)
  <2>1. AbsCondemned' = AbsCondemned \cup {n} /\ AbsExists' = AbsExists /\ n \in AbsExists
    BY <1>2, <1>3 DEF DeleteNs, UnitInv, TypeOK, ApiTypeOK
  <2>2. GoesOn \/ Fail
    BY DEF DeleteNamespaceCall, CallFails
  <2>3. Promise!Condemn(n)
    BY <1>1, <1>2, <2>1, <2>2
       DEF Promise!Condemn, Promise!Own, GoesOn, Fail, Return, Goto
  <2> QED
    BY <2>3
<1>4. CASE ~DeleteNs(Cur)
  BY <1>1, <1>4, FailGivesUp DEF DeleteNamespaceCall, CallFails, apiVars
<1> QED
  BY <1>3, <1>4

\* Setup creates the namespace when both are gone, or fails, told or not.
LEMMA CreateKeepsPromise ==
    ASSUME UnitInv, CreateNamespace
    PROVE  Promise!SetupSucceeds \/ Promise!GivesUp
<1>1. pc = "create" /\ pc # "idle" /\ op = "setup"
  BY DEF CreateNamespace, UnitInv, QueueShape, Wiping
<1>2. AbsExists \cap {Ns, Aux} = {}
  BY <1>1, UnitAssumption DEF UnitInv, WipedStayGone, UnitNamespaces
<1>3. ASSUME CreateNs(Ns)
      PROVE  AbsExists' = AbsExists \cup {Ns} /\ AbsCondemned' = AbsCondemned
  BY <1>3, UnitAssumption DEF CreateNs, UnitInv, TypeOK, ApiTypeOK
<1>4. CASE CreateNs(Ns) /\ Return("body", "ok")
  BY <1>1, <1>2, <1>3, <1>4 DEF Promise!SetupSucceeds, Promise!Own, Return, Goto
<1>5. CASE CreateNs(Ns) /\ Fail
  BY <1>1, <1>2, <1>3, <1>5 DEF Promise!GivesUp, Promise!Own, Fail, Return, Goto
<1>6. CASE UNCHANGED apiVars /\ Fail
  BY <1>1, <1>6, FailGivesUp DEF apiVars
<1> QED
  BY <1>4, <1>5, <1>6 DEF CreateNamespace, CallFails

\* An operation begins.
LEMMA BeginStarts ==
    ASSUME UnitInv, BeginSetup \/ BeginTeardown
    PROVE  Promise!Start("out", "setup") \/ Promise!Start("in", "teardown")
<1>1. op = "none"
  BY DEF BeginSetup, BeginTeardown, UnitInv, QueueShape, Wiping
<1>2. CASE BeginSetup
  BY <1>1, <1>2 DEF BeginSetup, BeginOp, Promise!Start, apiVars
<1>3. CASE BeginTeardown
  BY <1>1, <1>3 DEF BeginTeardown, BeginOp, Promise!Start, apiVars
<1> QED
  BY <1>2, <1>3

\* The body and the controllers.
LEMMA OthersKeepPromise ==
    ASSUME UnitInv, CreateAux \/ (\E o \in Obj : Apply(o)) \/ ControllerStep
    PROVE  \/ AbsStutters \/ Promise!MakeAuxiliary
           \/ \E n \in Namespace : Promise!Disappears(n)
<1>1. UNCHANGED unitVars
  BY DEF CreateAux, Apply, ControllerStep
<1>2. CASE nsPhase' = nsPhase
  BY <1>1, <1>2 DEF AbsStutters, unitVars
<1>3. CASE CreateAux
  <2>1. Aux \in Namespace /\ pc = "body" /\ op = "none"
    BY <1>3, UnitAssumption DEF CreateAux, UnitInv, QueueShape, Wiping
  <2>2. /\ AbsExists' = AbsExists \cup {Aux} /\ AbsCondemned' = AbsCondemned
        /\ Aux \notin AbsExists
    BY <1>3, <2>1 DEF CreateAux, CreateNs, UnitInv, TypeOK, ApiTypeOK
  <2> QED
    BY <1>1, <2>1, <2>2 DEF Promise!MakeAuxiliary, unitVars
<1>4. ASSUME NEW n \in Namespace, NamespaceGone(n) PROVE Promise!Disappears(n)
  <2>1. /\ AbsExists' = AbsExists \ {n} /\ AbsCondemned' = AbsCondemned \ {n}
        /\ n \in AbsCondemned
    BY <1>4 DEF NamespaceGone, UnitInv, TypeOK, ApiTypeOK
  <2> QED
    BY <1>1, <2>1 DEF Promise!Disappears, unitVars
<1>5. CASE \E o \in Obj : Apply(o) \/ ObjectController(o)
  BY <1>2, <1>5
     DEF Apply, ObjectController, Reconcile, Collect, Release, Terminated,
         NamespaceEvicts, CreateObject, DeleteObject, DropFinalizer
<1> QED
  BY <1>3, <1>4, <1>5 DEF ControllerStep, Controllers

-----------------------------------------------------------------------------
\* Every step keeps the promise.
LEMMA StepKeepsPromise ==
    ASSUME UnitInv, UnitInv', [Next]_vars
    PROVE  [Promise!PNext]_(Promise!pVars)
<1>1. CASE AbsStutters
  BY <1>1 DEF AbsStutters, Promise!pVars
<1>2. CASE UNCHANGED vars
  BY <1>2 DEF vars, Promise!pVars
<1>3. CASE BeginSetup \/ BeginTeardown
  BY <1>3, BeginStarts DEF Promise!PNext
<1>4. CASE \/ CheckNamespace \/ ListStage \/ CollectStage \/ CheckPending
           \/ \E o \in Obj : ReadFinalizers(o) \/ PatchFinalizers(o) \/ DeleteListed(o)
  BY <1>1, <1>4, CallsKeepPromise DEF Promise!PNext
<1>5. CASE DeleteNamespaceCall
  BY <1>5, DeleteCondemns DEF Promise!PNext
<1>6. CASE CreateNamespace
  BY <1>6, CreateKeepsPromise DEF Promise!PNext
<1>7. CASE Crash
  BY <1>7, FailGivesUp DEF Crash, apiVars, Promise!PNext
<1>8. CASE CreateAux \/ (\E o \in Obj : Apply(o)) \/ ControllerStep
  BY <1>1, <1>8, OthersKeepPromise DEF Promise!PNext
<1> QED
  BY <1>2, <1>3, <1>4, <1>5, <1>6, <1>7, <1>8 DEF Next, UnitStep, WipeStep

\* Before the first Setup nothing is promised.
LEMMA InitKeepsPromise == Init => Promise!PInit
BY DEF Init, Promise!PInit

\* Setup and Teardown as they are written keep the promise of UnitPromise
\* (unit.go:32-50, 342-353; namespace.go).
THEOREM PromiseIsKept == Spec => PromiseKept
<1>1. UnitInv /\ UnitInv' /\ [Next]_vars => [Promise!PNext]_(Promise!pVars)
  BY StepKeepsPromise
<1> QED
  BY <1>1, InitKeepsPromise, UnitInvHolds, PTL DEF Spec, PromiseKept, Promise!PSpec

=============================================================================
