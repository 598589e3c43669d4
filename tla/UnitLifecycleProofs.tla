------------------------- MODULE UnitLifecycleProofs -------------------------
(***************************************************************************)
(* Proofs about UnitLifecycle, for every set of objects and namespaces and *)
(* every bound: type correctness, and the inductive invariant IInv from    *)
(* which the safety properties of Setup and Teardown follow.               *)
(***************************************************************************)
EXTENDS UnitLifecycle, FiniteSetTheorems, TLAPS

Names == Namespace \cup {NoName}

-----------------------------------------------------------------------------
(* Facts about the data. *)

\* The two tables of kinds have the lengths the stages run over.
LEMMA OrderLengths ==
    Len(WipeOrder) = 13 /\ Len(CollectOrder) = 12
BY DEF WipeOrder, CollectOrder

\* The queues an operation can have, taken apart.
LEMMA QueueFacts ==
    ASSUME NEW a, NEW b
    PROVE  /\ Head(<<a, b>>) = a /\ Tail(<<a, b>>) = <<b>>
           /\ Head(<<b>>) = b /\ Tail(<<b>>) = <<>>
           /\ <<b>> # <<>> /\ <<a, b>> # <<>> /\ <<a, b>> # <<b>>
OBVIOUS

\* Queues of one name are equal only for the same name.
LEMMA QueueInjective ==
    ASSUME NEW a, NEW b, <<a>> = <<b>>
    PROVE  a = b
OBVIOUS

\* Queues of names are sequences of names.
LEMMA QueueTypes ==
    ASSUME NEW a \in Names, NEW b \in Names
    PROVE  <<a, b>> \in Seq(Names) /\ <<b>> \in Seq(Names) /\ <<>> \in Seq(Names)
OBVIOUS

-----------------------------------------------------------------------------
(* Type correctness. *)

\* The API operations keep the state of the cluster well-typed.
LEMMA ApiTypes ==
    ASSUME ApiTypeOK, NEW o \in Obj, NEW n \in Namespace,
           \/ CreateObject(o) \/ DeleteObject(o) \/ DropFinalizer(o)
           \/ Terminated(o) \/ CreateNs(n) \/ DeleteNs(n) \/ NamespaceGone(n)
           \/ UNCHANGED apiVars
    PROVE  ApiTypeOK'
BY DEF ApiTypeOK, CreateObject, DeleteObject, DropFinalizer, Terminated, CreateNs,
       DeleteNs, NamespaceGone, Vanish, StoreAs, apiVars

\* So do the controllers.
LEMMA ControllerTypes ==
    ASSUME ApiTypeOK, Controllers
    PROVE  ApiTypeOK'
<1>1. CASE \E o \in Obj : ObjectController(o)
  <2> PICK o \in Obj : ObjectController(o)
    BY <1>1
  <2> QED
    BY ApiTypes, KubeApiAssumption
       DEF ObjectController, Reconcile, Collect, Release, NamespaceEvicts
<1>2. CASE \E n \in Namespace : NamespaceGone(n)
  BY <1>2 DEF NamespaceGone, ApiTypeOK
<1> QED
  BY <1>1, <1>2 DEF Controllers

-----------------------------------------------------------------------------
(* What the cluster does to the namespaces. *)

\* No namespace appears.
NoNewNs == \A n \in Namespace : nsPhase[n] = "absent" => nsPhase'[n] = "absent"

\* Every operation but the creation of a namespace keeps the contents inside
\* existing namespaces and makes no namespace appear.
LEMMA ApiShrinks ==
    ASSUME ApiTypeOK, ContentsHaveNs, NEW o \in Obj, NEW n \in Namespace,
           \/ CreateObject(o) /\ (ClusterScoped(o) \/ nsPhase[NsOf[o]] = "active")
           \/ DeleteObject(o) \/ DropFinalizer(o)
           \/ Terminated(o) \/ DeleteNs(n) \/ NamespaceGone(n)
           \/ UNCHANGED apiVars
    PROVE  ContentsHaveNs' /\ NoNewNs
BY KubeApiAssumption
   DEF ApiTypeOK, ContentsHaveNs, NoNewNs, CreateObject, DeleteObject, DropFinalizer,
       Terminated, DeleteNs, NamespaceGone, Vanish, StoreAs, apiVars, Present,
       ClusterScoped

\* A created namespace is the only one that appears.
LEMMA CreateNsAppears ==
    ASSUME ApiTypeOK, ContentsHaveNs, NEW n \in Namespace, CreateNs(n)
    PROVE  /\ ContentsHaveNs'
           /\ \A m \in Namespace \ {n} : nsPhase'[m] = nsPhase[m]
BY KubeApiAssumption
   DEF ApiTypeOK, ContentsHaveNs, CreateNs, Present, ClusterScoped

\* The controllers alone bring no namespace back.
LEMMA ControllersShrink ==
    ASSUME ApiTypeOK, ContentsHaveNs, Controllers
    PROVE  ContentsHaveNs' /\ NoNewNs
<1>1. CASE \E o \in Obj : ObjectController(o)
  <2> PICK o \in Obj : ObjectController(o)
    BY <1>1
  <2> QED
    BY ApiShrinks, KubeApiAssumption
       DEF ObjectController, Reconcile, Collect, Release, NamespaceEvicts
<1>2. CASE \E n \in Namespace : NamespaceGone(n)
  BY <1>2 DEF NamespaceGone, ApiTypeOK, ContentsHaveNs, NoNewNs, Present, ClusterScoped
<1> QED
  BY <1>1, <1>2 DEF Controllers

-----------------------------------------------------------------------------
(* What each kind of control step keeps. *)

\* The parts of the invariant that speak of the unit only.
ControlInv ==
    /\ TypeOK /\ QueueShape /\ NamedWipe /\ ListedHere

\* A step that resets the locals of the loops keeps the types.
LEMMA ResetTypes ==
    ASSUME TypeOK, ApiTypeOK', ResetLocals, Faulty \/ Answered, pc' \in Control,
           op' \in {"none", "setup", "teardown"}, outcome' \in {"none", "ok", "error"},
           queue' \in Seq(Names)
    PROVE  TypeOK'
<1>1. faults' \in 0..MaxFaults /\ runs' \in 0..MaxRuns
  BY UnitAssumption DEF TypeOK, Faulty, Answered
<1>2. stage' \in 1..13 /\ todo' = {} /\ item' = {} /\ pending' = FALSE /\ polls' = 0
  BY DEF ResetLocals
<1>3. polls' \in 0..MaxPolls
  BY <1>2, UnitAssumption
<1> QED
  BY <1>1, <1>2, <1>3 DEF TypeOK, Names

\* An operation that ends leaves the control state in order.
LEMMA ReturnInv ==
    ASSUME TypeOK, ApiTypeOK', NEW l \in {"idle", "body"}, NEW r \in {"ok", "error"},
           Return(l, r), Faulty \/ Answered
    PROVE  ControlInv'
<1>1. <<>> \in Seq(Names)
  BY DEF Names
<1>2. TypeOK'
  BY <1>1, ResetTypes DEF Return, Goto, Control
<1> QED
  BY <1>2 DEF ControlInv, Return, Goto, ResetLocals, QueueShape, NamedWipe, ListedHere,
              Wiping

\* The end of one namespace's wipe leaves it in order too.
LEMMA WipedInv ==
    ASSUME ControlInv, pc \in Wiping, ApiTypeOK', Wiped, Answered
    PROVE  ControlInv'
<1> USE DEF ControlInv
<1>1. CASE Tail(queue) # <<>> \/ op = "setup"
  <2>1. /\ pc' = IF Tail(queue) # <<>> THEN "has" ELSE "create"
        /\ queue' = Tail(queue) /\ ResetLocals /\ op' = op /\ outcome' = outcome
    BY <1>1 DEF Wiped, Goto
  <2>2. queue \in {<<Ns, Aux>>, <<Aux>>, <<Aux, Ns>>, <<Ns>>}
    BY DEF QueueShape, Wiping
  <2>3. QueueShape' /\ NamedWipe' /\ ListedHere'
    BY <2>1, <2>2, <1>1, QueueFacts
       DEF QueueShape, NamedWipe, ListedHere, ResetLocals, Wiping
  <2>4. queue' \in Seq(Names)
    BY <2>1, <2>2, QueueFacts, QueueTypes, UnitAssumption DEF Names
  <2>5. TypeOK'
    BY <2>1, <2>4, ResetTypes DEF TypeOK, Control
  <2> QED
    BY <2>3, <2>5
<1>2. CASE ~(Tail(queue) # <<>> \/ op = "setup")
  BY <1>2, ReturnInv DEF Wiped
<1> QED
  BY <1>1, <1>2

\* A step inside the wipe of one namespace keeps it, too.
LEMMA GoesOnInv ==
    ASSUME ControlInv, pc \in Wiping, GoesOn, Cur # NoName,
           ApiTypeOK', pc' \in Wiping, stage' \in 1..13,
           todo' \in SUBSET Obj, item' \in SUBSET todo',
           item' # {} => pc' \in {"patch", "delete"},
           \A o \in todo' : ClusterScoped(o) \/ NsOf[o] = Cur,
           pending' \in BOOLEAN, polls' \in 0..MaxPolls,
           Faulty \/ Answered
    PROVE  ControlInv'
<1>1. faults' \in 0..MaxFaults /\ runs' \in 0..MaxRuns
  BY UnitAssumption DEF ControlInv, TypeOK, Faulty, Answered
<1>2. TypeOK'
  BY <1>1 DEF ControlInv, TypeOK, GoesOn, Wiping, Control
<1>3. QueueShape'
  BY DEF ControlInv, QueueShape, GoesOn, Wiping
<1>4. NamedWipe' /\ ListedHere'
  BY DEF ControlInv, NamedWipe, ListedHere, GoesOn, Cur, ClusterScoped
<1> QED
  BY <1>2, <1>3, <1>4 DEF ControlInv

\* Wiped namespaces stay gone while the operation goes on, or when it fails.
LEMMA StayGone ==
    ASSUME TypeOK, WipedStayGone, NoNewNs,
           \/ queue' = queue /\ pc' \in Wiping
           \/ queue' = <<>> /\ pc' = "idle" /\ outcome' = "error"
    PROVE  WipedStayGone'
BY UnitAssumption DEF WipedStayGone, NoNewNs, Wiping, UnitNamespaces

\* The namespace whose absence has just been seen joins them.
LEMMA WipedIsGone ==
    ASSUME ControlInv, WipedStayGone, pc \in Wiping, NoNewNs, ~HasNamespace(Cur), Wiped
    PROVE  WipedStayGone'
<1>1. queue \in {<<Ns, Aux>>, <<Aux>>, <<Aux, Ns>>, <<Ns>>}
  BY DEF ControlInv, QueueShape, Wiping
<1>2. Cur # NoName => nsPhase'[Cur] = "absent"
  BY <1>1, QueueFacts, UnitAssumption DEF HasNamespace, NoNewNs, Cur
<1>3. CASE queue \in {<<Ns, Aux>>, <<Aux, Ns>>}
  <2>1. queue' = Tail(queue) /\ pc' = "has"
    BY <1>3, QueueFacts DEF Wiped, Goto
  <2>2. CASE queue = <<Ns, Aux>>
    <3>1. Cur = Ns /\ queue' = <<Aux>>
      BY <2>1, <2>2, QueueFacts DEF Cur
    <3>2. nsPhase'[Ns] = "absent" /\ queue' # <<Ns>>
      BY <1>2, <3>1, QueueInjective, UnitAssumption
    <3> QED
      BY <2>1, <3>2 DEF WipedStayGone
  <2>3. CASE queue = <<Aux, Ns>>
    <3>1. Cur = Aux /\ queue' = <<Ns>>
      BY <2>1, <2>3, QueueFacts DEF Cur
    <3>2. (Aux # NoName => nsPhase'[Aux] = "absent") /\ queue' # <<Aux>>
      BY <1>2, <3>1, QueueInjective, UnitAssumption
    <3> QED
      BY <2>1, <3>2 DEF WipedStayGone
  <2> QED
    BY <1>3, <2>2, <2>3
<1>4. CASE queue \in {<<Aux>>, <<Ns>>}
  <2>1. queue' = <<>>
    BY <1>4, QueueFacts DEF Wiped, Return
  <2>2. Cur # NoName => nsPhase'[Cur] = "absent"
    BY <1>2
  <2>3. CASE queue = <<Aux>>
    <3>1. Cur = Aux /\ nsPhase[Ns] = "absent"
      BY <2>3, QueueFacts DEF Cur, WipedStayGone
    <3> QED
      BY <2>1, <2>2, <3>1, UnitAssumption, QueueFacts
         DEF WipedStayGone, UnitNamespaces, NoNewNs
  <2>4. CASE queue = <<Ns>>
    <3>1. Cur = Ns /\ (Aux # NoName => nsPhase[Aux] = "absent")
      BY <2>4, QueueFacts DEF Cur, WipedStayGone
    <3> QED
      BY <2>1, <2>2, <3>1, UnitAssumption, QueueFacts
         DEF WipedStayGone, UnitNamespaces, NoNewNs
  <2> QED
    BY <1>4, <2>3, <2>4
<1> QED
  BY <1>1, <1>3, <1>4

-----------------------------------------------------------------------------
(* Every action preserves the invariant. *)

\* It is enough that the control state is in order, that nothing appears, and
\* that the operation goes on in the same queue or fails.
LEMMA Assemble ==
    ASSUME UnitInv, ControlInv', ContentsHaveNs', NoNewNs,
           \/ GoesOn /\ pc' \in Wiping
           \/ Fail
    PROVE  UnitInv'
<1>1. WipedStayGone'
  BY StayGone DEF UnitInv, GoesOn, Fail, Return, Goto
<1> QED
  BY <1>1 DEF UnitInv, ControlInv

\* A failing step.
LEMMA FailInv ==
    ASSUME UnitInv, ApiTypeOK', ContentsHaveNs', NoNewNs, Fail, Faulty \/ Answered
    PROVE  UnitInv'
<1>1. ControlInv'
  BY ReturnInv DEF Fail, UnitInv
<1> QED
  BY <1>1, Assemble

\* While namespace Cur is wiped, it is one of the two.
LEMMA CurNamed ==
    ASSUME UnitInv, pc \in Wiping
    PROVE  /\ Cur \in {Ns, Aux}
           /\ pc # "has" => Cur \in Namespace /\ Cur # NoName
<1>1. queue \in {<<Ns, Aux>>, <<Aux>>, <<Aux, Ns>>, <<Ns>>}
  BY DEF UnitInv, QueueShape, Wiping
<1>2. Cur \in {Ns, Aux}
  BY <1>1, QueueFacts DEF Cur
<1> QED
  BY <1>2, UnitAssumption DEF UnitInv, NamedWipe

\* Nothing happens in the cluster.
LEMMA Quiet ==
    ASSUME UnitInv, UNCHANGED apiVars
    PROVE  ApiTypeOK' /\ ContentsHaveNs' /\ NoNewNs
BY DEF UnitInv, TypeOK, ApiTypeOK, ContentsHaveNs, NoNewNs, apiVars, Present, ClusterScoped

\* HasNamespace: only a named namespace is wiped, an absent one is done.
LEMMA CheckNamespaceInv ==
    ASSUME UnitInv, CheckNamespace
    PROVE  UnitInv'
<1>1. ApiTypeOK' /\ ContentsHaveNs' /\ NoNewNs /\ pc \in Wiping /\ ControlInv
  BY Quiet DEF CheckNamespace, Wiping, UnitInv, ControlInv
<1>2. CASE CallFails
  BY <1>1, <1>2, FailInv DEF CallFails
<1>3. CASE HasNamespace(Cur) /\ Goto("list") /\ GoesOn /\ Answered
           /\ UNCHANGED <<stage, todo, item, pending, polls>>
  <2>1. item = {} /\ item' = {} /\ todo' = todo /\ Cur # NoName
    BY <1>3 DEF CheckNamespace, HasNamespace, UnitInv, ListedHere
  <2>2. ControlInv'
    BY <1>1, <1>3, <2>1, GoesOnInv DEF Goto, Wiping, UnitInv, TypeOK, ListedHere
  <2> QED
    BY <1>1, <1>3, <2>2, Assemble DEF Goto, Wiping
<1>4. CASE ~HasNamespace(Cur) /\ Wiped /\ Answered
  <2>1. ControlInv' /\ WipedStayGone'
    BY <1>1, <1>4, WipedInv, WipedIsGone DEF UnitInv
  <2> QED
    BY <1>1, <2>1 DEF UnitInv, ControlInv
<1> QED
  BY <1>2, <1>3, <1>4 DEF CheckNamespace

\* The stage that follows is again a position of WipeOrder.
LEMMA StageTypes ==
    ASSUME stage \in 1..13, StageDone(stage)
    PROVE  stage' \in 1..13 /\ pc' \in {"list", "deleteNs"}
BY OrderLengths DEF StageDone, Goto

\* A List call returns objects of the current namespace only.
LEMMA ListStageInv ==
    ASSUME UnitInv, ListStage
    PROVE  UnitInv'
<1>1. /\ ApiTypeOK' /\ ContentsHaveNs' /\ NoNewNs /\ pc \in Wiping /\ ControlInv
      /\ Cur # NoName
  BY Quiet, CurNamed DEF ListStage, Wiping, UnitInv, ControlInv
<1>2. CASE CallFails
  BY <1>1, <1>2, FailInv DEF CallFails
<1>3. CASE ~CallFails
  <2>1. /\ todo' = WipeListed(WipeOrder[stage], Cur)
        /\ GoesOn /\ Answered /\ UNCHANGED <<item, pending, polls>>
        /\ IF todo' = {} THEN StageDone(stage) ELSE Goto(ItemLabel(stage)) /\ UNCHANGED stage
    BY <1>3 DEF ListStage
  <2>2. stage' \in 1..13 /\ pc' \in Wiping
    BY <2>1, StageTypes DEF Goto, ItemLabel, Wiping, UnitInv, TypeOK
  <2>3. /\ todo' \in SUBSET Obj
        /\ \A o \in todo' : ClusterScoped(o) \/ NsOf[o] = Cur
    BY <2>1 DEF WipeListed, Listed, ClusterScoped
  <2>4. item = {}
    BY DEF ListStage, UnitInv, ListedHere
  <2>5. ControlInv'
    BY <1>1, <2>1, <2>2, <2>3, <2>4, GoesOnInv DEF UnitInv, TypeOK
  <2> QED
    BY <1>1, <2>1, <2>2, <2>5, Assemble
<1> QED
  BY <1>2, <1>3

\* stripFinalizers ends with an error: the wipe goes on to delete a cluster, and
\* fails for a pod.
LEMMA StripErrorInv ==
    ASSUME UnitInv, pc \in Wiping \ {"has"}, NEW o \in todo, StripError(o),
           Faulty \/ Answered, UNCHANGED apiVars
    PROVE  UnitInv'
<1>1. /\ ApiTypeOK' /\ ContentsHaveNs' /\ NoNewNs /\ ControlInv /\ Cur # NoName
  BY Quiet, CurNamed DEF UnitInv, ControlInv
<1>2. CASE KindOf[o] # "ic"
  BY <1>1, <1>2, FailInv DEF StripError
<1>3. CASE KindOf[o] = "ic"
  <2>1. /\ pc' = "delete" /\ item' = {o} /\ GoesOn
        /\ UNCHANGED <<stage, todo, pending, polls>>
    BY <1>3 DEF StripError, Goto
  <2>2. ControlInv'
    BY <1>1, <2>1, GoesOnInv DEF Wiping, UnitInv, TypeOK, ListedHere
  <2> QED
    BY <1>1, <2>1, <2>2, Assemble DEF Wiping
<1> QED
  BY <1>2, <1>3

\* The first call of stripFinalizers changes nothing of the cluster.
LEMMA ReadFinalizersInv ==
    ASSUME UnitInv, NEW o \in Obj, ReadFinalizers(o)
    PROVE  UnitInv'
<1>1. /\ ApiTypeOK' /\ ContentsHaveNs' /\ NoNewNs /\ ControlInv /\ Cur # NoName
      /\ pc \in Wiping \ {"has"} /\ o \in todo /\ UNCHANGED apiVars
  BY Quiet, CurNamed DEF UnitInv, ControlInv, ReadFinalizers, Wiping
<1>2. CASE StripError(o) /\ (Faulty \/ Answered)
  BY <1>1, <1>2, StripErrorInv
<1>3. CASE /\ Goto(IF o \in fin THEN "patch" ELSE "delete")
           /\ item' = {o} /\ GoesOn /\ UNCHANGED <<stage, todo, pending, polls>>
           /\ Answered
  <2>1. ControlInv'
    BY <1>1, <1>3, GoesOnInv DEF Goto, Wiping, UnitInv, TypeOK, ListedHere
  <2> QED
    BY <1>1, <1>3, <2>1, Assemble DEF Goto, Wiping
<1> QED
  BY <1>2, <1>3 DEF ReadFinalizers

\* The patch of stripFinalizers may let an object go, and no namespace.
LEMMA PatchFinalizersInv ==
    ASSUME UnitInv, NEW o \in Obj, PatchFinalizers(o)
    PROVE  UnitInv'
<1>1. ControlInv /\ Cur # NoName /\ pc = "patch" /\ o \in todo /\ o \in item
  BY CurNamed DEF UnitInv, ControlInv, PatchFinalizers, Wiping, ListedHere
<1>2. CASE StripError(o) /\ (Faulty \/ Answered) /\ UNCHANGED apiVars
  BY <1>1, <1>2, StripErrorInv DEF Wiping
<1>3. CASE /\ DropFinalizer(o) /\ Goto("delete") /\ GoesOn /\ Answered
           /\ UNCHANGED <<stage, todo, item, pending, polls>>
  <2>1. ApiTypeOK' /\ ContentsHaveNs' /\ NoNewNs
    BY <1>3, ApiTypes, ApiShrinks, UnitAssumption DEF UnitInv, TypeOK
  <2>2. ControlInv'
    BY <1>1, <1>3, <2>1, GoesOnInv DEF Goto, Wiping, UnitInv, TypeOK, ListedHere
  <2> QED
    BY <1>3, <2>1, <2>2, Assemble DEF Goto, Wiping
<1> QED
  BY <1>2, <1>3 DEF PatchFinalizers

\* The loop over the listed items goes on, or the stage is done.
LEMMA ItemDoneInv ==
    ASSUME UnitInv, pc = "delete", NEW o \in todo, ItemDone(o), Answered,
           ApiTypeOK', ContentsHaveNs', NoNewNs
    PROVE  UnitInv'
<1>1. ControlInv /\ Cur # NoName
  BY CurNamed DEF UnitInv, ControlInv, Wiping
<1>2. /\ todo' = todo \ {o} /\ item' = {}
      /\ GoesOn /\ UNCHANGED <<pending, polls>>
      /\ IF todo' = {} THEN StageDone(stage) ELSE Goto(ItemLabel(stage)) /\ UNCHANGED stage
  BY DEF ItemDone
<1>3. stage' \in 1..13 /\ pc' \in Wiping
  BY <1>2, StageTypes DEF Goto, ItemLabel, Wiping, UnitInv, TypeOK
<1>4. ControlInv'
  BY <1>1, <1>2, <1>3, GoesOnInv DEF Wiping, UnitInv, TypeOK, ListedHere
<1> QED
  BY <1>2, <1>3, <1>4, Assemble

\* A Delete call of the wipe lets an object go, and no namespace.
LEMMA DeleteListedInv ==
    ASSUME UnitInv, NEW o \in Obj, DeleteListed(o)
    PROVE  UnitInv'
<1>1. ApiTypeOK' /\ ContentsHaveNs' /\ NoNewNs
  <2>1. CASE DeleteObject(o)
    BY <2>1, ApiTypes, ApiShrinks, UnitAssumption DEF UnitInv, TypeOK
  <2>2. CASE UNCHANGED apiVars
    BY <2>2, Quiet
  <2> QED
    BY <2>1, <2>2 DEF DeleteListed
<1>2. CASE Fail /\ (Faulty \/ Answered)
  BY <1>1, <1>2, FailInv
<1>3. CASE ItemDone(o) /\ Answered
  BY <1>1, <1>3, ItemDoneInv DEF DeleteListed
<1> QED
  BY <1>2, <1>3 DEF DeleteListed, CallFails

\* Deleting the namespace only marks it.
LEMMA DeleteNamespaceInv ==
    ASSUME UnitInv, DeleteNamespaceCall
    PROVE  UnitInv'
<1>1. ControlInv /\ Cur # NoName /\ Cur \in Namespace /\ pc \in Wiping
  BY CurNamed DEF UnitInv, ControlInv, DeleteNamespaceCall, Wiping
<1>2. ApiTypeOK' /\ ContentsHaveNs' /\ NoNewNs
  <2>1. CASE DeleteNs(Cur)
    <3>1. ApiTypeOK'
      BY <1>1, <2>1 DEF DeleteNs, UnitInv, TypeOK, ApiTypeOK
    <3>2. ContentsHaveNs' /\ NoNewNs
      BY <1>1, <2>1, KubeApiAssumption
         DEF DeleteNs, UnitInv, TypeOK, ApiTypeOK, ContentsHaveNs, NoNewNs, Present, ClusterScoped
    <3> QED
      BY <3>1, <3>2
  <2>2. CASE UNCHANGED apiVars
    BY <2>2, Quiet
  <2> QED
    BY <2>1, <2>2 DEF DeleteNamespaceCall
<1>3. CASE Fail /\ (Faulty \/ Answered)
  BY <1>2, <1>3, FailInv
<1>4. CASE /\ Goto("collect") /\ GoesOn /\ Answered
           /\ UNCHANGED <<stage, todo, item, pending, polls>>
  <2>1. item = {}
    BY DEF UnitInv, ListedHere, DeleteNamespaceCall
  <2>2. ControlInv'
    BY <1>1, <1>2, <1>4, <2>1, GoesOnInv DEF Goto, Wiping, UnitInv, TypeOK, ListedHere
  <2> QED
    BY <1>2, <1>4, <2>2, Assemble DEF Goto, Wiping
<1> QED
  BY <1>3, <1>4 DEF DeleteNamespaceCall, CallFails

\* A List call of collectPendingItems changes nothing of the cluster.
LEMMA CollectStageInv ==
    ASSUME UnitInv, CollectStage
    PROVE  UnitInv'
<1>1. /\ ControlInv /\ Cur # NoName /\ pc \in Wiping /\ item = {}
      /\ ApiTypeOK' /\ ContentsHaveNs' /\ NoNewNs
  BY CurNamed, Quiet DEF UnitInv, ControlInv, CollectStage, Wiping, ListedHere
<1>2. CASE CallFails
  BY <1>1, <1>2, FailInv DEF CallFails
<1>3. CASE ~CallFails
  <2>1. /\ pending' \in BOOLEAN /\ GoesOn /\ Answered /\ UNCHANGED <<todo, item, polls>>
    BY <1>3 DEF CollectStage, UnitInv, TypeOK
  <2>2. stage' \in 1..13 /\ pc' \in Wiping
    BY <1>3, OrderLengths DEF CollectStage, Goto, Wiping, UnitInv, TypeOK
  <2>3. ControlInv'
    BY <1>1, <2>1, <2>2, GoesOnInv DEF UnitInv, TypeOK, ListedHere
  <2> QED
    BY <1>1, <2>1, <2>2, <2>3, Assemble
<1> QED
  BY <1>2, <1>3

\* Unit.Wait goes on to the next namespace only when this one is gone.
LEMMA CheckPendingInv ==
    ASSUME UnitInv, CheckPending
    PROVE  UnitInv'
<1>1. /\ ControlInv /\ Cur # NoName /\ pc \in Wiping /\ item = {}
      /\ ApiTypeOK' /\ ContentsHaveNs' /\ NoNewNs
  BY CurNamed, Quiet DEF UnitInv, ControlInv, CheckPending, Wiping, ListedHere
<1>2. CASE Fail /\ (Faulty \/ Answered)
  BY <1>1, <1>2, FailInv
<1>3. CASE ~HasNamespace(Cur) /\ Wiped /\ Answered
  <2>1. ControlInv' /\ WipedStayGone'
    BY <1>1, <1>3, WipedInv, WipedIsGone DEF UnitInv
  <2> QED
    BY <1>1, <2>1 DEF UnitInv, ControlInv
<1>4. CASE /\ polls + 1 < MaxPolls /\ polls' = polls + 1
           /\ Goto("collect") /\ pending' = FALSE
           /\ GoesOn /\ UNCHANGED <<stage, todo, item>> /\ Answered
  <2>1. polls' \in 0..MaxPolls
    BY <1>4, UnitAssumption DEF UnitInv, TypeOK
  <2>2. ControlInv'
    BY <1>1, <1>4, <2>1, GoesOnInv DEF Goto, Wiping, UnitInv, TypeOK, ListedHere
  <2> QED
    BY <1>1, <1>4, <2>2, Assemble DEF Goto, Wiping
<1> QED
  BY <1>2, <1>3, <1>4 DEF CheckPending, CallFails

\* The new namespace is the unit's own, and the operation is over.
LEMMA CreateNamespaceInv ==
    ASSUME UnitInv, CreateNamespace
    PROVE  UnitInv'
<1>1. CASE UNCHANGED apiVars
  <2>1. ~CreateNs(Ns)
    BY <1>1, UnitAssumption DEF CreateNs, apiVars, UnitInv, TypeOK, ApiTypeOK
  <2>2. Fail /\ (Faulty \/ Answered)
    BY <2>1 DEF CreateNamespace, CallFails
  <2> QED
    BY <1>1, <2>2, FailInv, Quiet
<1>2. CASE CreateNs(Ns)
  <2>1. ApiTypeOK' /\ ContentsHaveNs'
    BY <1>2, ApiTypes, CreateNsAppears, UnitAssumption DEF UnitInv, TypeOK, CreateNs, ApiTypeOK
  <2>2. \/ Return("body", "ok") /\ Answered
        \/ Return("idle", "error") /\ (Faulty \/ Answered)
    BY DEF CreateNamespace, CallFails, Fail
  <2>3. ControlInv'
    BY <2>1, <2>2, ReturnInv DEF UnitInv
  <2>4. queue' = <<>> /\ pc' # "create" /\ ~(pc' = "idle" /\ outcome' = "ok")
    BY <2>2 DEF Return, Goto
  <2>5. WipedStayGone'
    BY <2>4, QueueFacts DEF WipedStayGone
  <2> QED
    BY <2>1, <2>3, <2>5 DEF UnitInv, ControlInv
<1> QED
  BY <1>1, <1>2 DEF CreateNamespace

\* The body changes the cluster only.
LEMMA BodyInv ==
    ASSUME UnitInv, CreateAux \/ \E o \in Obj : Apply(o)
    PROVE  UnitInv'
<1>1. pc = "body" /\ UNCHANGED unitVars
  BY DEF CreateAux, Apply
<1>2. ApiTypeOK' /\ ContentsHaveNs'
  <2>1. CASE CreateAux
    <3>1. Aux \in Namespace /\ CreateNs(Aux)
      BY <2>1, UnitAssumption DEF CreateAux
    <3> QED
      BY <3>1, CreateNsAppears DEF UnitInv, TypeOK, CreateNs, ApiTypeOK
  <2>2. CASE \E o \in Obj : Apply(o)
    BY <2>2, ApiTypes, ApiShrinks, UnitAssumption DEF Apply, UnitInv, TypeOK
  <2> QED
    BY <2>1, <2>2
<1>3. queue = <<>>
  BY <1>1 DEF UnitInv, QueueShape, Wiping
<1>4. WipedStayGone'
  BY <1>1, <1>3, QueueFacts DEF WipedStayGone, unitVars
<1> QED
  BY <1>1, <1>2, <1>4
     DEF UnitInv, TypeOK, QueueShape, NamedWipe, ListedHere, unitVars, Cur, ClusterScoped

\* A new operation starts with both namespaces to wipe.
LEMMA BeginInv ==
    ASSUME UnitInv, BeginSetup \/ BeginTeardown
    PROVE  UnitInv'
<1>1. ApiTypeOK' /\ ContentsHaveNs' /\ NoNewNs
  BY Quiet DEF BeginSetup, BeginTeardown
<1>2. /\ pc' = "has" /\ ResetLocals /\ outcome' = "none"
      /\ \/ op' = "setup" /\ queue' = <<Ns, Aux>>
         \/ op' = "teardown" /\ queue' = <<Aux, Ns>>
      /\ faults' = faults /\ runs' \in 0..MaxRuns
  BY UnitAssumption DEF BeginSetup, BeginTeardown, BeginOp, Goto, Answered, UnitInv, TypeOK
<1>3. queue' \in Seq(Names)
  BY <1>2, QueueTypes, UnitAssumption DEF Names
<1>4. TypeOK'
  <2>1. stage' \in 1..13 /\ todo' = {} /\ item' = {} /\ pending' = FALSE /\ polls' \in 0..MaxPolls
    BY <1>2, UnitAssumption DEF ResetLocals
  <2>2. pc' \in Control /\ op' \in {"none", "setup", "teardown"}
    BY <1>2 DEF Control
  <2> QED
    BY <1>1, <1>2, <1>3, <2>1, <2>2 DEF UnitInv, TypeOK, Names
<1>5. QueueShape' /\ NamedWipe' /\ ListedHere'
  BY <1>2 DEF QueueShape, NamedWipe, ListedHere, ResetLocals, Wiping
<1>6. WipedStayGone'
  BY <1>2, QueueFacts DEF WipedStayGone
<1> QED
  BY <1>1, <1>4, <1>5, <1>6 DEF UnitInv

\* The controllers change the cluster only, and bring no namespace back.
LEMMA ControllerInv ==
    ASSUME UnitInv, ControllerStep
    PROVE  UnitInv'
<1>1. ApiTypeOK' /\ ContentsHaveNs' /\ NoNewNs /\ UNCHANGED unitVars
  BY ControllerTypes, ControllersShrink DEF ControllerStep, UnitInv, TypeOK
<1>2. WipedStayGone'
  BY <1>1, UnitAssumption DEF UnitInv, WipedStayGone, NoNewNs, UnitNamespaces, unitVars
<1> QED
  BY <1>1, <1>2
     DEF UnitInv, TypeOK, QueueShape, NamedWipe, ListedHere, unitVars, Cur, ClusterScoped

-----------------------------------------------------------------------------
(* The theorems. *)

\* A test process that starts, on whatever cluster it finds, has established
\* everything the invariant asks for.
LEMMA InitInv == Init => UnitInv
<1> SUFFICES ASSUME Init PROVE UnitInv
  OBVIOUS
<1>1. ApiTypeOK /\ ContentsHaveNs
  BY KubeApiAssumption DEF Init, ApiInit, ApiTypeOK, ContentsHaveNs
<1>2. TypeOK
  <2>1. queue \in Seq(Names) /\ stage \in 1..13 /\ polls \in 0..MaxPolls
        /\ faults \in 0..MaxFaults /\ runs \in 0..MaxRuns
    BY UnitAssumption DEF Init
  <2> QED
    BY <1>1, <2>1 DEF Init, TypeOK, Control, Names
<1> QED
  BY <1>1, <1>2, QueueFacts
     DEF Init, UnitInv, QueueShape, NamedWipe, ListedHere, WipedStayGone, Wiping

\* Every step of the unit and of the controllers keeps the invariant.
LEMMA NextInv == UnitInv /\ [Next]_vars => UnitInv'
<1> SUFFICES ASSUME UnitInv, [Next]_vars PROVE UnitInv'
  OBVIOUS
<1>1. CASE BeginSetup \/ BeginTeardown
  BY <1>1, BeginInv
<1>2. CASE WipeStep
  BY <1>2, CheckNamespaceInv, ListStageInv, ReadFinalizersInv, PatchFinalizersInv,
     DeleteListedInv, DeleteNamespaceInv, CollectStageInv, CheckPendingInv,
     CreateNamespaceInv
     DEF WipeStep
<1>3. CASE CreateAux \/ \E o \in Obj : Apply(o)
  BY <1>3, BodyInv
<1>4. CASE Crash
  BY <1>4, FailInv, Quiet DEF Crash
<1>5. CASE ControllerStep
  BY <1>5, ControllerInv
<1>6. CASE UNCHANGED vars
  BY <1>6
     DEF vars, UnitInv, TypeOK, ApiTypeOK, QueueShape, NamedWipe, ListedHere, ContentsHaveNs,
         WipedStayGone, Cur, ClusterScoped, Present
<1> QED
  BY <1>1, <1>2, <1>3, <1>4, <1>5, <1>6 DEF Next, UnitStep

\* That much of the invariant needs nothing else.
LEMMA UnitInvHolds == Spec => []UnitInv
BY InitInv, NextInv, PTL DEF Spec

\* The loops keep their bounds.
LEMMA NextBounds ==
    ASSUME UnitInv, LoopBounds, [Next]_vars
    PROVE  LoopBounds'
<1> USE UnitAssumption, OrderLengths
<1>1. MaxPolls \in Nat \ {0} /\ polls \in Nat /\ stage \in 1..13
  BY DEF UnitInv, TypeOK
<1>2. CASE ResetLocals /\ pc' \in {"idle", "body", "has", "create"}
  BY <1>1, <1>2 DEF LoopBounds, ResetLocals
<1>3. CASE UNCHANGED unitVars
  BY <1>3 DEF LoopBounds, unitVars
<1>4. ASSUME Fail PROVE LoopBounds'
  BY <1>2, <1>4 DEF Fail, Return, Goto
<1>5. ASSUME Wiped PROVE LoopBounds'
  BY <1>2, <1>5 DEF Wiped, Return, Goto
<1>6. ASSUME NEW o, StripError(o), pc \in {"strip", "patch"} PROVE LoopBounds'
  BY <1>4, <1>6 DEF StripError, Goto, LoopBounds
<1>7. ASSUME StageDone(stage), UNCHANGED polls PROVE LoopBounds'
  BY <1>7 DEF StageDone, Goto, LoopBounds
<1>8. CASE BeginSetup \/ BeginTeardown
  BY <1>2, <1>8 DEF BeginSetup, BeginTeardown, BeginOp, Goto
<1>9. CASE CheckNamespace
  <2>1. CASE Goto("list") /\ UNCHANGED polls
    BY <2>1 DEF Goto, LoopBounds
  <2> QED BY <1>4, <1>5, <1>9, <2>1 DEF CheckNamespace, CallFails
<1>10. CASE ListStage
  <2>1. CASE UNCHANGED polls /\ todo' # {} /\ Goto(ItemLabel(stage))
    BY <2>1 DEF Goto, ItemLabel, LoopBounds
  <2> QED BY <1>4, <1>7, <1>10, <2>1 DEF ListStage, CallFails
<1>11. ASSUME NEW o \in Obj, ReadFinalizers(o) \/ PatchFinalizers(o) PROVE LoopBounds'
  <2>1. CASE UNCHANGED <<todo, polls>> /\ pc' \in {"patch", "delete"}
    BY <1>11, <2>1 DEF ReadFinalizers, PatchFinalizers, LoopBounds
  <2> QED BY <1>6, <1>11, <2>1 DEF ReadFinalizers, PatchFinalizers, Goto
<1>12. ASSUME NEW o \in Obj, DeleteListed(o) PROVE LoopBounds'
  <2>1. CASE ItemDone(o)
    <3>1. CASE todo' # {} /\ Goto(ItemLabel(stage))
      BY <2>1, <3>1 DEF ItemDone, Goto, ItemLabel, LoopBounds
    <3> QED BY <1>7, <2>1, <3>1 DEF ItemDone
  <2> QED BY <1>4, <1>12, <2>1 DEF DeleteListed, CallFails
<1>13. CASE DeleteNamespaceCall
  <2>1. CASE Goto("collect") /\ UNCHANGED <<stage, polls>>
    BY <1>13, <2>1 DEF DeleteNamespaceCall, Goto, LoopBounds
  <2> QED BY <1>4, <1>13, <2>1 DEF DeleteNamespaceCall, CallFails
<1>14. CASE CollectStage
  <2>1. CASE stage < 12 /\ stage' = stage + 1 /\ UNCHANGED <<pc, polls>>
    BY <1>1, <1>14, <2>1 DEF CollectStage, LoopBounds
  <2>2. CASE Goto("nsCheck") /\ stage' = 1 /\ UNCHANGED polls
    BY <2>2 DEF Goto, LoopBounds
  <2>3. CASE CallFails
    BY <1>4, <2>3 DEF CallFails
  <2>4. CASE ~CallFails
    BY <1>1, <1>14, <2>1, <2>2, <2>4 DEF CollectStage
  <2> QED BY <2>3, <2>4
<1>15. CASE CheckPending
  <2>1. CASE polls + 1 < MaxPolls /\ polls' = polls + 1 /\ Goto("collect") /\ UNCHANGED stage
    BY <1>15, <2>1 DEF CheckPending, Goto, LoopBounds
  <2> QED BY <1>4, <1>5, <1>15, <2>1 DEF CheckPending, CallFails
<1>16. CASE CreateNamespace
  BY <1>2, <1>16 DEF CreateNamespace, CallFails, Fail, Return, Goto
<1>17. CASE CreateAux \/ (\E o \in Obj : Apply(o)) \/ ControllerStep \/ UNCHANGED vars
  BY <1>3, <1>17 DEF CreateAux, Apply, ControllerStep, vars, unitVars
<1>18. CASE Crash
  BY <1>4, <1>18 DEF Crash
<1> QED
  BY <1>8, <1>9, <1>10, <1>11, <1>12, <1>13, <1>14, <1>15, <1>16, <1>17, <1>18
     DEF Next, UnitStep, WipeStep

\* The invariant holds of every behaviour of Setup, the test body and Teardown
\* (unit.go:32-50, 342-353; namespace.go:220-401).
THEOREM InvariantHolds == Spec => []IInv
<1>1. Init => UnitInv /\ LoopBounds
  BY InitInv, UnitAssumption DEF Init, LoopBounds
<1>2. UnitInv /\ LoopBounds /\ [Next]_vars => UnitInv' /\ LoopBounds'
  BY NextInv, NextBounds
<1>3. UnitInv /\ LoopBounds => IInv
  BY DEF IInv
<1> QED
  BY <1>1, <1>2, <1>3, PTL DEF Spec

\* Setup reaches CreateNamespace only when both namespaces of the unit are gone
\* with everything in them (unit.go Setup).
THEOREM SetupIsClean == Spec => []SetupStartsClean
<1>1. UnitInv => SetupStartsClean
  BY UnitAssumption
     DEF UnitInv, SetupStartsClean, WipedStayGone, ContentsHaveNs, Gone, Contents, UnitNamespaces
<1> QED
  BY <1>1, UnitInvHolds, PTL

\* A Teardown that returned nil left nothing of the unit behind (unit.go
\* Teardown).
THEOREM TeardownIsComplete == Spec => []TeardownLeavesNothing
<1>1. UnitInv => TeardownLeavesNothing
  BY UnitAssumption
     DEF UnitInv, TeardownLeavesNothing, WipedStayGone, ContentsHaveNs, Gone, Contents,
         UnitNamespaces
<1> QED
  BY <1>1, UnitInvHolds, PTL

\* The namespace being wiped is one of the unit's two.
LEMMA CurIsOwn ==
    ASSUME UnitInv, pc \in Wiping \ {"has"}
    PROVE  Cur \in {Ns, Aux} /\ Cur \in Namespace
<1>1. Cur \in {Ns, Aux}
  BY QueueFacts DEF UnitInv, QueueShape, Cur, Wiping
<1> QED
  BY <1>1, UnitAssumption DEF UnitInv, NamedWipe

\* Setup and Teardown, of whatever units, touch no object and no namespace but
\* their own (namespace.go, every List and Delete takes w.namespace).
THEOREM WipeIsConfined == Spec => WipeConfined
<1> DEFINE Confined ==
      unitVars' # unitVars =>
          /\ \A o \in Obj : NsOf[o] \notin {Ns, Aux} /\ ~ClusterScoped(o)
                               => store'[o] = store[o]
          /\ \A n \in Namespace \ {Ns, Aux} : nsPhase'[n] = nsPhase[n]
<1>1. UnitInv /\ [Next]_vars => [Confined]_vars
  <2> SUFFICES ASSUME UnitInv, Next PROVE Confined
    OBVIOUS
  <2>1. CASE \/ BeginSetup \/ BeginTeardown \/ CheckNamespace \/ ListStage
             \/ CollectStage \/ CheckPending \/ Crash
    BY <2>1 DEF BeginSetup, BeginTeardown, CheckNamespace, ListStage, CollectStage,
                CheckPending, Crash, apiVars
  <2>2. CASE \E o \in Obj : ReadFinalizers(o)
    BY <2>2 DEF ReadFinalizers, apiVars
  <2>3. ASSUME NEW o \in Obj, PatchFinalizers(o) PROVE Confined
    <3>1. (ClusterScoped(o) \/ NsOf[o] \in {Ns, Aux}) /\ ApiTypeOK
      BY <2>3, CurIsOwn DEF PatchFinalizers, UnitInv, TypeOK, ListedHere, Wiping, ClusterScoped
    <3>2. (DropFinalizer(o) \/ UNCHANGED apiVars)
      BY <2>3 DEF PatchFinalizers
    <3> QED BY <3>1, <3>2 DEF DropFinalizer, Vanish, StoreAs, ApiTypeOK, apiVars, ClusterScoped
  <2>4. ASSUME NEW o \in Obj, DeleteListed(o) PROVE Confined
    <3>1. (ClusterScoped(o) \/ NsOf[o] \in {Ns, Aux}) /\ ApiTypeOK
      BY <2>4, CurIsOwn DEF DeleteListed, UnitInv, TypeOK, ListedHere, Wiping, ClusterScoped
    <3>2. DeleteObject(o) \/ UNCHANGED apiVars
      BY <2>4 DEF DeleteListed
    <3> QED BY <3>1, <3>2 DEF DeleteObject, Vanish, StoreAs, ApiTypeOK, apiVars, ClusterScoped
  <2>5. CASE DeleteNamespaceCall
    <3>1. Cur \in {Ns, Aux} /\ ApiTypeOK
      BY <2>5, CurIsOwn DEF DeleteNamespaceCall, UnitInv, TypeOK, Wiping
    <3>2. DeleteNs(Cur) \/ UNCHANGED apiVars
      BY <2>5 DEF DeleteNamespaceCall
    <3> QED BY <3>1, <3>2 DEF DeleteNs, ApiTypeOK, apiVars
  <2>6. CASE CreateNamespace
    <3>1. CreateNs(Ns) \/ UNCHANGED apiVars
      BY <2>6 DEF CreateNamespace
    <3> QED BY <3>1 DEF CreateNs, UnitInv, TypeOK, ApiTypeOK, apiVars
  <2>7. CASE CreateAux \/ (\E o \in Obj : Apply(o)) \/ ControllerStep
    BY <2>7 DEF CreateAux, Apply, ControllerStep
  <2> QED BY <2>1, <2>2, <2>3, <2>4, <2>5, <2>6, <2>7 DEF Next, UnitStep, WipeStep
<1>2. []UnitInv /\ [][Next]_vars => [][Confined]_vars
  BY <1>1, PTL
<1> QED
  BY <1>2, UnitInvHolds, PTL DEF Spec, WipeConfined

-----------------------------------------------------------------------------
(* The clusters go first. *)

IsCluster(o) == KindOf[o] = "ic"

\* The objects of the namespace being wiped hold no cluster any more.
NoCluster == \A o \in Contents(Cur) : ~IsCluster(o)

\* What the first stage of the wipe has established at each of its calls, as long
\* as none has failed.
FirstInv ==
    faults = 0 =>
        /\ pc \in {"strip", "patch", "delete"} /\ stage = 1 =>
              \A o \in Contents(Cur) : IsCluster(o) => o \in todo
        /\ pc = "delete" /\ stage = 1 => item # {}
        /\ pc = "delete" => \A o \in item : IsCluster(o) /\ Present(o) => o \notin fin
        /\ pc \in {"patch", "delete"} => \A p, q \in item : p = q
        /\ ClustersGoFirst

\* A wipe begins with the first stage.
BeginsFirst == pc = "has" => stage = 1

\* Only tests make clusters: otherwise none appears, and none gets a finalizer.
NoNewCluster ==
    \A o \in Obj : IsCluster(o) => /\ Present(o)' => Present(o)
                                   /\ o \in fin' => o \in fin

LEMMA ApiNoCluster ==
    ASSUME ApiTypeOK, NEW o \in Obj, NEW n,
           \/ CreateObject(o) /\ ~IsCluster(o)
           \/ DeleteObject(o) \/ DropFinalizer(o) \/ Terminated(o)
           \/ CreateNs(n) \/ DeleteNs(n) \/ NamespaceGone(n) \/ UNCHANGED apiVars
    PROVE  NoNewCluster
BY DEF NoNewCluster, ApiTypeOK, CreateObject, DeleteObject, DropFinalizer, Terminated, CreateNs,
       DeleteNs, NamespaceGone, Vanish, StoreAs, apiVars, Present

LEMMA ControllersNoCluster ==
    ASSUME ApiTypeOK, Controllers
    PROVE  NoNewCluster
<1>1. ASSUME NEW o \in Obj, ObjectController(o)
      PROVE  NoNewCluster
  <2>1. CASE Reconcile(o)
    <3>1. ~IsCluster(o) /\ CreateObject(o)
      BY <2>1, KubeApiAssumption DEF Reconcile, OwnerLive, IsCluster
    <3> QED BY <3>1, ApiNoCluster
  <2>2. CASE Collect(o) \/ Release(o) \/ Terminated(o) \/ NamespaceEvicts(o)
    BY <2>2, ApiNoCluster DEF Collect, Release, NamespaceEvicts
  <2> QED BY <1>1, <2>1, <2>2 DEF ObjectController
<1>2. ASSUME NEW n \in Namespace, NamespaceGone(n)
      PROVE  NoNewCluster
  BY <1>2 DEF NamespaceGone, NoNewCluster, Present
<1> QED BY <1>1, <1>2 DEF Controllers

\* Where the wipe stays within a namespace, what is gone stays gone.
LEMMA NoClusterStays ==
    ASSUME NoCluster, NoNewCluster, queue' = queue
    PROVE  NoCluster'
BY DEF NoCluster, NoNewCluster, Contents, Cur, Present, ClusterScoped, IsCluster

LEMMA ClustersGone ==
    ASSUME FirstInv, faults = 0,
           \/ pc \in {"list", "strip", "patch", "delete"} /\ stage > 1
           \/ pc \in {"deleteNs", "collect", "nsCheck"}
    PROVE  NoCluster
BY DEF FirstInv, ClustersGoFirst, NoCluster, IsCluster

\* Steps after which the wipe of the namespace is over, or has yet to begin.
LEMMA FirstElsewhere ==
    ASSUME pc' \in {"idle", "body", "has", "create"} \/ (pc' = "list" /\ stage' = 1) \/ faults' # 0
    PROVE  FirstInv'
BY DEF FirstInv, ClustersGoFirst

\* Steps of the later stages.
LEMMA FirstLater ==
    ASSUME NoCluster, NoNewCluster, queue' = queue, item' = {}, stage' # 1 \/ pc' \notin {"strip", "patch", "delete"}
    PROVE  FirstInv'
BY NoClusterStays DEF FirstInv, ClustersGoFirst, NoCluster, IsCluster

\* Any failure counts.
LEMMA FaultCounts ==
    ASSUME UnitInv, Faulty
    PROVE  faults' # 0
BY DEF UnitInv, TypeOK, Faulty

\* A step that touches the finalizers of an item, or leaves it alone.
LEMMA FirstItem ==
    ASSUME UnitInv, FirstInv, NoNewCluster, pc \in {"strip", "patch"}, pc' \in {"patch", "delete"},
           UNCHANGED <<queue, stage, todo, faults>>, item' # {}, faults = 0 => \A p, q \in item' : p = q,
           pc' = "delete" => \A o \in item' : o \in Obj /\ (IsCluster(o) /\ Present(o)' => o \notin fin')
    PROVE  FirstInv'
<1>1. CASE faults # 0
  BY <1>1, FirstElsewhere
<1>2. CASE faults = 0
  <2>1. stage = 1 => \A o \in Contents(Cur)' : IsCluster(o) => o \in todo
    BY <1>2 DEF FirstInv, NoNewCluster, Contents, Cur, Present, ClusterScoped, IsCluster
  <2>2. stage # 1 => NoCluster'
    <3>1. stage # 1 => stage > 1
      BY DEF UnitInv, TypeOK
    <3> QED BY <1>2, <3>1, ClustersGone, NoClusterStays
  <2> QED BY <1>2, <2>1, <2>2 DEF FirstInv, ClustersGoFirst, NoCluster, IsCluster
<1> QED BY <1>1, <1>2

\* The list of a stage: of the first, all clusters there are.
LEMMA FirstList ==
    ASSUME UnitInv, FirstInv, ListStage
    PROVE  FirstInv'
<1>1. CASE CallFails
  BY <1>1, FirstElsewhere DEF CallFails, Fail, Return, Goto
<1>2. CASE ~CallFails
  <2>1. /\ todo' = WipeListed(WipeOrder[stage], Cur) /\ UNCHANGED <<queue, item, faults>> /\ UNCHANGED apiVars
        /\ IF todo' = {} THEN StageDone(stage) ELSE Goto(ItemLabel(stage)) /\ UNCHANGED stage
    BY <1>2 DEF ListStage, GoesOn, Answered
  <2>2. NoNewCluster /\ item' = {} /\ stage \in 1..13
    BY <2>1 DEF NoNewCluster, apiVars, Present, ListStage, UnitInv, ListedHere, TypeOK
  <2>3. WipeOrder[1] = "ic" /\ Len(WipeOrder) = 13
    BY DEF WipeOrder
  <2>4. CASE faults = 0 /\ stage # 1
    <3>1. NoCluster
      BY <2>2, <2>4, ClustersGone DEF ListStage
    <3>2. stage' # 1 \/ pc' = "deleteNs"
      BY <2>1, <2>2, <2>3, <2>4 DEF StageDone, Goto
    <3> QED BY <2>1, <2>2, <3>1, <3>2, FirstLater
  <2>5. CASE faults = 0 /\ stage = 1
    <3>1. \A o \in Contents(Cur) : IsCluster(o) => o \in todo'
      BY <2>1, <2>3, <2>5 DEF Contents, WipeListed, Listed, IsCluster
    <3>2. CASE todo' = {}
      <4>1. NoCluster /\ pc' = "list"
        BY <2>1, <2>3, <2>5, <3>1, <3>2 DEF NoCluster, StageDone, Goto
      <4> QED BY <2>1, <2>2, <4>1, FirstLater
    <3>3. CASE todo' # {}
      <4>1. pc' = "strip" /\ stage' = 1
        BY <2>1, <2>3, <2>5, <3>3 DEF Goto, ItemLabel, Stripped
      <4>2. Contents(Cur)' = Contents(Cur)
        BY <2>1 DEF Contents, Cur, apiVars, Present, ClusterScoped
      <4> QED BY <2>5, <3>1, <4>1, <4>2 DEF FirstInv, ClustersGoFirst
    <3> QED BY <3>2, <3>3
  <2>6. CASE faults # 0
    BY <2>1, <2>6, FirstElsewhere
  <2> QED BY <2>4, <2>5, <2>6
<1> QED BY <1>1, <1>2

\* An error of stripFinalizers without a failed call: the cluster has no finalizer.
LEMMA FirstStripError ==
    ASSUME UnitInv, FirstInv, pc \in {"strip", "patch"}, NEW o \in todo, StripError(o), Faulty \/ Answered,
           UNCHANGED apiVars, ~Present(o) \/ o \notin fin \/ Faulty
    PROVE  FirstInv'
<1>1. CASE Faulty
  BY <1>1, FaultCounts, FirstElsewhere
<1>2. CASE ~Faulty /\ KindOf[o] # "ic"
  BY <1>2, FirstElsewhere DEF StripError, Fail, Return, Goto
<1>3. CASE ~Faulty /\ KindOf[o] = "ic"
  <2>1. pc' = "delete" /\ item' = {o} /\ UNCHANGED <<queue, stage, todo, faults>> /\ o \in Obj
    BY <1>3 DEF StripError, Goto, GoesOn, Answered, UnitInv, TypeOK
  <2>2. NoNewCluster /\ (~Present(o)' \/ o \notin fin')
    BY <1>3 DEF NoNewCluster, apiVars, Present
  <2> QED BY <2>1, <2>2, FirstItem
<1> QED BY <1>1, <1>2, <1>3

LEMMA FirstRead ==
    ASSUME UnitInv, FirstInv, NEW o \in Obj, ReadFinalizers(o)
    PROVE  FirstInv'
<1>1. pc = "strip" /\ o \in todo /\ UNCHANGED apiVars
  BY DEF ReadFinalizers
<1>2. CASE Faulty /\ StripError(o)
  BY <1>1, <1>2, FirstStripError
<1>3. CASE Answered /\ ~Present(o) /\ StripError(o)
  BY <1>1, <1>3, FirstStripError
<1>4. CASE /\ Answered /\ Present(o) /\ Goto(IF o \in fin THEN "patch" ELSE "delete") /\ item' = {o}
           /\ GoesOn /\ UNCHANGED <<stage, todo, pending, polls>>
  <2>1. /\ pc' \in {"patch", "delete"} /\ (pc' = "delete" => o \notin fin') /\ item' = {o}
        /\ UNCHANGED <<queue, stage, todo, faults>>
    BY <1>1, <1>4 DEF Goto, GoesOn, Answered, apiVars
  <2>2. NoNewCluster
    BY <1>1 DEF NoNewCluster, apiVars, Present
  <2> QED BY <1>1, <2>1, <2>2, FirstItem
<1> QED BY <1>2, <1>3, <1>4 DEF ReadFinalizers

LEMMA FirstPatch ==
    ASSUME UnitInv, FirstInv, NEW o \in Obj, PatchFinalizers(o)
    PROVE  FirstInv'
<1>1. pc = "patch" /\ o \in item /\ o \in todo
  BY DEF PatchFinalizers, UnitInv, ListedHere
<1>2. CASE StripError(o) /\ UNCHANGED apiVars /\ (Faulty \/ (Answered /\ o \notin fin))
  BY <1>1, <1>2, FirstStripError
<1>3. CASE DropFinalizer(o) /\ Goto("delete") /\ GoesOn /\ Answered /\ UNCHANGED <<stage, todo, item, pending, polls>>
  <2>1. CASE faults # 0
    BY <1>3, <2>1, FirstElsewhere DEF Answered
  <2>2. CASE faults = 0
    <3>1. NoNewCluster /\ item \subseteq Obj /\ \A p, q \in item : p = q
      BY <1>1, <1>3, <2>2, ApiNoCluster DEF UnitInv, TypeOK, FirstInv
    <3>2. Present(o)' => o \notin fin'
      BY <1>3 DEF DropFinalizer, Vanish, StoreAs, Present, UnitInv, TypeOK, ApiTypeOK
    <3> QED BY <1>1, <1>3, <3>1, <3>2, FirstItem DEF Goto, GoesOn, Answered
  <2> QED BY <2>1, <2>2
<1> QED BY <1>2, <1>3 DEF PatchFinalizers

\* The deletes: of a cluster without a finalizer nothing remains.
LEMMA FirstDelete ==
    ASSUME UnitInv, FirstInv, NEW o \in Obj, DeleteListed(o)
    PROVE  FirstInv'
<1>1. pc = "delete" /\ o \in todo /\ (item # {} => o \in item) /\ stage \in 1..13
  BY DEF DeleteListed, UnitInv, TypeOK
<1>2. CASE Fail
  BY <1>2, FirstElsewhere DEF Fail, Return, Goto
<1>3. CASE ItemDone(o) /\ Answered /\ (DeleteObject(o) \/ (~Present(o) /\ UNCHANGED apiVars))
  <2>1. /\ todo' = todo \ {o} /\ item' = {} /\ UNCHANGED <<queue, faults>>
        /\ IF todo' = {} THEN StageDone(stage) ELSE Goto(ItemLabel(stage)) /\ UNCHANGED stage
    BY <1>3 DEF ItemDone, GoesOn, Answered
  <2>2. NoNewCluster
    BY <1>3, ApiNoCluster DEF UnitInv, TypeOK
  <2>3. WipeOrder[1] = "ic" /\ Len(WipeOrder) = 13
    BY DEF WipeOrder
  <2>4. CASE faults # 0
    BY <2>1, <2>4, FirstElsewhere
  <2>5. CASE faults = 0 /\ stage # 1
    <3>1. NoCluster
      BY <1>1, <2>5, ClustersGone
    <3>2. stage' # 1 \/ pc' = "deleteNs"
      BY <1>1, <2>1, <2>3, <2>5 DEF StageDone, Goto
    <3> QED BY <2>1, <2>2, <3>1, <3>2, FirstLater
  <2>6. CASE faults = 0 /\ stage = 1
    <3>1. IsCluster(o) => ~Present(o)'
      <4>1. IsCluster(o) /\ Present(o) => o \notin fin
        BY <1>1, <2>6 DEF FirstInv
      <4>2. IsCluster(o) => ~Graceful(o)
        BY DEF IsCluster, Graceful
      <4> QED BY <1>3, <4>1, <4>2 DEF DeleteObject, Vanish, StoreAs, Present, apiVars, UnitInv, TypeOK, ApiTypeOK
    <3>2. \A q \in Contents(Cur)' : IsCluster(q) => q \in todo'
      BY <1>1, <2>1, <2>2, <2>6, <3>1
         DEF FirstInv, NoNewCluster, Contents, Cur, Present, ClusterScoped, IsCluster
    <3>3. CASE todo' = {}
      <4>1. pc' = "list" /\ stage' = 2
        BY <2>1, <2>3, <2>6, <3>3 DEF StageDone, Goto
      <4> QED BY <3>2, <3>3, <4>1 DEF FirstInv, ClustersGoFirst, IsCluster
    <3>4. CASE todo' # {}
      <4>1. pc' = "strip" /\ stage' = 1
        BY <2>1, <2>3, <2>6, <3>4 DEF Goto, ItemLabel, Stripped
      <4> QED BY <3>2, <4>1 DEF FirstInv, ClustersGoFirst
    <3> QED BY <3>3, <3>4
  <2> QED BY <2>4, <2>5, <2>6
<1> QED BY <1>2, <1>3 DEF DeleteListed, CallFails

\* The rest of the wipe: the namespace is deleted and waited for.
LEMMA FirstRest ==
    ASSUME UnitInv, FirstInv, DeleteNamespaceCall \/ CollectStage \/ CheckPending
    PROVE  FirstInv'
<1>1. CASE Fail
  BY <1>1, FirstElsewhere DEF Fail, Return, Goto
<1>2. CASE pc = "nsCheck" /\ Wiped
  BY <1>2, FirstElsewhere DEF Wiped, Return, Goto
<1>3. CASE ~Fail /\ ~(pc = "nsCheck" /\ Wiped)
  <2>1. /\ pc \in {"deleteNs", "collect", "nsCheck"} /\ pc' \in {"collect", "nsCheck"}
        /\ UNCHANGED <<queue, item, faults>>
    BY <1>3 DEF DeleteNamespaceCall, CollectStage, CheckPending, CallFails, Goto, GoesOn, Answered
  <2>2. NoNewCluster
    BY <1>3 DEF DeleteNamespaceCall, CollectStage, CheckPending, CallFails, DeleteNs, NoNewCluster, apiVars, Present
  <2>3. item' = {}
    BY <2>1 DEF UnitInv, ListedHere
  <2>4. CASE faults = 0
    BY <2>1, <2>2, <2>3, <2>4, ClustersGone, FirstLater
  <2>5. CASE faults # 0
    BY <2>1, <2>5, FirstElsewhere
  <2> QED BY <2>4, <2>5
<1> QED BY <1>1, <1>2, <1>3

\* What the cluster does to the wipe.
LEMMA FirstController ==
    ASSUME UnitInv, FirstInv, UNCHANGED unitVars, NoNewCluster \/ pc = "body"
    PROVE  FirstInv'
<1>1. CASE pc = "body"
  BY <1>1, FirstElsewhere DEF unitVars
<1>2. CASE NoNewCluster
  <2>1. /\ \A o \in Contents(Cur)' : IsCluster(o) => o \in Contents(Cur)
        /\ item \subseteq Obj
        /\ \A o \in item : IsCluster(o) /\ Present(o)' => Present(o)
        /\ \A o \in item : IsCluster(o) /\ o \in fin' => o \in fin
    BY <1>2 DEF NoNewCluster, unitVars, Contents, Cur, Present, ClusterScoped, IsCluster, UnitInv, TypeOK
  <2>2. UNCHANGED <<pc, stage, todo, item, faults, queue>>
    BY DEF unitVars
  <2> QED BY <2>1, <2>2 DEF FirstInv, ClustersGoFirst, IsCluster
<1> QED BY <1>1, <1>2

LEMMA BeginsNext ==
    ASSUME UnitInv, BeginsFirst, [Next]_vars
    PROVE  BeginsFirst'
<1>1. CASE BeginSetup \/ BeginTeardown
  BY <1>1 DEF BeginSetup, BeginTeardown, BeginOp, ResetLocals, BeginsFirst
<1>2. CASE CheckNamespace \/ CheckPending
  BY <1>2 DEF CheckNamespace, CheckPending, Wiped, CallFails, Fail, Return, Goto, ResetLocals, BeginsFirst
<1>3. CASE ListStage
  BY <1>3 DEF ListStage, StageDone, ItemLabel, CallFails, Fail, Return, Goto, BeginsFirst
<1>4. ASSUME NEW o \in Obj, ReadFinalizers(o) \/ PatchFinalizers(o) \/ DeleteListed(o)
      PROVE  BeginsFirst'
  BY <1>4 DEF ReadFinalizers, PatchFinalizers, DeleteListed, StripError, ItemDone, StageDone, ItemLabel,
              CallFails, Fail, Return, Goto, BeginsFirst
<1>5. CASE DeleteNamespaceCall \/ CollectStage \/ CreateNamespace \/ Crash
  BY <1>5 DEF DeleteNamespaceCall, CollectStage, CreateNamespace, Crash, CallFails, Fail, Return, Goto, BeginsFirst
<1>6. CASE UNCHANGED unitVars
  BY <1>6 DEF unitVars, BeginsFirst
<1> QED
  BY <1>1, <1>2, <1>3, <1>4, <1>5, <1>6
  DEF Next, UnitStep, WipeStep, ControllerStep, CreateAux, Apply, vars, unitVars

LEMMA FirstNext ==
    ASSUME UnitInv, FirstInv, BeginsFirst, [Next]_vars
    PROVE  FirstInv'
<1>1. CASE BeginSetup \/ BeginTeardown
  BY <1>1, FirstElsewhere DEF BeginSetup, BeginTeardown, BeginOp, Goto
<1>2. CASE CheckNamespace
  <2>1. pc' \in {"idle", "has", "create"} \/ (pc' = "list" /\ item' = {} /\ stage' = stage /\ UNCHANGED <<queue, faults>>)
    BY <1>2 DEF CheckNamespace, Wiped, CallFails, Fail, Return, Goto, GoesOn, Answered, UnitInv, ListedHere
  <2>2. CASE pc' \in {"idle", "has", "create"}
    BY <2>2, FirstElsewhere
  <2>3. CASE pc' = "list" /\ stage' = stage
    <3>1. stage = 1
      BY <1>2 DEF CheckNamespace, BeginsFirst
    <3> QED BY <2>3, <3>1, FirstElsewhere
  <2> QED BY <2>1, <2>2, <2>3
<1>3. CASE ListStage
  BY <1>3, FirstList
<1>4. CASE \E o \in Obj : ReadFinalizers(o) \/ PatchFinalizers(o) \/ DeleteListed(o)
  BY <1>4, FirstRead, FirstPatch, FirstDelete
<1>5. CASE DeleteNamespaceCall \/ CollectStage \/ CheckPending
  BY <1>5, FirstRest
<1>6. CASE CreateNamespace \/ Crash
  BY <1>6, FirstElsewhere DEF CreateNamespace, Crash, CallFails, Fail, Return, Goto
<1>7. CASE CreateAux \/ \E o \in Obj : Apply(o)
  BY <1>7, FirstController DEF CreateAux, Apply
<1>8. CASE ControllerStep
  BY <1>8, ControllersNoCluster, FirstController DEF ControllerStep, UnitInv, TypeOK
<1>9. CASE UNCHANGED vars
  <2>1. UNCHANGED unitVars /\ NoNewCluster
    BY <1>9 DEF vars, unitVars, NoNewCluster, Present
  <2> QED BY <2>1, FirstController
<1> QED BY <1>1, <1>2, <1>3, <1>4, <1>5, <1>6, <1>7, <1>8, <1>9 DEF Next, UnitStep, WipeStep

\* As long as no call has failed, no cluster is left when the pods go.
THEOREM PodsWaitForClusters == Spec => []ClustersGoFirst
<1>1. Init => FirstInv /\ BeginsFirst
  BY DEF Init, FirstInv, ClustersGoFirst, BeginsFirst
<1>2. UnitInv /\ FirstInv /\ BeginsFirst /\ [Next]_vars => FirstInv' /\ BeginsFirst'
  BY FirstNext, BeginsNext
<1>3. FirstInv => ClustersGoFirst
  BY DEF FirstInv, ClustersGoFirst
<1> QED BY <1>1, <1>2, <1>3, UnitInvHolds, PTL DEF Spec

-----------------------------------------------------------------------------
(* How far Setup and Teardown are from their end. *)

\* A list is never longer than all there is, and an item handled shortens it by one.
LEMMA ItemCounts ==
    ASSUME NEW T \in SUBSET Obj
    PROVE  /\ Cardinality(Obj) \in Nat
           /\ Cardinality(T) \in 0..Cardinality(Obj)
           /\ T # {} => Cardinality(T) >= 1
           /\ \A o \in T : Cardinality(T \ {o}) = Cardinality(T) - 1
<1>1. IsFiniteSet(Obj) /\ IsFiniteSet(T)
  BY UnitAssumption, FS_Subset
<1>2. Cardinality(Obj) \in Nat /\ Cardinality(T) \in Nat /\ Cardinality(T) <= Cardinality(Obj)
  BY <1>1, FS_CardinalityType, FS_Subset
<1>3. T # {} => Cardinality(T) # 0
  BY <1>1, FS_EmptySet
<1>4. \A o \in T : Cardinality(T \ {o}) = Cardinality(T) - 1
  BY <1>1, FS_RemoveElement
<1> QED BY <1>2, <1>3, <1>4

\* The calls of the stages that are left, when one is done.
LEMMA StageProducts ==
    ASSUME NEW s \in 1..13, NEW c \in Nat
    PROVE  /\ (13 - s) * c \in Nat
           /\ (14 - s) * c = (13 - s) * c + c
           /\ (14 - (s + 1)) * c = (13 - s) * c
           /\ (14 - s) * c <= 13 * c
<1>1. \A k \in 0..12 : k * c \in Nat /\ (k + 1) * c = k * c + c /\ (k + 1) * c <= 13 * c
  OBVIOUS
<1>2. 13 - s \in 0..12 /\ 14 - s = (13 - s) + 1 /\ 14 - (s + 1) = 13 - s
  OBVIOUS
<1> QED BY <1>1, <1>2

\* The measure, place by place.
LEMMA CallsPlace ==
    ASSUME NEW s, NEW n, NEW p
    PROVE  /\ CallsFrom("has", s, n, p) = NamespaceCalls
           /\ CallsFrom("list", s, n, p) = (14 - s) * StageCalls + 1 + PollCalls
           /\ CallsFrom("strip", s, n, p) = (13 - s) * StageCalls + 3 * n + 1 + PollCalls
           /\ CallsFrom("patch", s, n, p) = (13 - s) * StageCalls + 3 * n + PollCalls
           /\ CallsFrom("delete", s, n, p) = (13 - s) * StageCalls + 3 * n - 1 + PollCalls
           /\ CallsFrom("deleteNs", s, n, p) = 1 + PollCalls
           /\ CallsFrom("collect", s, n, p) = 13 * (MaxPolls - p) + 1 - s
           /\ CallsFrom("nsCheck", s, n, p) = 13 * (MaxPolls - p) - 12
  BY DEF CallsFrom

\* The calls left in the namespace under way.
Inside == CallsFrom(pc, stage, Cardinality(todo), polls)

\* What the measure counts with.
LEMMA Sizes ==
    ASSUME UnitInv
    PROVE  /\ StageCalls \in Nat \ {0} /\ StageCalls = 1 + 3 * Cardinality(Obj)
           /\ PollCalls \in Nat /\ PollCalls = 13 * MaxPolls
           /\ NamespaceCalls = 2 + 13 * StageCalls + PollCalls
           /\ stage \in 1..13 /\ polls \in Nat /\ MaxPolls \in Nat
           /\ Cardinality(todo) \in 0..Cardinality(Obj)
           /\ Cardinality(Obj) \in Nat
<1>1. /\ Cardinality(Obj) \in Nat /\ Cardinality(todo) \in 0..Cardinality(Obj)
      /\ stage \in 1..13 /\ polls \in Nat /\ MaxPolls \in Nat
  BY ItemCounts, UnitAssumption DEF UnitInv, TypeOK
<1> QED BY <1>1 DEF StageCalls, PollCalls, NamespaceCalls

\* Some call is left at each place of the wipe, and no more than a namespace takes.
LEMMA InsideBounds ==
    ASSUME IInv, pc \in Wiping
    PROVE  Inside \in 1..NamespaceCalls
<1> DEFINE SC == StageCalls
           C == Cardinality(todo)
<1>1. /\ SC \in Nat \ {0} /\ SC = 1 + 3 * Cardinality(Obj)
      /\ PollCalls \in Nat /\ PollCalls = 13 * MaxPolls
      /\ NamespaceCalls = 2 + 13 * SC + PollCalls
      /\ stage \in 1..13 /\ polls \in Nat /\ MaxPolls \in Nat
      /\ C \in 0..Cardinality(Obj) /\ Cardinality(Obj) \in Nat
  BY Sizes DEF IInv
<1>2. /\ (13 - stage) * SC \in Nat /\ (14 - stage) * SC = (13 - stage) * SC + SC
      /\ (14 - stage) * SC <= 13 * SC
  BY <1>1, StageProducts
<1>3. /\ pc \in {"strip", "patch", "delete"} => C >= 1
      /\ pc = "collect" => stage <= 12
      /\ polls < MaxPolls
  BY ItemCounts, OrderLengths DEF IInv, LoopBounds, UnitInv, TypeOK
<1> HIDE DEF SC, C
<1>4. CASE pc = "has"
  <2>1. Inside = NamespaceCalls
    BY CallsPlace, <1>4 DEF Inside
  <2> QED BY <1>1, <2>1
<1>5. CASE pc = "list"
  <2>1. Inside = (14 - stage) * SC + 1 + PollCalls
    BY CallsPlace, <1>5 DEF Inside, SC
  <2> QED BY <1>1, <1>2, <2>1
<1>6. CASE pc \in {"strip", "patch", "delete"}
  <2>1. \/ Inside = (13 - stage) * SC + 3 * C + 1 + PollCalls
        \/ Inside = (13 - stage) * SC + 3 * C + PollCalls
        \/ Inside = (13 - stage) * SC + 3 * C - 1 + PollCalls
    BY CallsPlace, <1>6 DEF Inside, SC, C
  <2> QED BY <1>1, <1>2, <1>3, <1>6, <2>1
<1>7. CASE pc = "deleteNs"
  <2>1. Inside = 1 + PollCalls
    BY CallsPlace, <1>7 DEF Inside
  <2> QED BY <1>1, <2>1
<1>8. CASE pc \in {"collect", "nsCheck"}
  <2>1. \/ Inside = 13 * (MaxPolls - polls) + 1 - stage /\ stage <= 12
        \/ Inside = 13 * (MaxPolls - polls) - 12
    BY CallsPlace, <1>3, <1>8 DEF Inside
  <2> QED BY <1>1, <1>3, <2>1
<1> QED BY <1>4, <1>5, <1>6, <1>7, <1>8 DEF Wiping

\* The end of a stage, whatever is left of its calls.
LEMMA StageShrinks ==
    ASSUME UnitInv, StageDone(stage), NEW n
    PROVE  CallsFrom(pc', stage', n, polls') = (13 - stage) * StageCalls + 1 + PollCalls
<1>1. stage \in 1..13 /\ StageCalls \in Nat /\ PollCalls \in Nat
  BY Sizes
<1>2. CASE stage = 13
  <2>1. pc' = "deleteNs"
    BY <1>2, OrderLengths DEF StageDone, Goto
  <2>2. CallsFrom(pc', stage', n, polls') = 1 + PollCalls
    BY <2>1, CallsPlace
  <2>3. (13 - stage) * StageCalls = 0
    BY <1>1, <1>2
  <2> QED BY <1>1, <2>2, <2>3
<1>3. CASE stage # 13
  <2>1. pc' = "list" /\ stage' = stage + 1
    BY <1>3, OrderLengths DEF StageDone, Goto
  <2>2. CallsFrom(pc', stage', n, polls') = (14 - (stage + 1)) * StageCalls + 1 + PollCalls
    BY <2>1, CallsPlace
  <2> QED BY <1>1, <2>2, StageProducts
<1> QED BY <1>2, <1>3

\* The calls of the stages.
LEMMA StageCallsCount ==
    ASSUME IInv, IInv', GoesOn, pc' \in Wiping,
           \/ CheckNamespace \/ ListStage
           \/ \E o \in Obj : ReadFinalizers(o) \/ PatchFinalizers(o) \/ DeleteListed(o)
    PROVE  Inside' < Inside
<1> DEFINE SC == StageCalls
           K == (13 - stage) * StageCalls
           C == Cardinality(todo)
           D == Cardinality(todo')
<1>1. /\ SC \in Nat \ {0} /\ SC = 1 + 3 * Cardinality(Obj)
      /\ PollCalls \in Nat /\ NamespaceCalls = 2 + 13 * SC + PollCalls
      /\ Cardinality(Obj) \in Nat /\ stage \in 1..13
  BY Sizes DEF IInv
<1>2. K \in Nat /\ (14 - stage) * SC = K + SC /\ (14 - stage) * SC <= 13 * SC
  BY <1>1, StageProducts
<1>3. C \in 0..Cardinality(Obj) /\ D \in 0..Cardinality(Obj)
  BY ItemCounts DEF IInv, UnitInv, TypeOK
<1>4. /\ Inside = CallsFrom(pc, stage, C, polls)
      /\ Inside' = CallsFrom(pc', stage', D, polls')
  BY DEF Inside
<1>5. ~Fail
  BY DEF Fail, Return, Goto, Wiping
<1> HIDE DEF SC, K, C, D
<1>6. CASE CheckNamespace
  <2>1. pc = "has" /\ pc' = "list" /\ stage' = stage
    <3>1. pc = "has" /\ ((pc' = "list" /\ stage' = stage) \/ Wiped)
      BY <1>5, <1>6 DEF CheckNamespace, CallFails, Goto
    <3>2. ~Wiped
      <4>1. queue \in {<<Ns, Aux>>, <<Aux>>, <<Aux, Ns>>, <<Ns>>} /\ queue' = queue
        BY <3>1 DEF GoesOn, IInv, UnitInv, QueueShape, Wiping
      <4>2. Tail(queue) # queue /\ <<>> # queue
        BY <4>1, QueueFacts, UnitAssumption
      <4> QED BY <4>1, <4>2 DEF Wiped, Return
    <3> QED BY <3>1, <3>2
  <2>2. Inside = NamespaceCalls /\ Inside' = (14 - stage) * SC + 1 + PollCalls
    BY <1>4, <2>1, CallsPlace DEF SC
  <2> QED BY <1>1, <1>2, <2>2
<1>7. CASE ListStage
  <2>1. /\ pc = "list"
        /\ IF todo' = {} THEN StageDone(stage) ELSE Goto(ItemLabel(stage)) /\ UNCHANGED stage
    BY <1>5, <1>7 DEF ListStage, CallFails
  <2>2. Inside = K + SC + 1 + PollCalls
    BY <1>2, <1>4, <2>1, CallsPlace DEF SC
  <2>3. CASE todo' = {}
    <3>1. Inside' = K + 1 + PollCalls
      BY <1>4, <2>1, <2>3, StageShrinks DEF K, IInv
    <3> QED BY <1>1, <1>2, <2>2, <3>1
  <2>4. CASE todo' # {}
    <3>1. pc' \in {"strip", "delete"} /\ stage' = stage
      BY <2>1, <2>4 DEF Goto, ItemLabel
    <3>2. Inside' = K + 3 * D + 1 + PollCalls \/ Inside' = K + 3 * D - 1 + PollCalls
      BY <1>4, <3>1, CallsPlace DEF K
    <3> QED BY <1>1, <1>2, <1>3, <2>2, <3>2
  <2> QED BY <2>3, <2>4
<1>8. ASSUME NEW o \in Obj, ReadFinalizers(o) \/ PatchFinalizers(o) PROVE Inside' < Inside
  <2>1. /\ stage' = stage /\ todo' = todo
        /\ \/ pc = "strip" /\ pc' \in {"patch", "delete"}
           \/ pc = "patch" /\ pc' = "delete"
    BY <1>5, <1>8 DEF ReadFinalizers, PatchFinalizers, StripError, Goto
  <2>2. CASE pc = "strip"
    <3>1. Inside = K + 3 * C + 1 + PollCalls
      BY <1>4, <2>2, CallsPlace DEF K
    <3>2. Inside' = K + 3 * C + PollCalls \/ Inside' = K + 3 * C - 1 + PollCalls
      BY <1>4, <2>1, <2>2, CallsPlace DEF K, C, D
    <3> QED BY <1>1, <1>2, <1>3, <3>1, <3>2
  <2>3. CASE pc = "patch"
    <3>1. Inside = K + 3 * C + PollCalls
      BY <1>4, <2>3, CallsPlace DEF K
    <3>2. Inside' = K + 3 * C - 1 + PollCalls
      BY <1>4, <2>1, <2>3, CallsPlace DEF K, C, D
    <3> QED BY <1>1, <1>2, <1>3, <3>1, <3>2
  <2> QED BY <2>1, <2>2, <2>3
<1>9. ASSUME NEW o \in Obj, DeleteListed(o) PROVE Inside' < Inside
  <2>1. pc = "delete" /\ o \in todo /\ ItemDone(o)
    BY <1>5, <1>9 DEF DeleteListed, CallFails
  <2>2. todo' = todo \ {o}
    BY <2>1 DEF ItemDone
  <2>3. D = C - 1
    BY <2>1, <2>2, ItemCounts DEF C, D, IInv, UnitInv, TypeOK
  <2>4. Inside = K + 3 * C - 1 + PollCalls
    BY <1>4, <2>1, CallsPlace DEF K
  <2>5. CASE todo' = {}
    <3>1. Inside' = K + 1 + PollCalls
      BY <1>4, <2>1, <2>5, StageShrinks DEF K, IInv, ItemDone
    <3>2. C >= 1
      BY <1>3, <2>3
    <3> QED BY <1>1, <1>2, <1>3, <2>4, <3>1, <3>2
  <2>6. CASE todo' # {}
    <3>1. pc' \in {"strip", "delete"} /\ stage' = stage
      BY <2>1, <2>6 DEF ItemDone, Goto, ItemLabel
    <3>2. Inside' = K + 3 * D + 1 + PollCalls \/ Inside' = K + 3 * D - 1 + PollCalls
      BY <1>4, <3>1, CallsPlace DEF K
    <3> QED BY <1>1, <1>2, <1>3, <2>3, <2>4, <3>2
  <2> QED BY <2>5, <2>6
<1> QED BY <1>6, <1>7, <1>8, <1>9

\* The calls of the wait.
LEMMA WaitCallsCount ==
    ASSUME IInv, IInv', GoesOn, pc' \in Wiping,
           DeleteNamespaceCall \/ CollectStage \/ CheckPending
    PROVE  Inside' < Inside
<1>1. /\ PollCalls = 13 * MaxPolls /\ stage \in 1..13 /\ polls \in Nat /\ MaxPolls \in Nat
  BY Sizes DEF IInv
<1>2. pc \in {"deleteNs", "nsCheck"} => stage = 1
  BY DEF IInv, LoopBounds
<1>3. ~Fail
  BY DEF Fail, Return, Goto, Wiping
<1>4. CASE DeleteNamespaceCall
  <2>1. pc = "deleteNs" /\ pc' = "collect" /\ stage' = stage /\ polls' = polls
    BY <1>3, <1>4 DEF DeleteNamespaceCall, CallFails, Goto
  <2>2. Inside = 1 + PollCalls /\ Inside' = 13 * (MaxPolls - polls) + 1 - stage
    BY <2>1, CallsPlace DEF Inside
  <2> QED BY <1>1, <2>2
<1>5. CASE CollectStage
  <2>1. /\ pc = "collect" /\ polls' = polls
        /\ \/ pc' = "collect" /\ stage' = stage + 1
           \/ pc' = "nsCheck" /\ stage >= 12
    BY <1>1, <1>3, <1>5, OrderLengths DEF CollectStage, CallFails, Goto
  <2>2. stage <= 12
    BY <2>1, OrderLengths DEF IInv, LoopBounds
  <2>3. Inside = 13 * (MaxPolls - polls) + 1 - stage
    BY <2>1, CallsPlace DEF Inside
  <2>4. \/ Inside' = 13 * (MaxPolls - polls) + 1 - (stage + 1)
        \/ Inside' = 13 * (MaxPolls - polls) - 12
    BY <2>1, CallsPlace DEF Inside
  <2> QED BY <1>1, <2>2, <2>3, <2>4
<1>6. CASE CheckPending
  <2>1. pc = "nsCheck" /\ pc' = "collect" /\ stage' = stage /\ polls' = polls + 1
    <3>1. pc = "nsCheck" /\ (Wiped \/ (pc' = "collect" /\ stage' = stage /\ polls' = polls + 1))
      BY <1>3, <1>6 DEF CheckPending, CallFails, Goto
    <3>2. ~Wiped
      <4>1. queue \in {<<Ns, Aux>>, <<Aux>>, <<Aux, Ns>>, <<Ns>>} /\ queue' = queue
        BY <3>1 DEF GoesOn, IInv, UnitInv, QueueShape, Wiping
      <4>2. Tail(queue) # queue /\ <<>> # queue
        BY <4>1, QueueFacts, UnitAssumption
      <4> QED BY <4>1, <4>2 DEF Wiped, Return
    <3> QED BY <3>1, <3>2
  <2>2. Inside = 13 * (MaxPolls - polls) - 12
    BY <2>1, CallsPlace DEF Inside
  <2>3. Inside' = 13 * (MaxPolls - (polls + 1)) + 1 - stage
    BY <2>1, CallsPlace DEF Inside
  <2> QED BY <1>1, <1>2, <2>1, <2>2, <2>3
<1> QED BY <1>4, <1>5, <1>6

\* The calls that are left of Setup or Teardown.
LEMMA LeftIs ==
    ASSUME IInv, op # "none"
    PROVE  /\ CallsLeft \in Nat \ {0}
           /\ pc = "create" => CallsLeft = 1
           /\ pc \in Wiping =>
                 \/ queue \in {<<Ns, Aux>>, <<Aux, Ns>>} /\ CallsLeft = 1 + NamespaceCalls + Inside
                 \/ queue \in {<<Aux>>, <<Ns>>} /\ CallsLeft = 1 + Inside
<1>1. pc = "create" \/ pc \in Wiping
  BY DEF IInv, UnitInv, QueueShape
<1>2. NamespaceCalls \in Nat
  BY Sizes DEF IInv
<1>3. CASE pc = "create"
  BY <1>3 DEF CallsLeft, Wiping
<1>4. CASE pc \in Wiping
  <2>1. queue \in {<<Ns, Aux>>, <<Aux>>, <<Aux, Ns>>, <<Ns>>} /\ pc # "create"
    BY <1>4 DEF IInv, UnitInv, QueueShape, Wiping
  <2>2. CallsLeft = 1 + (Len(queue) - 1) * NamespaceCalls + Inside
    BY <2>1 DEF CallsLeft, Inside
  <2>3. Inside \in Nat \ {0}
    BY <1>2, <1>4, InsideBounds
  <2>4. CASE queue \in {<<Ns, Aux>>, <<Aux, Ns>>}
    <3>1. Len(queue) = 2
      BY <2>4
    <3>2. CallsLeft = 1 + NamespaceCalls + Inside
      BY <1>2, <2>2, <2>3, <3>1
    <3> QED BY <1>2, <2>1, <2>3, <2>4, <3>2
  <2>5. CASE queue \in {<<Aux>>, <<Ns>>}
    <3>1. Len(queue) = 1
      BY <2>5
    <3>2. CallsLeft = 1 + Inside
      BY <1>2, <2>2, <2>3, <3>1
    <3> QED BY <1>2, <2>1, <2>3, <2>5, <3>2
  <2> QED BY <2>1, <2>4, <2>5
<1> QED BY <1>1, <1>3, <1>4

\* It is the same after a step.
LEMMA LeftThen ==
    /\ IInv' /\ pc' \in Wiping => Inside' \in 1..NamespaceCalls
    /\ IInv' /\ op' # "none" =>
          /\ CallsLeft' \in Nat \ {0}
          /\ pc' = "create" => CallsLeft' = 1
          /\ pc' \in Wiping =>
                \/ queue' \in {<<Ns, Aux>>, <<Aux, Ns>>} /\ CallsLeft' = 1 + NamespaceCalls + Inside'
                \/ queue' \in {<<Aux>>, <<Ns>>} /\ CallsLeft' = 1 + Inside'
<1> DEFINE InsideIs == IInv /\ pc \in Wiping => Inside \in 1..NamespaceCalls
           CallsLeftIs ==
               IInv /\ op # "none" =>
                   /\ CallsLeft \in Nat \ {0}
                   /\ pc = "create" => CallsLeft = 1
                   /\ pc \in Wiping =>
                         \/ queue \in {<<Ns, Aux>>, <<Aux, Ns>>} /\ CallsLeft = 1 + NamespaceCalls + Inside
                         \/ queue \in {<<Aux>>, <<Ns>>} /\ CallsLeft = 1 + Inside
<1>1. InsideIs /\ CallsLeftIs
  BY InsideBounds, LeftIs
<1> HIDE DEF InsideIs, CallsLeftIs
<1>2. (InsideIs /\ CallsLeftIs)'
  BY <1>1, PTL
<1> QED BY <1>2 DEF InsideIs, CallsLeftIs, NamespaceCalls, StageCalls, PollCalls

\* The operation that ends leaves nothing to do.
LEMMA EndCounts ==
    ASSUME IInv, op # "none", NEW l, NEW r, Return(l, r)
    PROVE  CallsLeft' \in 0..(CallsLeft - 1)
<1>1. CallsLeft' = 0
  BY DEF Return, CallsLeft
<1> QED BY <1>1, LeftIs

\* Neither does a namespace that is wiped leave any of its own calls.
LEMMA WipedCounts ==
    ASSUME IInv, IInv', op # "none", pc \in Wiping, Wiped
    PROVE  CallsLeft' \in 0..(CallsLeft - 1)
<1>1. NamespaceCalls \in Nat /\ Inside \in Nat \ {0}
  BY Sizes, InsideBounds DEF IInv
<1>2. CASE Return("idle", "ok")
  BY <1>2, EndCounts
<1>3. CASE /\ pc' = IF Tail(queue) # <<>> THEN "has" ELSE "create"
           /\ queue' = Tail(queue) /\ op' = op
  <2>1. CASE queue \in {<<Ns, Aux>>, <<Aux, Ns>>}
    <3>1. pc' = "has" /\ queue' \in {<<Aux>>, <<Ns>>} /\ pc' \in Wiping
      <4>1. CASE queue = <<Ns, Aux>>
        BY <1>3, <4>1, QueueFacts DEF Wiping
      <4>2. CASE queue = <<Aux, Ns>>
        BY <1>3, <4>2, QueueFacts DEF Wiping
      <4> QED BY <2>1, <4>1, <4>2
    <3>2. queue' \notin {<<Ns, Aux>>, <<Aux, Ns>>}
      BY <3>1, QueueFacts
    <3>3. CallsLeft' = 1 + Inside'
      BY <1>3, <3>1, <3>2, LeftThen
    <3>4. Inside' = NamespaceCalls
      BY <3>1, CallsPlace DEF Inside
    <3>5. CallsLeft = 1 + NamespaceCalls + Inside
      BY <2>1, LeftIs, QueueFacts
    <3> QED BY <1>1, <3>3, <3>4, <3>5
  <2>2. CASE queue \in {<<Aux>>, <<Ns>>}
    <3>1. pc' = "create"
      BY <1>3, <2>2, QueueFacts
    <3>2. CallsLeft' = 1
      BY <1>3, <3>1, LeftThen
    <3>3. CallsLeft = 1 + Inside
      BY <2>2, LeftIs, QueueFacts
    <3> QED BY <1>1, <3>2, <3>3
  <2> QED BY <2>1, <2>2, LeftIs
<1> QED BY <1>2, <1>3 DEF Wiped, Goto

\* Less of a part leaves less of the whole.
LEMMA NearerIsLess ==
    ASSUME NEW n \in Nat, NEW i \in Nat, NEW j \in Nat, j < i,
           NEW left, left = 1 + n + i, NEW less, less = 1 + n + j
    PROVE  less \in 0..(left - 1)
  OBVIOUS

\* A call that the wipe goes on after leaves one less in its namespace.
LEMMA GoesOnCounts ==
    ASSUME IInv, IInv', op # "none", pc \in Wiping, pc' \in Wiping, GoesOn, Inside' < Inside
    PROVE  CallsLeft' \in 0..(CallsLeft - 1)
<1>1. NamespaceCalls \in Nat /\ Inside \in Nat \ {0} /\ Inside' \in Nat
  BY Sizes, InsideBounds, LeftThen DEF IInv
<1>2. op' = op /\ queue' = queue
  BY DEF GoesOn
<1>3. CASE queue \in {<<Ns, Aux>>, <<Aux, Ns>>}
  <2>1. CallsLeft = 1 + NamespaceCalls + Inside /\ CallsLeft' = 1 + NamespaceCalls + Inside'
    BY <1>2, <1>3, LeftIs, LeftThen, QueueFacts
  <2> QED BY <1>1, <2>1, NearerIsLess
<1>4. CASE queue \in {<<Aux>>, <<Ns>>}
  <2>1. CallsLeft = 1 + Inside /\ CallsLeft' = 1 + Inside'
    BY <1>2, <1>4, LeftIs, LeftThen, QueueFacts
  <2>2. CallsLeft = 1 + 0 + Inside /\ CallsLeft' = 1 + 0 + Inside'
    BY <1>1, <2>1
  <2> QED BY <1>1, <2>2, NearerIsLess
<1> QED BY <1>3, <1>4, LeftIs

\* A call of Setup or Teardown.
LEMMA CallCounts ==
    ASSUME IInv, IInv', WipeStep
    PROVE  op # "none" /\ CallsLeft' \in 0..(CallsLeft - 1)
<1>1. pc \in Wiping \cup {"create"}
  BY DEF WipeStep, CheckNamespace, ListStage, ReadFinalizers, PatchFinalizers, DeleteListed,
         DeleteNamespaceCall, CollectStage, CheckPending, CreateNamespace, Wiping
<1>2. op # "none"
  BY <1>1 DEF IInv, UnitInv, QueueShape, Wiping
<1>3. CASE CreateNamespace
  BY <1>2, <1>3, EndCounts DEF CreateNamespace, CallFails, Fail
<1>4. CASE Fail
  BY <1>2, <1>4, EndCounts DEF Fail
<1>5. CASE Wiped /\ pc \in Wiping
  BY <1>2, <1>5, WipedCounts
<1>6. ASSUME ~CreateNamespace, ~Fail, ~Wiped PROVE CallsLeft' \in 0..(CallsLeft - 1)
  <2>1. GoesOn /\ pc \in Wiping /\ pc' \in Wiping
    <3>1. CASE CheckNamespace \/ ListStage
      BY <1>6, <3>1, OrderLengths DEF CheckNamespace, ListStage, CallFails, StageDone, Goto, ItemLabel, Wiping
    <3>2. ASSUME NEW o \in Obj, ReadFinalizers(o) \/ PatchFinalizers(o)
          PROVE  GoesOn /\ pc \in Wiping /\ pc' \in Wiping
      BY <1>6, <3>2 DEF ReadFinalizers, PatchFinalizers, StripError, Goto, Wiping
    <3>3. ASSUME NEW o \in Obj, DeleteListed(o)
          PROVE  GoesOn /\ pc \in Wiping /\ pc' \in Wiping
      BY <1>6, <3>3 DEF DeleteListed, ItemDone, CallFails, StageDone, Goto, ItemLabel, Wiping
    <3>4. CASE DeleteNamespaceCall \/ CollectStage \/ CheckPending
      BY <1>6, <3>4 DEF DeleteNamespaceCall, CollectStage, CheckPending, CallFails, Goto, Wiping
    <3> QED BY <1>6, <3>1, <3>2, <3>3, <3>4 DEF WipeStep
  <2>2. Inside' < Inside
    BY <1>6, <2>1, StageCallsCount, WaitCallsCount DEF WipeStep
  <2> QED BY <1>2, <2>1, <2>2, GoesOnCounts
<1>7. Wiped => pc \in Wiping \/ CreateNamespace
  BY <1>1 DEF WipeStep, CheckNamespace, ListStage, ReadFinalizers, PatchFinalizers, DeleteListed,
              DeleteNamespaceCall, CollectStage, CheckPending, Wiping
<1> QED BY <1>2, <1>3, <1>4, <1>5, <1>6, <1>7

\* Setup and Teardown make at most MaxCalls calls, for any finite set of objects, any
\* controllers and any number of polls, and each of them brings the end nearer
\* (namespace.go, unit.go Wait).
THEOREM WipeCallsAreBounded == Spec => WipeIsBounded
<1> DEFINE Shrinks == unitVars' # unitVars =>
                          IF op = "none" THEN CallsLeft' \in 0..MaxCalls
                                         ELSE CallsLeft' \in 0..(CallsLeft - 1)
<1>1. IInv /\ IInv' /\ [Next]_vars => [Shrinks]_vars
  <2> SUFFICES ASSUME IInv, IInv', Next, unitVars' # unitVars PROVE Shrinks
    OBVIOUS
  <2>1. NamespaceCalls \in Nat /\ MaxCalls = 1 + 2 * NamespaceCalls
    BY Sizes DEF IInv, MaxCalls
  <2>2. CASE BeginSetup \/ BeginTeardown
    <3>1. op = "none"
      BY <2>2 DEF BeginSetup, BeginTeardown, IInv, UnitInv, QueueShape, Wiping
    <3>2. /\ pc' = "has" /\ op' # "none" /\ queue' \in {<<Ns, Aux>>, <<Aux, Ns>>}
          /\ pc' \in Wiping
      BY <2>2 DEF BeginSetup, BeginTeardown, BeginOp, Goto, Wiping
    <3>3. CallsLeft' = 1 + NamespaceCalls + Inside'
      <4>1. queue' \notin {<<Aux>>, <<Ns>>}
        BY <3>2, QueueFacts
      <4> QED BY <3>2, <4>1, LeftThen
    <3>4. Inside' = NamespaceCalls
      BY <3>2, CallsPlace DEF Inside, NamespaceCalls, StageCalls, PollCalls
    <3> QED BY <2>1, <3>1, <3>3, <3>4
  <2>3. CASE WipeStep
    BY <2>3, CallCounts
  <2>4. CASE Crash
    <3>1. CASE op = "none"
      <4>1. CallsLeft' = 0
        BY <2>4 DEF Crash, Fail, Return, CallsLeft
      <4> QED BY <2>1, <3>1, <4>1
    <3>2. CASE op # "none"
      BY <2>4, <3>2, EndCounts DEF Crash, Fail
    <3> QED BY <3>1, <3>2
  <2>5. CASE CreateAux \/ (\E o \in Obj : Apply(o)) \/ ControllerStep
    BY <2>5 DEF CreateAux, Apply, ControllerStep, unitVars
  <2> QED BY <2>2, <2>3, <2>4, <2>5 DEF Next, UnitStep
<1> QED BY <1>1, InvariantHolds, PTL DEF Spec, WipeIsBounded

=============================================================================
