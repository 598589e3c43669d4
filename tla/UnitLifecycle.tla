---------------------------- MODULE UnitLifecycle ----------------------------
(***************************************************************************)
(* One test unit of util/suite: Setup wipes the unit's two namespaces and  *)
(* creates the main one, the test body runs, Teardown wipes both again     *)
(* (unit.go, namespace.go).  The wipe is a fixed sequence of API calls,    *)
(* one action each, interleaved with the cluster's controllers; any call   *)
(* may fail, and the test process may die between any two of them and be   *)
(* started again.                                                          *)
(***************************************************************************)
EXTENDS KubeApi, Sequences, FiniteSets

CONSTANTS
    Ns, Aux,      \* Unit.Namespace, Unit.AuxNamespace
    NoName,       \* the empty string, the AuxNamespace of most units
    MaxPolls,     \* waitNamespaceIsEmpty: timeout / interval of Unit.Wait
    MaxFaults,    \* bound: API calls that fail or time out
    MaxRuns       \* bound: times the test process is started

ASSUME UnitAssumption ==
    /\ Ns \in Namespace
    /\ Aux \in Namespace \cup {NoName}
    /\ Ns # Aux /\ NoName \notin Namespace
    /\ MaxPolls \in Nat \ {0} /\ MaxFaults \in Nat /\ MaxRuns \in Nat
    /\ IsFiniteSet(Obj)

\* Mutant: the pods go before the clusters.
WipeOrderPodsFirst == <<"pod", "ic", "mbk", "sts", "rs", "svc", "cm", "secret",
                        "job", "deploy", "pvc", "pv", "sa">>

\* The order in which wipeNamespace.run deletes; "token" is a secret named
\* default-token-..., which the wipe deletes as any other secret.
WipeOrder == <<"ic", "pod", "mbk", "sts", "rs", "svc", "cm", "secret",
               "job", "deploy", "pvc", "pv", "sa">>

\* The order in which collectPendingItems lists; the namespace comes last.
CollectOrder == <<"cm", "deploy", "job", "pvc", "pod", "rs", "secret", "svc",
                  "sa", "sts", "ic", "mbk">>

VARIABLES
    pc,       \* control state of the test process
    op,       \* the operation under way: "none", "setup" or "teardown"
    queue,    \* the namespaces still to wipe, the current one first
    stage,    \* position in WipeOrder or CollectOrder
    todo,     \* the listed items of this stage not handled yet
    item,     \* the item whose finalizers are being stripped, a subset of todo
    pending,  \* pendingItems is not empty
    polls,    \* polls of Unit.Wait that found pending items
    outcome,  \* how the last operation ended: "none", "ok" or "error"
    faults,   \* failed calls so far
    runs      \* starts of the test process so far

unitVars == <<pc, op, queue, stage, todo, item, pending, polls, outcome,
              faults, runs>>
vars == <<store, fin, nsPhase,
          pc, op, queue, stage, todo, item, pending, polls, outcome,
          faults, runs>>

Control == {"idle", "has", "list", "strip", "patch", "delete", "deleteNs",
            "collect", "nsCheck", "create", "body"}

TypeOK ==
    /\ ApiTypeOK
    /\ pc \in Control
    /\ op \in {"none", "setup", "teardown"}
    /\ queue \in Seq(Namespace \cup {NoName})
    /\ stage \in 1..13
    /\ todo \in SUBSET Obj
    /\ item \in SUBSET Obj
    /\ pending \in BOOLEAN
    /\ polls \in 0..MaxPolls
    /\ outcome \in {"none", "ok", "error"}
    /\ faults \in 0..MaxFaults
    /\ runs \in 0..MaxRuns

\* The test process starts in whatever state the previous run, which may have
\* been killed anywhere, has left the cluster.
ApiInit ==
    /\ nsPhase \in [Namespace -> {"absent", "active", "terminating"}]
    /\ store \in [Obj -> {"absent", "live"}]
    /\ \A o \in Obj : Present(o) => nsPhase[NsOf[o]] # "absent"
    /\ fin = {o \in Guarded : Present(o)}

Init ==
    /\ ApiInit
    /\ pc = "idle" /\ op = "none" /\ queue = <<>> /\ stage = 1
    /\ todo = {} /\ item = {} /\ pending = FALSE
    /\ polls = 0 /\ outcome = "none" /\ faults = 0 /\ runs = 0

-----------------------------------------------------------------------------
(* Control. *)

Cur == Head(queue)

Goto(label) == pc' = label

\* The operation goes on: op, queue and outcome stay.
GoesOn == UNCHANGED <<op, queue, outcome>>

\* The loops of the wipe keep their locals only while they run.
ResetLocals ==
    /\ stage' = 1 /\ todo' = {} /\ item' = {} /\ pending' = FALSE /\ polls' = 0

\* The operation returns to the test, with an error or without.
Return(label, result) ==
    /\ Goto(label)
    /\ op' = "none" /\ queue' = <<>> /\ outcome' = result
    /\ ResetLocals

\* Any error ends Setup or Teardown at once.
Fail == Return("idle", "error")

Answered == UNCHANGED <<faults, runs>>

\* A call that fails: a connection error, a server error, a timeout.
Faulty == faults < MaxFaults /\ faults' = faults + 1 /\ UNCHANGED runs

CallFails == Faulty /\ Fail

BeginOp(o, q) ==
    /\ op' = o /\ queue' = q /\ outcome' = "none"
    /\ Goto("has")
    /\ ResetLocals

\* One namespace is wiped: go on with the next, or end the operation.
Wiped ==
    IF Tail(queue) # <<>> \/ op = "setup"
    THEN /\ Goto(IF Tail(queue) # <<>> THEN "has" ELSE "create")
         /\ queue' = Tail(queue)
         /\ ResetLocals
         /\ UNCHANGED <<op, outcome>>
    ELSE Return("idle", "ok")

-----------------------------------------------------------------------------
(* WipeNamespace. *)

\* Mutant: Setup forgets the auxiliary namespace.
SetupMainOnly ==
    /\ pc = "idle" /\ runs < MaxRuns
    /\ runs' = runs + 1
    /\ BeginOp("setup", <<Ns>>)
    /\ UNCHANGED faults /\ UNCHANGED apiVars

\* Unit.Setup: wipe the main namespace, then the auxiliary one.
BeginSetup ==
    /\ pc = "idle"
    /\ runs < MaxRuns
    /\ runs' = runs + 1
    /\ BeginOp("setup", <<Ns, Aux>>)
    /\ UNCHANGED faults
    /\ UNCHANGED apiVars

\* Mutant: Teardown forgets the auxiliary namespace.
TeardownMainOnly ==
    /\ pc = "body"
    /\ BeginOp("teardown", <<Ns>>)
    /\ Answered /\ UNCHANGED apiVars

\* Unit.Teardown: the auxiliary namespace goes first.
BeginTeardown ==
    /\ pc = "body"
    /\ BeginOp("teardown", <<Aux, Ns>>)
    /\ Answered
    /\ UNCHANGED apiVars

\* Mutant: a namespace that is being removed counts as gone.
HasActiveNamespace(n) == n # NoName /\ nsPhase[n] = "active"

\* Mutant: the empty name is not turned away.
HasAnyNamespace(n) == n = NoName \/ nsPhase[n] # "absent"

\* HasNamespace answers FALSE to the empty name without asking the server.
HasNamespace(n) == n # NoName /\ nsPhase[n] # "absent"

CheckNamespace ==
    /\ pc = "has"
    /\ \/ /\ IF HasNamespace(Cur)
             THEN Goto("list") /\ GoesOn /\ UNCHANGED <<stage, todo, item, pending, polls>>
             ELSE Wiped
          /\ Answered
       \/ Cur # NoName /\ CallFails
    /\ UNCHANGED apiVars

\* Mutant: a List call over all namespaces.
ListedAnywhere(kind, n) == {o \in Obj : KindOf[o] = kind /\ Present(o)}

\* What a List call of the client returns for namespace n.  The parameter of
\* ListPersistentVolumes is not used.
Listed(kind, n) ==
    {o \in Obj : /\ KindOf[o] = kind
                 /\ Present(o)
                 /\ kind = "pv" \/ NsOf[o] = n}

\* The secrets list holds the service account tokens too.
WipeListed(kind, n) ==
    IF kind = "secret" THEN Listed("secret", n) \cup Listed("token", n)
                       ELSE Listed(kind, n)

Stripped == {"ic", "pod"}

\* The control state that handles an item of the kind at stage s.
ItemLabel(s) == IF WipeOrder[s] \in Stripped THEN "strip" ELSE "delete"

\* The stage is done: list the next kind, or delete the namespace.
StageDone(s) ==
    IF s = Len(WipeOrder) THEN Goto("deleteNs") /\ stage' = 1
                          ELSE Goto("list") /\ stage' = s + 1

ListStage ==
    /\ pc = "list"
    /\ \/ /\ todo' = WipeListed(WipeOrder[stage], Cur)
          /\ IF todo' = {} THEN StageDone(stage)
                           ELSE Goto(ItemLabel(stage)) /\ UNCHANGED stage
          /\ GoesOn /\ Answered /\ UNCHANGED <<item, pending, polls>>
       \/ CallFails
    /\ UNCHANGED apiVars

\* An error of stripFinalizers: ignored for a cluster, fatal for a pod.
StripError(o) ==
    IF KindOf[o] = "ic"
    THEN Goto("delete") /\ item' = {o} /\ GoesOn /\ UNCHANGED <<stage, todo, pending, polls>>
    ELSE Fail

\* stripFinalizers, first call: read the object to see its finalizers.
ReadFinalizers(o) ==
    /\ pc = "strip"
    /\ o \in todo
    /\ \/ /\ IF Present(o)
             THEN /\ Goto(IF o \in fin THEN "patch" ELSE "delete")
                  /\ item' = {o}
                  /\ GoesOn /\ UNCHANGED <<stage, todo, pending, polls>>
             ELSE StripError(o)
          /\ Answered
       \/ Faulty /\ StripError(o)
    /\ UNCHANGED apiVars

\* stripFinalizers, second call: a JSON patch that removes the list.  The
\* server refuses it when the list is gone by now, or the object is.
PatchFinalizers(o) ==
    /\ pc = "patch"
    /\ o \in item
    /\ \/ /\ o \in fin
          /\ DropFinalizer(o)
          /\ Goto("delete")
          /\ GoesOn /\ Answered /\ UNCHANGED <<stage, todo, item, pending, polls>>
       \/ o \notin fin /\ StripError(o) /\ Answered /\ UNCHANGED apiVars
       \/ Faulty /\ StripError(o) /\ UNCHANGED apiVars

\* The item is handled; the loop takes the next one of the list.
ItemDone(o) ==
    /\ todo' = todo \ {o}
    /\ item' = {}
    /\ IF todo' = {} THEN StageDone(stage)
                     ELSE Goto(ItemLabel(stage)) /\ UNCHANGED stage
    /\ GoesOn /\ UNCHANGED <<pending, polls>>

\* deleteCustomResources goes on when the object is already gone; the other
\* loops return the server's NotFound as an error.
ToleratesNotFound(o) == KindOf[o] \in {"ic", "mbk"}

\* One call of deleteItem.  On failure or timeout the server may still have
\* carried out the request.
DeleteListed(o) ==
    /\ pc = "delete"
    /\ o \in todo
    /\ item # {} => o \in item
    /\ \/ Present(o) /\ DeleteObject(o) /\ ItemDone(o) /\ Answered
       \/ /\ ~Present(o)
          /\ IF ToleratesNotFound(o) THEN ItemDone(o) ELSE Fail
          /\ Answered /\ UNCHANGED apiVars
       \/ CallFails /\ (DeleteObject(o) \/ UNCHANGED apiVars)

\* Mutant: the objects are deleted, the namespace is not.
NamespaceForgotten ==
    /\ pc = "deleteNs"
    /\ Goto("collect")
    /\ GoesOn /\ Answered /\ UNCHANGED <<stage, todo, item, pending, polls>>
    /\ UNCHANGED apiVars

DeleteNamespaceCall ==
    /\ pc = "deleteNs"
    /\ \/ /\ DeleteNs(Cur)
          /\ Goto("collect")
          /\ GoesOn /\ Answered /\ UNCHANGED <<stage, todo, item, pending, polls>>
       \/ nsPhase[Cur] = "absent" /\ Fail /\ Answered /\ UNCHANGED apiVars
       \/ CallFails /\ (DeleteNs(Cur) \/ UNCHANGED apiVars)

\* collectPendingItems, one List call: secrets leave the tokens out.
CollectStage ==
    /\ pc = "collect"
    /\ \/ /\ pending' = (pending \/ Listed(CollectOrder[stage], Cur) # {})
          /\ IF stage < Len(CollectOrder)
             THEN stage' = stage + 1 /\ UNCHANGED pc
             ELSE Goto("nsCheck") /\ stage' = 1
          /\ GoesOn /\ Answered /\ UNCHANGED <<todo, item, polls>>
       \/ CallFails
    /\ UNCHANGED apiVars

\* Mutant: the wait has no timeout.
CheckPendingForever ==
    /\ pc = "nsCheck"
    /\ IF ~pending /\ ~HasNamespace(Cur)
       THEN Wiped
       ELSE /\ Goto("collect") /\ pending' = FALSE
            /\ GoesOn /\ UNCHANGED <<stage, todo, item, polls>>
    /\ Answered /\ UNCHANGED apiVars

\* collectPendingItems, last call, and the test of Unit.Wait that follows: the
\* wipe is over when nothing is pending; otherwise the loop sleeps and polls
\* again, until the timeout.
CheckPending ==
    /\ pc = "nsCheck"
    /\ \/ /\ IF ~pending /\ ~HasNamespace(Cur)
             THEN Wiped
             ELSE IF polls + 1 < MaxPolls
             THEN /\ polls' = polls + 1
                  /\ Goto("collect")
                  /\ pending' = FALSE
                  /\ GoesOn /\ UNCHANGED <<stage, todo, item>>
             ELSE Fail
          /\ Answered
       \/ CallFails
    /\ UNCHANGED apiVars

\* Unit.Setup, last call.
CreateNamespace ==
    /\ pc = "create"
    /\ \/ CreateNs(Ns) /\ Return("body", "ok") /\ Answered
       \/ nsPhase[Ns] # "absent" /\ Fail /\ Answered /\ UNCHANGED apiVars
       \/ CallFails /\ (CreateNs(Ns) \/ UNCHANGED apiVars)

-----------------------------------------------------------------------------
(* The test body and the process. *)

\* A test applies a yaml or creates the auxiliary namespace.
Apply(o) ==
    /\ pc = "body"
    /\ OwnerOf[o] = ByUser
    /\ NsOf[o] \in {Ns, Aux} /\ nsPhase[NsOf[o]] = "active"
    /\ CreateObject(o)
    /\ UNCHANGED unitVars

CreateAux ==
    /\ pc = "body"
    /\ Aux # NoName
    /\ CreateNs(Aux)
    /\ UNCHANGED unitVars

\* The process is killed, or go test's own timeout fires: no cleanup runs.
Crash ==
    /\ pc # "idle"
    /\ Fail
    /\ Answered
    /\ UNCHANGED apiVars

WipeStep ==
    \/ CheckNamespace
    \/ ListStage
    \/ \E o \in Obj : ReadFinalizers(o) \/ PatchFinalizers(o) \/ DeleteListed(o)
    \/ DeleteNamespaceCall
    \/ CollectStage
    \/ CheckPending
    \/ CreateNamespace

UnitStep ==
    \/ BeginSetup
    \/ BeginTeardown
    \/ WipeStep
    \/ \E o \in Obj : Apply(o)
    \/ CreateAux
    \/ Crash

ControllerStep == Controllers /\ UNCHANGED unitVars

Next == UnitStep \/ ControllerStep

Spec == Init /\ [][Next]_vars

\* The process runs its next call as long as it is alive.
LiveSpec == Spec /\ WF_vars(WipeStep)

-----------------------------------------------------------------------------
(* Properties. *)

\* Present objects of namespace n that live in the namespace.
Contents(n) == {o \in Obj : NsOf[o] = n /\ ~ClusterScoped(o) /\ Present(o)}

UnitNamespaces == {Ns, Aux} \ {NoName}

Gone(n) == nsPhase[n] = "absent" /\ Contents(n) = {}

-----------------------------------------------------------------------------
(* The inductive invariant behind the safety properties below: its parts say what
   is known at each point of Setup and Teardown.                             *)

Wiping == {"has", "list", "strip", "patch", "delete", "deleteNs", "collect",
           "nsCheck"}

\* The queue is what is left of the operation's two namespaces.
QueueShape ==
    \/ op = "none" /\ pc \in {"idle", "body"} /\ queue = <<>>
    \/ op = "setup" /\ pc = "create" /\ queue = <<>>
    \/ op = "setup" /\ pc \in Wiping /\ queue \in {<<Ns, Aux>>, <<Aux>>}
    \/ op = "teardown" /\ pc \in Wiping /\ queue \in {<<Aux, Ns>>, <<Ns>>}

\* The empty name never gets past HasNamespace.
NamedWipe == pc \in Wiping \ {"has"} => Cur # NoName

\* Everything listed belongs to the namespace being wiped, or to none.
ListedHere ==
    /\ item \subseteq todo
    /\ item # {} => pc \in {"patch", "delete"}
    /\ \A o \in todo : ClusterScoped(o) \/ NsOf[o] = Cur

\* Nothing is in a namespace that does not exist.
ContentsHaveNs ==
    \A o \in Obj : Present(o) /\ ~ClusterScoped(o) => nsPhase[NsOf[o]] # "absent"

\* A namespace that has been wiped is gone and stays gone.
WipedStayGone ==
    /\ queue = <<Aux>> => nsPhase[Ns] = "absent"
    /\ queue = <<Ns>> /\ Aux # NoName => nsPhase[Aux] = "absent"
    /\ pc = "create" \/ (pc = "idle" /\ outcome = "ok")
          => \A n \in UnitNamespaces : nsPhase[n] = "absent"

UnitInv ==
    /\ TypeOK /\ QueueShape /\ NamedWipe /\ ListedHere
    /\ ContentsHaveNs /\ WipedStayGone

\* Where the loops of the wipe are: an item is under way only while there is one,
\* and the wait polls again only while it has time.
LoopBounds ==
    /\ pc \in {"strip", "patch", "delete"} => todo # {}
    /\ pc \in {"deleteNs", "nsCheck"} => stage = 1
    /\ pc = "collect" => stage <= Len(CollectOrder)
    /\ polls < MaxPolls

IInv == UnitInv /\ LoopBounds

-----------------------------------------------------------------------------
\* When Setup gets to CreateNamespace, both namespaces of the unit are gone with
\* everything in them, whatever an earlier run left behind and whatever the
\* controllers re-created meanwhile: the unit starts in a fresh namespace and
\* the create cannot collide (unit.go Setup, WipeNamespace).
SetupStartsClean ==
    pc = "create" => \A n \in UnitNamespaces : Gone(n)

\* A Teardown that returned nil left neither of the namespaces nor anything in
\* them, until the next run (unit.go Teardown).
TeardownLeavesNothing ==
    pc = "idle" /\ outcome = "ok" => \A n \in UnitNamespaces : Gone(n)

\* As long as no call failed, a wipe has no cluster left in its namespace once
\* it goes past the first stage, so that the operator has nothing to repair
\* while the pods go: whatever the operator does to the finalizer between the
\* calls of stripFinalizers (namespace.go deleteCustomResources).
ClustersGoFirst ==
    faults = 0 /\ (\/ pc \in {"list", "strip", "patch", "delete"} /\ stage > 1
                   \/ pc \in {"deleteNs", "collect", "nsCheck"})
        => \A o \in Contents(Cur) : KindOf[o] # "ic"

\* The unit changes no namespaced object and no namespace other than its own
\* two (namespace.go, every List and Delete takes w.namespace).
WipeConfined ==
    [][unitVars' # unitVars =>
          /\ \A o \in Obj : NsOf[o] \notin {Ns, Aux} /\ ~ClusterScoped(o)
                               => store'[o] = store[o]
          /\ \A n \in Namespace \ {Ns, Aux} : nsPhase'[n] = nsPhase[n]]_vars

\* The promise of the unit (UnitPromise): exists and condemned are read off the
\* phases of the namespaces, unit off the operation under way.
Promise == INSTANCE UnitPromise WITH
    Namespaces <- Namespace, Main <- Ns, Auxiliary <- Aux,
    unit <- IF op # "none" THEN op ELSE IF pc = "body" THEN "in" ELSE "out",
    told <- outcome,
    exists <- {n \in Namespace : nsPhase[n] # "absent"},
    condemned <- {n \in Namespace : nsPhase[n] = "terminating"}

\* The calls of WipeNamespace, CreateNamespace and the loops around them do
\* implement it (unit.go:32-50, 342-353).
PromiseKept == Promise!PSpec

\* The most calls that a stage of the wipe, a namespace and an operation make: a
\* list, and for each item the read and the patch of its finalizers and the delete;
\* thirteen calls a poll; and the create of Setup.
StageCalls == 1 + 3 * Cardinality(Obj)
PollCalls == 13 * MaxPolls
NamespaceCalls == 2 + 13 * StageCalls + PollCalls
MaxCalls == 1 + 2 * NamespaceCalls

\* The most calls that are left in a namespace: at a point of the code, a stage, with
\* so many items to go and so many polls made.
CallsFrom(place, s, items, p) ==
    CASE place = "has"      -> NamespaceCalls
      [] place = "list"     -> (14 - s) * StageCalls + 1 + PollCalls
      [] place = "strip"    -> (13 - s) * StageCalls + 3 * items + 1 + PollCalls
      [] place = "patch"    -> (13 - s) * StageCalls + 3 * items + PollCalls
      [] place = "delete"   -> (13 - s) * StageCalls + 3 * items - 1 + PollCalls
      [] place = "deleteNs" -> 1 + PollCalls
      [] place = "collect"  -> 13 * (MaxPolls - p) + 1 - s
      [] place = "nsCheck"  -> 13 * (MaxPolls - p) - 12

CallsLeft ==
    IF op = "none" THEN 0
    ELSE IF pc = "create" THEN 1
    ELSE 1 + (Len(queue) - 1) * NamespaceCalls + CallsFrom(pc, stage, Cardinality(todo), polls)

\* Whatever controllers create, keep or finish meanwhile, each call of Setup or
\* Teardown brings it nearer to its end, at most MaxCalls away: a controller that
\* re-creates what is deleted, or never releases it, cannot keep the wipe going
\* (namespace.go, unit.go Wait).
WipeIsBounded ==
    [][unitVars' # unitVars =>
          IF op = "none" THEN CallsLeft' \in 0..MaxCalls
                         ELSE CallsLeft' \in 0..(CallsLeft - 1)]_vars

\* Setup and Teardown return: every loop is bounded by what a List returned or
\* by the timeout, even when a finalizer is never released (unit.go Wait).
WipeReturns == op # "none" ~> op = "none"

\* What the wipe waits for happens: once it polls, the namespace goes away,
\* provided the controllers do their work, even if the process dies
\* (unit.go waitNamespaceIsEmpty).
PolledNamespaceGoes ==
    ControllerFairness =>
        \A n \in UnitNamespaces : (pc = "collect" /\ Cur = n) ~> nsPhase[n] = "absent"

\* "delete order: ..., deploy, pvc, sa" (namespace.go:221) names no volumes, and
\* the wipe is one of a namespace: the volumes of other namespaces stay.
ForeignVolumesStay ==
    [][unitVars' # unitVars =>
          \A o \in Obj : ClusterScoped(o) /\ NsOf[o] \notin {Ns, Aux}
                            => store'[o] = store[o]]_vars

=============================================================================
