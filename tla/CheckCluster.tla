----------------------------- MODULE CheckCluster ------------------------------
(***************************************************************************)
(* CheckAll: whether a cluster is as a test describes it, found out by a   *)
(* long row of reads of the API server, of the group and of each instance, *)
(* while pods crash, primaries change and the operator catches up.         *)
(***************************************************************************)
EXTENDS Integers, FiniteSets

CONSTANTS
    N,            \* spec.instances
    R,            \* spec.router.instances
    Flaw,         \* what may be wrong besides: pairs of a pod, or NoPod, and a kind
    Params,       \* what tests ask for: primary, routers, restartsExpected
    MaxTrials,    \* NewSession: five
    MaxLooks,     \* checkOnlinePod: five
    MaxPolls,     \* WaitOnRouters: 120 / 3
    MaxChanges    \* bound: changes of the cluster

NoPrimary == -1
NoRouters == -1
NoPod == -1
Pod == 0..(N - 1)

\* What checkOnlinePod finds in a pod object, checkInstance in its mysqld and
\* getClusterObject and its kin in the objects of the cluster.
PodFlaw == {"spec", "finalizer", "conditions", "initContainers"}
InstanceFlaw == {"identity", "variables", "seeds", "tls"}
ClusterFlaw == {"clusterFinalizer", "statefulSet", "replicas", "deployment", "services"}

ASSUME CheckAssumption ==
    /\ N \in Nat \ {0} /\ R \in Nat
    /\ MaxTrials \in Nat \ {0} /\ MaxLooks \in Nat \ {0} /\ MaxPolls \in Nat \ {0}
    /\ MaxChanges \in Nat
    /\ Flaw \subseteq (Pod \X (PodFlaw \cup InstanceFlaw \cup {"sidecar"})) \cup ({NoPod} \X ClusterFlaw)
    /\ \A q \in Params :
          /\ q.primary \in Pod \cup {NoPrimary} /\ q.routers \in {NoRouters} \cup Nat
          /\ q.restartsExpected \in BOOLEAN

VARIABLES
    pods,      \* pod objects
    member,    \* the group: "PRIMARY", "SECONDARY" or "OFFLINE"; only the primary is writable
    online,    \* status.cluster.onlineInstances
    routers,   \* router pods, and how many of them run
    flaws,     \* what is wrong
    changes,   \* number of changes so far
    pc,        \* the next read of the call, "idle" before and "done" after it
    params,    \* its parameters
    icobj,     \* onlineInstances as fetched
    allPods,   \* pod objects as fetched
    primary,   \* the primary expected or detected
    at,        \* the pod at hand
    look,      \* its role label as last read
    trials,    \* trials, looks or polls left
    sessions,  \* sessions open
    forwards,  \* port-forward processes started and not stopped
    result,    \* "none", "nil" or "error"
    quiet,     \* history: nothing changed since the call
    met,       \* history: what has held of the cluster at a moment since the call
    failed     \* history: a call of the client or a query failed

cluster_vars == <<pods, member, online, routers, flaws, changes, met>>
call_vars == <<pc, params, icobj, allPods, primary, at, look, trials, sessions, forwards, result, quiet, failed>>
vars == <<pods, member, online, routers, flaws, changes, met,
          pc, params, icobj, allPods, primary, at, look, trials, sessions, forwards, result, quiet, failed>>

Gone == [exists |-> FALSE, ready |-> FALSE, restarted |-> FALSE, label |-> "none"]
PodObject == [exists : BOOLEAN, ready : BOOLEAN, restarted : BOOLEAN,
              label : {"PRIMARY", "SECONDARY", "none"}]
Fresh(role) == [exists |-> TRUE, ready |-> TRUE, restarted |-> FALSE, label |-> role]

Online == {p \in Pod : member[p] # "OFFLINE"}
Primaries == {p \in Pod : member[p] = "PRIMARY"}

\* What a test waits for before the check, if it does, and asks of it.
RoutersRun == params.routers = NoRouters \/ routers = [pods |-> params.routers, running |-> params.routers]

\* A pod object that is as it should be.
Sound(object) == object.exists /\ object.ready /\ (object.restarted => params.restartsExpected)

\* What holds of the cluster now.
Facts ==
    {<<p, "up">> : p \in {q \in Pod : Sound(pods[q])}}
        \cup {<<p, member[p]>> : p \in Pod}
        \cup {<<p, "leads">> : p \in {q \in Pod : Online = Pod /\ Primaries = {q}}}
        \cup {<<NoPod, fact>> : fact \in
                  {f \in {"status", "made", "routers"} :
                      CASE f = "status"  -> online = N
                        [] f = "made"    -> (\A p \in Pod : pods[p].exists) /\ routers.pods = R
                        [] f = "routers" -> RoutersRun}}

Init ==
    /\ \E p \in Pod : member = [q \in Pod |-> IF q = p THEN "PRIMARY" ELSE "SECONDARY"]
    /\ pods = [p \in Pod |-> Fresh(member[p])]
    /\ online = N /\ routers = [pods |-> R, running |-> R]
    /\ flaws \in {{}} \cup {{f} : f \in Flaw}
    /\ changes = 0
    /\ pc = "idle" /\ params \in Params
    /\ icobj = 0 /\ allPods = [p \in Pod |-> Gone] /\ primary = NoPrimary /\ at = 0 /\ look = "none"
    /\ trials = MaxPolls /\ sessions = 0 /\ forwards = 0
    /\ result = "none" /\ quiet = TRUE /\ failed = FALSE /\ met = Facts

-----------------------------------------------------------------------------
(* The cluster and its operator (external). *)

Change ==
    /\ changes < MaxChanges /\ changes' = changes + 1
    /\ UNCHANGED <<pc, params>>
    /\ quiet' = (pc = "idle")
    /\ met' = Facts' \cup (IF pc = "idle" THEN {} ELSE met)
    /\ UNCHANGED <<flaws, icobj, allPods, primary, at, look, trials, sessions, forwards, result, failed>>

\* mysqld crashes, or the pod is deleted; the group elects another primary.
Down(p, object) ==
    /\ member[p] # "OFFLINE"
    /\ pods' = [pods EXCEPT ![p] = object]
    /\ IF member[p] = "PRIMARY" /\ Online # {p}
       THEN \E q \in Online \ {p} : member' = [member EXCEPT ![p] = "OFFLINE", ![q] = "PRIMARY"]
       ELSE member' = [member EXCEPT ![p] = "OFFLINE"]
    /\ UNCHANGED <<online, routers>> /\ Change

Crash(p) == Down(p, [pods[p] EXCEPT !.ready = FALSE, !.restarted = TRUE])
Delete(p) == Down(p, Gone)

\* The container restarts or the pod is made again, and the member rejoins.
Up(p) ==
    /\ member[p] = "OFFLINE"
    /\ pods' = [pods EXCEPT ![p] = [@ EXCEPT !.exists = TRUE, !.ready = TRUE]]
    /\ member' = [member EXCEPT ![p] = IF Primaries = {} THEN "PRIMARY" ELSE "SECONDARY"]
    /\ UNCHANGED <<online, routers>> /\ Change

SetPrimary(p) ==
    /\ member[p] = "SECONDARY"
    /\ member' = [q \in Pod |-> IF q = p THEN "PRIMARY" ELSE IF q \in Primaries THEN "SECONDARY" ELSE member[q]]
    /\ UNCHANGED <<pods, online, routers>> /\ Change

\* The operator writes down what it sees.
Report ==
    /\ online # Cardinality(Online) /\ online' = Cardinality(Online)
    /\ UNCHANGED <<pods, member, routers>> /\ Change

Relabel(p) ==
    /\ p \in Online /\ pods[p].label # member[p]
    /\ pods' = [pods EXCEPT ![p].label = member[p]]
    /\ UNCHANGED <<member, online, routers>> /\ Change

RouterChange ==
    /\ routers' \in {[pods |-> n, running |-> m] : n \in 0..R, m \in 0..R}
    /\ routers' # routers /\ routers'.running <= routers'.pods
    /\ UNCHANGED <<pods, member, online>> /\ Change

ClusterChange ==
    \/ \E p \in Pod : Crash(p) \/ Delete(p) \/ Up(p) \/ SetPrimary(p) \/ Relabel(p)
    \/ Report \/ RouterChange

-----------------------------------------------------------------------------
(* The steps of a call. *)

Goto(next) == pc' = next /\ UNCHANGED <<params, quiet, result, failed, cluster_vars>>
Return(what) == pc' = "done" /\ result' = what /\ UNCHANGED <<params, quiet, cluster_vars>>
Error == Return("error") /\ UNCHANGED failed

\* What CheckGroup does with its session, and checkInstance does not.
Closed == sessions' = sessions - 1 /\ forwards' = forwards - 1
Kept == UNCHANGED <<sessions, forwards>>

Begin ==
    /\ pc = "idle"
    /\ Goto("wait")
    /\ Kept /\ UNCHANGED <<icobj, allPods, primary, at, look, trials>>

\* One poll of WaitOnRouters, which most tests make before the check.
PollRouters ==
    /\ pc = "wait"
    /\ IF RoutersRun THEN Goto("get") /\ trials' = MaxTrials
       ELSE /\ trials' = trials - 1
            /\ IF trials > 1 THEN Goto("wait") ELSE Error
    /\ Kept /\ UNCHANGED <<icobj, allPods, primary, at, look>>

\* getClusterObject: first the cluster, then pod after pod.
GetInnoDBCluster ==
    /\ pc = "get"
    /\ icobj' = online /\ at' = 0
    /\ Goto("getPod")
    /\ Kept /\ UNCHANGED <<allPods, primary, look, trials>>

GetPod ==
    /\ pc = "getPod"
    /\ allPods' = [allPods EXCEPT ![at] = pods[at]]
    /\ IF ~pods[at].exists THEN Error /\ UNCHANGED at
       ELSE IF at < N - 1 THEN Goto("getPod") /\ at' = at + 1
       ELSE Goto("spec") /\ UNCHANGED at
    /\ Kept /\ UNCHANGED <<icobj, primary, look, trials>>

Has(p, kinds) == \E kind \in kinds : <<p, kind>> \in flaws

\* checkClusterSpec, checkClusterSpecCompliant and checkClusterObject; of what
\* they read only the list of the pods, read once, changes.
SpecMet ==
    /\ params.routers \in {NoRouters, 0, R}
    /\ icobj = N
    /\ {p \in Pod : pods[p].exists} = Pod /\ routers.pods = R
    /\ ~Has(NoPod, ClusterFlaw)

CheckSpec ==
    /\ pc = "spec"
    /\ IF SpecMet THEN Goto("openGroup") ELSE Error
    /\ at' = 0 /\ trials' = MaxTrials
    /\ Kept /\ UNCHANGED <<icobj, allPods, primary, look>>

\* NewSession: a trial that succeeds; mysqld is asked by the first query only.
OpenSession(label, next) ==
    /\ pc = label /\ pods[at].exists
    /\ sessions' = sessions + 1 /\ forwards' = forwards + 1 /\ trials' = MaxTrials
    /\ Goto(next)
    /\ UNCHANGED <<icobj, allPods, primary, at, look>>

\* A trial fails, and the process it may have started is left running.
OpenFails(label) ==
    /\ pc = label
    /\ forwards' \in {forwards, forwards + 1}
    /\ trials' = trials - 1
    /\ IF trials > 1 THEN Goto(label)
       ELSE Return("error") /\ failed' = (failed \/ pods[at].exists)
    /\ UNCHANGED <<sessions, icobj, allPods, primary, at, look>>

\* Mutant: the session stays open.
CheckGroupKept ==
    /\ pc = "queryGroup" /\ member[0] # "OFFLINE"
    /\ IF Cardinality(Online) = N /\ Cardinality(Primaries) = 1 /\ icobj = N
       THEN /\ primary' \in (IF params.primary = NoPrimary THEN Primaries ELSE {params.primary})
            /\ Goto("pod")
       ELSE Error /\ UNCHANGED primary
    /\ Kept /\ UNCHANGED <<icobj, allPods, at, look, trials>>

\* CheckGroup, as the first pod sees the group, and the primary CheckAll goes by.
CheckGroup ==
    /\ pc = "queryGroup" /\ member[0] # "OFFLINE"
    /\ IF Cardinality(Online) = N /\ Cardinality(Primaries) = 1 /\ icobj = N
       THEN /\ primary' \in (IF params.primary = NoPrimary THEN Primaries ELSE {params.primary})
            /\ Goto("pod")
       ELSE Error /\ UNCHANGED primary
    /\ Closed /\ UNCHANGED <<icobj, allPods, at, look, trials>>

\* checkPodSpecCompliant, checkPodObject, checkOnlinePodStatus of the pod as fetched.
PodMet(p) ==
    /\ ~Has(p, PodFlaw)
    /\ Sound(allPods[p])

CheckOnlinePod ==
    /\ pc = "pod"
    /\ IF PodMet(at) THEN Goto("labels") ELSE Error
    /\ look' = allPods[at].label /\ trials' = MaxLooks
    /\ Kept /\ UNCHANGED <<icobj, allPods, primary, at>>

Role(p) == IF p = primary THEN "PRIMARY" ELSE "SECONDARY"

\* Mutant: one pass more than there are trials.
LookOnceMore ==
    /\ pc = "labels" /\ look # Role(at)
    /\ trials' = trials - 1
    /\ IF pods[at].exists THEN Goto("labels") /\ look' = pods[at].label
                          ELSE Error /\ UNCHANGED look
    /\ Kept /\ UNCHANGED <<icobj, allPods, primary, at>>

\* Mutant: the passes start over.
LookForever ==
    /\ pc = "labels" /\ trials > 0 /\ look # Role(at)
    /\ trials' = IF trials > 1 THEN trials - 1 ELSE MaxLooks
    /\ IF pods[at].exists THEN Goto("labels") /\ look' = pods[at].label
                          ELSE Error /\ UNCHANGED look
    /\ Kept /\ UNCHANGED <<icobj, allPods, primary, at>>

\* A pass of the loop on the labels that finds them wrong gets the pod again;
\* that call succeeding, the error is lost to it.
LookAgain ==
    /\ pc = "labels" /\ trials > 0 /\ look # Role(at)
    /\ trials' = trials - 1
    /\ IF pods[at].exists THEN Goto("labels") /\ look' = pods[at].label
                          ELSE Error /\ UNCHANGED look
    /\ Kept /\ UNCHANGED <<icobj, allPods, primary, at>>

\* The labels are right, or it was the last pass.
LabelsDone ==
    /\ pc = "labels" /\ (look = Role(at) \/ trials = 0)
    /\ Goto("openInstance") /\ trials' = MaxTrials
    /\ Kept /\ UNCHANGED <<icobj, allPods, primary, at, look>>

\* Mutant: super_read_only is not looked at.
InstanceMetUnread(p) ==
    ~Has(p, InstanceFlaw)

\* Only the primary is writable; the rest is compared with the pod as fetched.
InstanceMet(p) ==
    /\ p = primary <=> member[p] = "PRIMARY"
    /\ ~Has(p, InstanceFlaw)

\* checkInstance, whose session is never closed.
CheckInstance ==
    /\ pc = "queryInstance" /\ member[at] # "OFFLINE"
    /\ IF InstanceMet(at) THEN Goto("sidecar") ELSE Error
    /\ Kept /\ UNCHANGED <<icobj, allPods, primary, at, look, trials>>

\* Mutant: the loop over the pods ends before the last one.
CheckSidecarShort ==
    /\ pc = "sidecar" /\ pods[at].exists
    /\ IF <<at, "sidecar">> \in flaws THEN Error /\ UNCHANGED at
       ELSE IF at < N - 2 THEN Goto("pod") /\ at' = at + 1
       ELSE Goto("routers") /\ UNCHANGED at
    /\ Kept /\ UNCHANGED <<icobj, allPods, primary, look, trials>>

\* checkSidecarHealth, the end of the loop over the pods.
CheckSidecar ==
    /\ pc = "sidecar" /\ pods[at].exists
    /\ IF <<at, "sidecar">> \in flaws THEN Error /\ UNCHANGED at
       ELSE IF at < N - 1 THEN Goto("pod") /\ at' = at + 1
       ELSE Goto("routers") /\ UNCHANGED at
    /\ Kept /\ UNCHANGED <<icobj, allPods, primary, look, trials>>

CheckRouters ==
    /\ pc = "routers"
    /\ IF RoutersRun THEN Return("nil") /\ UNCHANGED failed ELSE Error
    /\ Kept /\ UNCHANGED <<icobj, allPods, primary, at, look, trials>>

\* A call of the client fails, which ends the check.
CallFails(label) ==
    /\ pc = label
    /\ Return("error") /\ failed' = TRUE
    /\ Kept /\ UNCHANGED <<icobj, allPods, primary, at, look, trials>>

\* So does a query; only CheckGroup closes its session.
QueryFails ==
    /\ pc \in {"queryGroup", "queryInstance"}
    /\ Return("error")
    /\ failed' = (failed \/ member[at] # "OFFLINE")
    /\ IF pc = "queryGroup" THEN Closed ELSE Kept
    /\ UNCHANGED <<icobj, allPods, primary, at, look, trials>>

CheckStep ==
    \/ PollRouters \/ GetInnoDBCluster \/ GetPod \/ CheckSpec
    \/ OpenSession("openGroup", "queryGroup") \/ OpenFails("openGroup") \/ CheckGroup
    \/ CheckOnlinePod \/ LookAgain \/ LabelsDone
    \/ OpenSession("openInstance", "queryInstance") \/ OpenFails("openInstance") \/ CheckInstance
    \/ CheckSidecar \/ CheckRouters
    \/ QueryFails
    \/ \E label \in {"wait", "get", "getPod", "spec", "labels", "sidecar", "routers"} : CallFails(label)

CheckNext == Begin \/ CheckStep \/ ClusterChange

-----------------------------------------------------------------------------
(* Properties. *)

Labels == {"idle", "wait", "get", "getPod", "spec", "openGroup", "queryGroup", "pod", "labels",
           "openInstance", "queryInstance", "sidecar", "routers", "done"}

CallTypeOK ==
    /\ params \in Params /\ icobj \in 0..N
    /\ primary \in Pod \cup {NoPrimary} /\ at \in Pod
    /\ look \in {"PRIMARY", "SECONDARY", "none"}
    /\ trials \in Nat /\ sessions \in Nat /\ forwards \in Nat
    /\ result \in {"none", "nil", "error"} /\ quiet \in BOOLEAN /\ failed \in BOOLEAN

ClusterTypeOK ==
    /\ pods \in [Pod -> PodObject] /\ allPods \in [Pod -> PodObject]
    /\ member \in [Pod -> {"PRIMARY", "SECONDARY", "OFFLINE"}]
    /\ online \in 0..N /\ changes \in 0..MaxChanges
    /\ routers \in [pods : 0..R, running : 0..R]
    /\ flaws \in SUBSET Flaw
    /\ CallTypeOK

Polling == {"idle", "wait", "get", "getPod", "spec", "openGroup"}
Visiting == {"pod", "labels", "openInstance", "queryInstance", "sidecar"}

\* The pods whose visit is over.
Visited == IF pc = "routers" THEN Pod ELSE 0..(at - 1)

\* What a check of a cluster that stays as it is has read is what there is.
ReadInv ==
    /\ pc = "idle" => result = "none"
    /\ quiet =>
        /\ pc \in {"getPod", "spec", "openGroup", "queryGroup", "routers"} \cup Visiting => icobj = online
        /\ pc = "getPod" => \A p \in 0..(at - 1) : allPods[p] = pods[p]
        /\ pc \in {"spec", "openGroup", "queryGroup", "routers"} \cup Visiting => allPods = pods
        /\ pc \in {"openGroup", "queryGroup", "routers"} \cup Visiting => SpecMet
        /\ pc \in {"routers"} \cup Visiting =>
              /\ Online = Pod /\ Cardinality(Primaries) = 1
              /\ IF params.primary = NoPrimary THEN primary \in Primaries ELSE primary = params.primary
              /\ \A p \in Visited : PodMet(p) /\ InstanceMet(p) /\ <<p, "sidecar">> \notin flaws
        /\ pc \in Visiting \ {"pod"} => PodMet(at)
        /\ pc = "sidecar" => InstanceMet(at)

\* A cluster as the test describes it, labels left aside.
Healthy ==
    /\ flaws = {}
    /\ \A p \in Pod : pods[p].exists /\ pods[p].ready /\ (pods[p].restarted => params.restartsExpected)
    /\ Online = Pod /\ Cardinality(Primaries) = 1
    /\ params.primary # NoPrimary => params.primary \in Primaries
    /\ online = N
    /\ routers.pods = R
    /\ params.routers # NoRouters => params.routers = R /\ routers.running = R

\* On a cluster that does not change during the check, nil means that it is as
\* described and an error that it is not, unless a call failed: the order of the
\* reads, the copies worked on and the detected primary make no difference
\* (check_common.go CheckAll).
QuietVerdict ==
    result # "none" /\ quiet =>
        /\ result = "nil" => Healthy
        /\ result = "error" => failed \/ ~Healthy

\* What a check that goes by primary q has to find of pod p.
Found(p, q) == {<<p, "up">>, <<p, IF p = q THEN "PRIMARY" ELSE "SECONDARY">>}

\* On a cluster that changes, nil means that each thing it stands for has held at a
\* moment since the call: that all pods were there and were counted by the operator,
\* that the group was complete with one primary, the one gone by unless another was
\* asked for, and of every pod that it was up and had its role (check_common.go
\* CheckAll).
NilWasTrue ==
    result = "nil" =>
        /\ flaws = {} /\ {<<NoPod, fact>> : fact \in {"status", "made", "routers"}} \subseteq met
        /\ \E leader, q \in Pod :
              /\ <<leader, "leads">> \in met
              /\ q = IF params.primary = NoPrimary THEN leader ELSE params.primary
              /\ \A p \in Pod : Found(p, q) \subseteq met

\* What the reads so far have found was met when they were made.
MetInv ==
    /\ Facts \subseteq met
    /\ pc \in {"getPod", "spec", "openGroup", "queryGroup", "routers"} \cup Visiting =>
          /\ icobj = N => <<NoPod, "status">> \in met
          /\ \A p \in (IF pc = "getPod" THEN 0..(at - 1) ELSE Pod) : Sound(allPods[p]) => <<p, "up">> \in met
    /\ pc \in {"openGroup", "queryGroup", "routers"} \cup Visiting =>
          icobj = N /\ <<NoPod, "made">> \in met /\ ~Has(NoPod, ClusterFlaw)
    /\ pc \in {"routers"} \cup Visiting =>
          /\ \E leader \in Pod : /\ <<leader, "leads">> \in met
                                /\ primary = IF params.primary = NoPrimary THEN leader ELSE params.primary
          /\ \A p \in Visited : Found(p, primary) \subseteq met /\ ~Has(p, PodFlaw \cup InstanceFlaw \cup {"sidecar"})
    /\ pc \in Visiting \ {"pod"} => <<at, "up">> \in met /\ ~Has(at, PodFlaw)
    /\ pc = "sidecar" => Found(at, primary) \subseteq met /\ ~Has(at, InstanceFlaw)

=============================================================================
