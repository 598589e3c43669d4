------------------------------ MODULE CheckProofs ------------------------------
(***************************************************************************)
(* The two checks for any number of pods, routers, trials and changes.     *)
(***************************************************************************)
EXTENDS CheckData, TLAPS, FiniteSetTheorems, WellFoundedInduction

USE CheckAssumption, DataAssumption

-----------------------------------------------------------------------------
(* Pods. *)

LEMMA PodsFinite ==
  /\ IsFiniteSet(Pod) /\ Cardinality(Pod) = N
  /\ \A S \in SUBSET Pod : IsFiniteSet(S) /\ Cardinality(S) \in 0..N /\ (Cardinality(S) = N => S = Pod)
<1>1. IsFiniteSet(Pod) /\ Cardinality(Pod) = N
  <2>1. 0 \in Int /\ N - 1 \in Int /\ ~(0 > N - 1) /\ (N - 1) - 0 + 1 = N
    OBVIOUS
  <2>2. IsFiniteSet(0..(N - 1)) /\ Cardinality(0..(N - 1)) = (N - 1) - 0 + 1
    BY ONLY <2>1, FS_Interval
  <2> QED BY <2>1, <2>2 DEF Pod
<1>2. ASSUME NEW S \in SUBSET Pod
      PROVE  IsFiniteSet(S) /\ Cardinality(S) \in 0..N /\ (Cardinality(S) = N => S = Pod)
  <2>1. IsFiniteSet(S) /\ Cardinality(S) <= N /\ (Cardinality(S) = N => S = Pod)
    BY <1>1, FS_Subset
  <2> QED BY <2>1, FS_CardinalityType
<1> QED BY <1>1, <1>2

\* One pod less.
LEMMA OnePodLess ==
  ASSUME NEW S \in SUBSET Pod, NEW p \in S
  PROVE  /\ Cardinality(S) >= 1 /\ Cardinality(S \ {p}) = Cardinality(S) - 1
         /\ Cardinality(S \ {p}) \in Nat
<1>1. IsFiniteSet(S) /\ Cardinality(S) \in Nat /\ Cardinality(S) # 0
  BY PodsFinite, FS_EmptySet
<1>2. Cardinality(S \ {p}) = Cardinality(S) - 1
  BY <1>1, FS_RemoveElement
<1> QED BY <1>1, <1>2

\* The next secondary is one of those left.
LEMMA LeastPod ==
  ASSUME NEW left \in SUBSET Pod, left # {}
  PROVE  (CHOOSE p \in left : \A q \in left : p <= q) \in left
<1>1. left \subseteq Nat
  BY DEF Pod
<1>2. PICK p \in left : \A q \in left : ~(<<q, p>> \in OpToRel(<, Nat))
  BY <1>1, NatLessThanWellFounded, WFMin
<1>3. \A q \in left : ~(q < p)
  BY <1>1, <1>2 DEF OpToRel
<1>4. \A q \in left : p <= q
  BY <1>1, <1>3
<1> QED BY <1>4

\* Leaks is linear.
LEMMA LeaksGrow ==
  /\ \A k \in Nat : Leaks(k) \in Nat /\ Leaks(k + 1) = Leaks(k) + (MaxTrials - 1)
  /\ \A k, l \in Nat : k <= l => Leaks(k) <= Leaks(l)
<1> DEFINE T == MaxTrials - 1
<1>1. T \in Nat
  OBVIOUS
<1> HIDE DEF T
<1>2. \A k \in Nat : k * T \in Nat /\ (k + 1) * T = k * T + T
  BY <1>1
<1>3. \A k, l \in Nat : k <= l => k * T <= l * T
  <2> SUFFICES ASSUME NEW k \in Nat, NEW l \in Nat, k <= l PROVE k * T <= l * T
    OBVIOUS
  <2>1. (l - k) \in Nat /\ l * T = k * T + (l - k) * T
    BY <1>1
  <2>2. (l - k) * T \in Nat /\ k * T \in Nat
    BY <1>1, <1>2, <2>1
  <2> QED BY <2>1, <2>2
<1> QED BY <1>2, <1>3 DEF Leaks, T

-----------------------------------------------------------------------------
(* What the steps leave alone. *)

\* On the same cluster the same call finds the same.
LEMMA SameFinding ==
  ASSUME UNCHANGED <<cluster_vars, params>>
  PROVE  /\ Online' = Online /\ Primaries' = Primaries /\ Healthy' = Healthy /\ RoutersRun' = RoutersRun
         /\ icobj' = icobj => SpecMet' = SpecMet
         /\ \A p : allPods' = allPods => PodMet(p)' = PodMet(p)
         /\ \A p : primary' = primary => InstanceMet(p)' = InstanceMet(p)
<1>1. /\ pods' = pods /\ member' = member /\ online' = online /\ routers' = routers /\ flaws' = flaws
      /\ params' = params
  BY DEF cluster_vars
<1>2. Online' = Online /\ Primaries' = Primaries
  BY <1>1 DEF Online, Primaries
<1>3. Healthy' = Healthy
  BY <1>1, <1>2 DEF Healthy
<1>4. RoutersRun' = RoutersRun
  BY <1>1 DEF RoutersRun
<1>5. icobj' = icobj => SpecMet' = SpecMet
  BY <1>1 DEF SpecMet, Has
<1>6. \A p : allPods' = allPods => PodMet(p)' = PodMet(p)
  BY <1>1 DEF PodMet, Sound, Has
<1>7. \A p : primary' = primary => InstanceMet(p)' = InstanceMet(p)
  BY <1>1 DEF InstanceMet, Has
<1> QED BY <1>2, <1>3, <1>4, <1>5, <1>6, <1>7

\* Outside of CheckAll only the result of its reads matters.
LEMMA ReadElsewhere ==
  ASSUME CheckInv, QuietVerdict, UNCHANGED check_vars, pc' \notin Labels \ {"done"}
  PROVE  ReadInv' /\ QuietVerdict'
<1>1. UNCHANGED <<cluster_vars, params, result, quiet, failed>>
  BY DEF check_vars, cluster_vars
<1>2. QuietVerdict'
  BY <1>1, SameFinding DEF QuietVerdict
<1>3. ReadInv'
  BY DEF ReadInv, Labels, Visiting
<1> QED BY <1>2, <1>3

\* Every change of the cluster counts as one.
LEMMA ChangeOfCluster ==
  ASSUME ClusterChange
  PROVE  Change
<1>1. ASSUME NEW p \in Pod, Crash(p) \/ Delete(p) \/ Up(p) \/ SetPrimary(p) \/ Relabel(p)
      PROVE  Change
  BY <1>1, Zenon DEF Crash, Delete, Down, Up, SetPrimary, Relabel
<1>2. Report => Change
  BY DEF Report
<1>3. RouterChange => Change
  BY DEF RouterChange
<1> QED BY <1>1, <1>2, <1>3 DEF ClusterChange

\* While the cluster changes nothing is claimed of a check under way.
LEMMA ReadChange ==
  ASSUME CheckInv, QuietVerdict, ClusterChange
  PROVE  ReadInv' /\ QuietVerdict'
<1>1. quiet' = (pc = "idle") /\ pc' = pc /\ result' = result
  BY ChangeOfCluster, Zenon DEF Change
<1>2. ReadInv'
  BY <1>1 DEF CheckInv, ReadInv, Visiting
<1>3. QuietVerdict'
  BY <1>1 DEF CheckInv, ReadInv, QuietVerdict
<1> QED BY <1>2, <1>3

\* A return is right when the reads are.
LEMMA ReadReturn ==
  ASSUME NEW what \in {"nil", "error"}, Return(what),
         quiet /\ what = "nil" => Healthy,
         quiet /\ what = "error" => failed' \/ ~Healthy
  PROVE  ReadInv' /\ QuietVerdict'
<1>1. pc' = "done" /\ result' = what /\ UNCHANGED <<cluster_vars, params, quiet>>
  BY DEF Return
<1>2. Healthy' = Healthy
  BY <1>1, SameFinding
<1>3. ReadInv'
  BY <1>1 DEF ReadInv, Visiting
<1>4. QuietVerdict'
  BY <1>1, <1>2 DEF QuietVerdict
<1> QED BY <1>3, <1>4

\* A step that does not return claims nothing.
LEMMA ReadGoesOn ==
  ASSUME QuietVerdict, NEW next, Goto(next)
  PROVE  QuietVerdict' /\ UNCHANGED <<cluster_vars, params, quiet, result, failed>> /\ pc' = next
<1>1. UNCHANGED <<cluster_vars, params, quiet, result, failed>> /\ pc' = next
  BY DEF Goto
<1>2. Healthy' = Healthy
  BY <1>1, SameFinding
<1> QED BY <1>1, <1>2 DEF QuietVerdict

\* What the checks find on a healthy cluster.
LEMMA HealthyFindings ==
  ASSUME CheckInv, Healthy
  PROVE  /\ RoutersRun
         /\ icobj = online => SpecMet
         /\ Cardinality(Online) = N
         /\ \A p \in Pod : allPods = pods => PodMet(p)
         /\ \A p \in Pod : primary \in Primaries => InstanceMet(p)
         /\ flaws = {}
<1>1. routers \in [pods : 0..R, running : 0..R] /\ member \in [Pod -> {"PRIMARY", "SECONDARY", "OFFLINE"}]
  BY DEF CheckInv, DataTypeOK, ClusterTypeOK
<1>2. RoutersRun
  BY <1>1 DEF Healthy, RoutersRun
<1>3. icobj = online => SpecMet
  BY <1>1 DEF Healthy, SpecMet, Has
<1>4. Cardinality(Online) = N
  BY PodsFinite DEF Healthy
<1>5. \A p \in Pod : allPods = pods => PodMet(p)
  BY DEF Healthy, PodMet, Sound, Has
<1>6. ASSUME NEW p \in Pod, primary \in Primaries
      PROVE  InstanceMet(p)
  <2>1. IsFiniteSet(Primaries)
    BY PodsFinite DEF Primaries
  <2>2. \E x : Primaries = {x}
    BY <2>1, FS_Singleton DEF Healthy
  <2>3. p = primary <=> p \in Primaries
    BY <1>6, <2>2
  <2>4. p = primary <=> member[p] = "PRIMARY"
    BY <2>3, <1>6 DEF Primaries
  <2> QED BY <2>4 DEF InstanceMet, Has, Healthy
<1> QED BY <1>2, <1>3, <1>4, <1>5, <1>6 DEF Healthy

\* When everything was found in order the cluster is healthy.
LEMMA FindingsHealthy ==
  ASSUME CheckInv, pc = "routers", quiet, RoutersRun
  PROVE  Healthy
<1>1. /\ SpecMet /\ allPods = pods /\ icobj = online
      /\ Online = Pod /\ Cardinality(Primaries) = 1
      /\ IF params.primary = NoPrimary THEN primary \in Primaries ELSE primary = params.primary
      /\ \A p \in Pod : PodMet(p) /\ InstanceMet(p) /\ <<p, "sidecar">> \notin flaws
  BY DEF CheckInv, ReadInv, Visited
<1>2. params \in Params /\ flaws \subseteq Flaw
  BY DEF CheckInv, DataTypeOK, ClusterTypeOK, CallTypeOK
<1>3. flaws = {}
  <2>1. ASSUME NEW p \in Pod, NEW kind \in PodFlaw \cup InstanceFlaw \cup {"sidecar"}, <<p, kind>> \in flaws
        PROVE  FALSE
    BY <1>1, <2>1 DEF PodMet, Sound, InstanceMet, Has
  <2>2. ASSUME NEW kind \in ClusterFlaw, <<NoPod, kind>> \in flaws
        PROVE  FALSE
    BY <1>1, <2>2 DEF SpecMet, Has
  <2> QED BY <1>2, <2>1, <2>2
<1>4. \A p \in Pod : pods[p].exists /\ pods[p].ready /\ (pods[p].restarted => params.restartsExpected)
  BY <1>1 DEF SpecMet, PodMet, Sound
<1>5. params.primary # NoPrimary => params.primary \in Primaries
  <2>1. params.primary # NoPrimary => params.primary \in Pod /\ primary = params.primary
    BY <1>1, <1>2
  <2>2. primary \in Pod => member[primary] = "PRIMARY"
    BY <1>1 DEF InstanceMet
  <2> QED BY <2>1, <2>2 DEF Primaries
<1>6. online = N /\ routers.pods = R
  BY <1>1 DEF SpecMet
<1>7. params.routers # NoRouters => params.routers = R /\ routers.running = R
  BY <1>6 DEF RoutersRun
<1> QED BY <1>1, <1>3, <1>4, <1>5, <1>6, <1>7 DEF Healthy

-----------------------------------------------------------------------------
(* The reads of CheckAll. *)

LEMMA ReadBegin ==
  ASSUME CheckInv, QuietVerdict, Begin
  PROVE  ReadInv' /\ QuietVerdict'
<1>1. QuietVerdict' /\ pc' = "wait"
  BY ReadGoesOn DEF Begin
<1> QED BY <1>1 DEF ReadInv, Visiting

LEMMA ReadPollRouters ==
  ASSUME CheckInv, QuietVerdict, PollRouters
  PROVE  ReadInv' /\ QuietVerdict'
<1>1. CASE Goto("get") \/ Goto("wait")
  <2>1. QuietVerdict' /\ pc' \in {"get", "wait"}
    BY <1>1, ReadGoesOn
  <2> QED BY <2>1 DEF ReadInv, Visiting
<1>2. CASE ~RoutersRun /\ Error
  BY <1>2, ReadReturn, HealthyFindings DEF Error
<1> QED BY <1>1, <1>2 DEF PollRouters

LEMMA ReadGetInnoDBCluster ==
  ASSUME CheckInv, QuietVerdict, GetInnoDBCluster
  PROVE  ReadInv' /\ QuietVerdict'
<1>1. QuietVerdict' /\ pc' = "getPod" /\ UNCHANGED <<cluster_vars, params, quiet, result, failed>>
  BY ReadGoesOn DEF GetInnoDBCluster
<1>2. icobj' = online' /\ at' = 0
  BY <1>1 DEF GetInnoDBCluster, cluster_vars
<1> QED BY <1>1, <1>2 DEF ReadInv, Visiting

LEMMA ReadGetPod ==
  ASSUME CheckInv, QuietVerdict, GetPod
  PROVE  ReadInv' /\ QuietVerdict'
<1>1. CASE ~pods[at].exists /\ Error
  <2>1. ~Healthy
    BY <1>1 DEF Healthy, CheckInv, DataTypeOK, ClusterTypeOK, CallTypeOK
  <2> QED BY <1>1, <2>1, ReadReturn DEF Error
<1>2. CASE \/ at < N - 1 /\ Goto("getPod") /\ at' = at + 1
           \/ at >= N - 1 /\ Goto("spec") /\ at' = at
  <2>1. QuietVerdict' /\ pc' \in {"getPod", "spec"} /\ UNCHANGED <<pods, online, quiet, result>>
    BY <1>2, ReadGoesOn DEF cluster_vars
  <2>2. pc = "getPod" /\ icobj' = icobj /\ allPods' = [allPods EXCEPT ![at] = pods[at]]
    BY DEF GetPod
  <2>3. at \in Pod /\ allPods \in [Pod -> PodObject] /\ pods \in [Pod -> PodObject]
    BY DEF CheckInv, DataTypeOK, ClusterTypeOK, CallTypeOK
  <2>4. ASSUME quiet
        PROVE  \A p \in 0..at : allPods'[p] = pods[p]
    <3>1. \A p \in 0..(at - 1) : allPods[p] = pods[p]
      BY <2>2, <2>4 DEF CheckInv, ReadInv
    <3>2. \A p \in 0..at : p \in Pod /\ (p = at \/ p \in 0..(at - 1))
      BY <2>3 DEF Pod
    <3> QED BY <2>2, <2>3, <3>1, <3>2
  <2>5. CASE at < N - 1
    <3>1. pc' = "getPod" /\ at' = at + 1 /\ 0..(at' - 1) = 0..at
      BY <1>2, <2>5, <2>3 DEF Pod, Goto
    <3> QED BY <2>1, <2>2, <2>4, <3>1 DEF CheckInv, ReadInv, Visiting
  <2>6. CASE at >= N - 1
    <3>1. pc' = "spec" /\ 0..at = Pod
      BY <1>2, <2>6, <2>3 DEF Pod, Goto
    <3>2. quiet => allPods' = pods
      BY <2>2, <2>3, <2>4, <3>1
    <3> QED BY <2>1, <2>2, <3>1, <3>2 DEF CheckInv, ReadInv, Visiting
  <2> QED BY <2>3, <2>5, <2>6 DEF Pod
<1> QED BY <1>1, <1>2 DEF GetPod, CheckInv, DataTypeOK, ClusterTypeOK, CallTypeOK, Pod

LEMMA ReadSpec ==
  ASSUME CheckInv, QuietVerdict, CheckSpec
  PROVE  ReadInv' /\ QuietVerdict'
<1>1. CASE SpecMet /\ Goto("openGroup")
  <2>1. QuietVerdict' /\ pc' = "openGroup" /\ UNCHANGED <<cluster_vars, params, quiet, result, failed>>
    BY <1>1, ReadGoesOn
  <2>2. UNCHANGED <<icobj, allPods>> /\ pc = "spec"
    BY DEF CheckSpec
  <2>3. SpecMet'
    BY <1>1, <2>1, <2>2, SameFinding
  <2> QED BY <2>1, <2>2, <2>3 DEF CheckInv, ReadInv, Visiting, cluster_vars
<1>2. CASE ~SpecMet /\ Error
  <2>1. quiet => icobj = online
    BY DEF CheckInv, ReadInv, CheckSpec
  <2> QED BY <1>2, <2>1, ReadReturn, HealthyFindings DEF Error
<1> QED BY <1>1, <1>2 DEF CheckSpec

\* A session more or less reads nothing.
LEMMA ReadOpen ==
  ASSUME CheckInv, QuietVerdict,
         \/ OpenSession("openGroup", "queryGroup") \/ OpenFails("openGroup")
         \/ OpenSession("openInstance", "queryInstance") \/ OpenFails("openInstance")
  PROVE  ReadInv' /\ QuietVerdict'
<1>1. at \in Pod
  BY DEF CheckInv, DataTypeOK, ClusterTypeOK, CallTypeOK
<1>2. CASE Return("error") /\ failed' = (failed \/ pods[at].exists)
  <2>1. failed' \/ ~Healthy
    BY <1>1, <1>2 DEF Healthy
  <2> QED BY <1>2, <2>1, ReadReturn
<1>3. CASE \/ pc = "openGroup" /\ (Goto("openGroup") \/ Goto("queryGroup"))
           \/ pc = "openInstance" /\ (Goto("openInstance") \/ Goto("queryInstance"))
  <2>1. /\ QuietVerdict' /\ UNCHANGED <<cluster_vars, params, quiet, result, failed>>
        /\ \/ pc = "openGroup" /\ pc' \in {"openGroup", "queryGroup"}
           \/ pc = "openInstance" /\ pc' \in {"openInstance", "queryInstance"}
    BY <1>3, ReadGoesOn
  <2>2. UNCHANGED <<icobj, allPods, primary, at>>
    BY DEF OpenSession, OpenFails
  <2>3. /\ Online' = Online /\ Primaries' = Primaries /\ SpecMet' = SpecMet
        /\ \A p : PodMet(p)' = PodMet(p) /\ InstanceMet(p)' = InstanceMet(p)
    BY <2>1, <2>2, SameFinding
  <2>4. pods' = pods /\ online' = online /\ flaws' = flaws
    BY <2>1 DEF cluster_vars
  <2>5. pc = "openInstance" => Visited' = Visited
    BY <2>1, <2>2 DEF Visited
  <2> QED BY <2>1, <2>2, <2>3, <2>4, <2>5 DEF CheckInv, ReadInv, Visiting
<1> QED BY <1>2, <1>3 DEF OpenSession, OpenFails

LEMMA ReadGroup ==
  ASSUME CheckInv, QuietVerdict, CheckGroup
  PROVE  ReadInv' /\ QuietVerdict'
<1> DEFINE complete == Cardinality(Online) = N /\ Cardinality(Primaries) = 1 /\ icobj = N
<1>1. pc = "queryGroup" /\ at = 0 /\ UNCHANGED <<icobj, allPods, at>>
  BY DEF CheckGroup, CheckInv, SessionInv
<1>2. quiet => icobj = online /\ allPods = pods /\ SpecMet
  BY <1>1 DEF CheckInv, ReadInv
<1>3. CASE complete /\ Goto("pod")
  <2>1. QuietVerdict' /\ pc' = "pod" /\ UNCHANGED <<cluster_vars, params, quiet, result, failed>>
    BY <1>3, ReadGoesOn
  <2>2. Online' = Online /\ Primaries' = Primaries /\ SpecMet' = SpecMet
    BY <1>1, <2>1, SameFinding
  <2>3. Online = Pod
    BY <1>3, PodsFinite DEF Online
  <2>4. IF params.primary = NoPrimary THEN primary' \in Primaries ELSE primary' = params.primary
    BY <1>3 DEF CheckGroup
  <2>5. Visited' = {}
    BY <1>1, <2>1 DEF Visited
  <2>6. pods' = pods /\ online' = online /\ params' = params /\ quiet' = quiet
    BY <2>1 DEF cluster_vars
  <2> QED BY <1>1, <1>2, <1>3, <2>1, <2>2, <2>3, <2>4, <2>5, <2>6 DEF ReadInv, Visiting
<1>4. CASE ~complete /\ Error
  <2>1. quiet /\ Healthy => complete
    BY <1>2, HealthyFindings DEF Healthy
  <2> QED BY <1>4, <2>1, ReadReturn DEF Error
<1> QED BY <1>3, <1>4 DEF CheckGroup

\* What is known of a quiet check between two steps of its visits.
LEMMA Visit ==
  ASSUME CheckInv, pc \in Visiting \cup {"routers"}, quiet
  PROVE  /\ allPods = pods /\ icobj = online /\ SpecMet /\ at \in Pod
         /\ Online = Pod /\ Cardinality(Primaries) = 1
         /\ IF params.primary = NoPrimary THEN primary \in Primaries ELSE primary = params.primary
         /\ \A p \in Visited : PodMet(p) /\ InstanceMet(p) /\ <<p, "sidecar">> \notin flaws
  BY DEF CheckInv, ReadInv, Visiting, DataTypeOK, ClusterTypeOK, CallTypeOK

\* A step of a visit that leaves the visited pods as they were.
LEMMA VisitGoesOn ==
  ASSUME CheckInv, QuietVerdict, pc \in Visiting, NEW next \in Visiting, Goto(next),
         UNCHANGED <<icobj, allPods, primary, at>>,
         quiet /\ next # "pod" => PodMet(at),
         quiet /\ next = "sidecar" => InstanceMet(at)
  PROVE  ReadInv' /\ QuietVerdict'
<1>1. QuietVerdict' /\ pc' = next /\ UNCHANGED <<cluster_vars, params, quiet, result, failed>>
  BY ReadGoesOn
<1>2. /\ Online' = Online /\ Primaries' = Primaries /\ SpecMet' = SpecMet
      /\ \A p : PodMet(p)' = PodMet(p) /\ InstanceMet(p)' = InstanceMet(p)
  BY <1>1, SameFinding
<1>3. Visited' = Visited /\ PodMet(at)' = PodMet(at) /\ InstanceMet(at)' = InstanceMet(at)
  BY <1>1, <1>2 DEF Visited, Visiting
<1>4. pods' = pods /\ online' = online /\ flaws' = flaws
  BY <1>1 DEF cluster_vars
<1>5. ASSUME quiet PROVE ReadInv'
  <2>1. /\ allPods' = pods' /\ icobj' = online' /\ SpecMet'
        /\ Online' = Pod /\ Cardinality(Primaries') = 1
        /\ IF params'.primary = NoPrimary THEN primary' \in Primaries' ELSE primary' = params'.primary
    BY <1>1, <1>2, <1>4, <1>5, Visit
  <2>2. \A p \in Visited' : PodMet(p)' /\ InstanceMet(p)' /\ <<p, "sidecar">> \notin flaws'
    BY <1>2, <1>3, <1>4, <1>5, Visit
  <2>3. /\ pc' # "pod" => PodMet(at)'
        /\ pc' = "sidecar" => InstanceMet(at)'
    BY <1>1, <1>3, <1>5
  <2> QED BY <1>1, <2>1, <2>2, <2>3 DEF ReadInv, Visiting
<1> QED BY <1>1, <1>5 DEF ReadInv, Visiting

\* On a healthy cluster a quiet check knows the primary.
LEMMA VisitHealthy ==
  ASSUME CheckInv, pc \in Visiting \cup {"routers"}, quiet, Healthy
  PROVE  primary \in Primaries /\ \A p \in Pod : PodMet(p) /\ InstanceMet(p)
<1>1. primary \in Primaries
  BY Visit DEF Healthy
<1> QED BY <1>1, Visit, HealthyFindings

LEMMA ReadOnlinePod ==
  ASSUME CheckInv, QuietVerdict, CheckOnlinePod
  PROVE  ReadInv' /\ QuietVerdict'
<1>1. pc = "pod" /\ pc \in Visiting /\ UNCHANGED <<icobj, allPods, primary, at>>
  BY DEF CheckOnlinePod, Visiting
<1>2. CASE PodMet(at) /\ Goto("labels")
  BY <1>1, <1>2, VisitGoesOn DEF Visiting
<1>3. CASE ~PodMet(at) /\ Error
  <2>1. quiet => ~Healthy
    BY <1>1, <1>3, Visit, VisitHealthy
  <2> QED BY <1>3, <2>1, ReadReturn DEF Error
<1> QED BY <1>2, <1>3 DEF CheckOnlinePod

LEMMA ReadLabels ==
  ASSUME CheckInv, QuietVerdict, LookAgain \/ LabelsDone
  PROVE  ReadInv' /\ QuietVerdict'
<1>1. pc = "labels" /\ pc \in Visiting /\ UNCHANGED <<icobj, allPods, primary, at>>
  BY DEF LookAgain, LabelsDone, Visiting
<1>2. quiet => PodMet(at)
  BY <1>1 DEF CheckInv, ReadInv, Visiting
<1>3. CASE Goto("labels")
  BY <1>1, <1>2, <1>3, VisitGoesOn DEF Visiting
<1>4. CASE Goto("openInstance")
  BY <1>1, <1>2, <1>4, VisitGoesOn DEF Visiting
<1>5. CASE ~pods[at].exists /\ Error
  <2>1. ~Healthy
    BY <1>5 DEF Healthy, CheckInv, DataTypeOK, ClusterTypeOK, CallTypeOK
  <2> QED BY <1>5, <2>1, ReadReturn DEF Error
<1> QED BY <1>3, <1>4, <1>5 DEF LookAgain, LabelsDone

LEMMA ReadInstance ==
  ASSUME CheckInv, QuietVerdict, CheckInstance
  PROVE  ReadInv' /\ QuietVerdict'
<1>1. pc = "queryInstance" /\ pc \in Visiting /\ UNCHANGED <<icobj, allPods, primary, at>>
  BY DEF CheckInstance, Visiting
<1>2. quiet => PodMet(at)
  BY <1>1 DEF CheckInv, ReadInv, Visiting
<1>3. CASE InstanceMet(at) /\ Goto("sidecar")
  BY <1>1, <1>2, <1>3, VisitGoesOn DEF Visiting
<1>4. CASE ~InstanceMet(at) /\ Error
  <2>1. quiet => ~Healthy
    BY <1>1, <1>4, Visit, VisitHealthy
  <2> QED BY <1>4, <2>1, ReadReturn DEF Error
<1> QED BY <1>3, <1>4 DEF CheckInstance

LEMMA ReadSidecar ==
  ASSUME CheckInv, QuietVerdict, CheckSidecar
  PROVE  ReadInv' /\ QuietVerdict'
<1>1. pc = "sidecar" /\ pc \in Visiting /\ at \in Pod /\ UNCHANGED <<icobj, allPods, primary>>
  BY DEF CheckSidecar, Visiting, CheckInv, DataTypeOK, ClusterTypeOK, CallTypeOK
<1>2. CASE <<at, "sidecar">> \in flaws /\ Error
  <2>1. ~Healthy
    BY <1>2 DEF Healthy
  <2> QED BY <1>2, <2>1, ReadReturn DEF Error
<1>3. CASE /\ <<at, "sidecar">> \notin flaws
           /\ \/ at < N - 1 /\ Goto("pod") /\ at' = at + 1
              \/ at >= N - 1 /\ Goto("routers") /\ at' = at
  <2>1. QuietVerdict' /\ UNCHANGED <<cluster_vars, params, quiet, result, failed>>
    BY <1>3, ReadGoesOn
  <2>2. /\ Online' = Online /\ Primaries' = Primaries /\ SpecMet' = SpecMet
        /\ \A p : PodMet(p)' = PodMet(p) /\ InstanceMet(p)' = InstanceMet(p)
    BY <1>1, <2>1, SameFinding
  <2>3. pods' = pods /\ online' = online /\ flaws' = flaws
    BY <2>1 DEF cluster_vars
  <2>4. pc' \in {"pod", "routers"} /\ Visited' = 0..at /\ \A p \in 0..at : p = at \/ p \in Visited
    BY <1>1, <1>3 DEF Visited, Pod, Goto
  <2>5. ASSUME quiet PROVE ReadInv'
    <3>1. PodMet(at) /\ InstanceMet(at)
      BY <1>1, <2>5 DEF CheckInv, ReadInv, Visiting
    <3>2. /\ allPods' = pods' /\ icobj' = online' /\ SpecMet'
          /\ Online' = Pod /\ Cardinality(Primaries') = 1
          /\ IF params'.primary = NoPrimary THEN primary' \in Primaries' ELSE primary' = params'.primary
      BY <1>1, <2>1, <2>2, <2>3, <2>5, Visit
    <3>3. \A p \in Visited' : PodMet(p)' /\ InstanceMet(p)' /\ <<p, "sidecar">> \notin flaws'
      BY <1>1, <1>3, <2>2, <2>3, <2>4, <2>5, <3>1, Visit
    <3> QED BY <2>4, <3>2, <3>3 DEF ReadInv, Visiting
  <2> QED BY <2>1, <2>4, <2>5 DEF ReadInv, Visiting
<1> QED BY <1>1, <1>2, <1>3 DEF CheckSidecar, Pod

LEMMA ReadRouters ==
  ASSUME CheckInv, QuietVerdict, CheckRouters
  PROVE  ReadInv' /\ QuietVerdict'
<1>1. CASE RoutersRun /\ Return("nil")
  BY <1>1, ReadReturn, FindingsHealthy DEF CheckRouters
<1>2. CASE ~RoutersRun /\ Error
  BY <1>2, ReadReturn, HealthyFindings DEF Error
<1> QED BY <1>1, <1>2 DEF CheckRouters

\* A failure ends the check, and says nothing of the cluster.
LEMMA ReadFails ==
  ASSUME CheckInv, QuietVerdict, QueryFails \/ \E label \in Labels : CallFails(label)
  PROVE  ReadInv' /\ QuietVerdict'
<1>1. CASE QueryFails
  <2>1. failed' \/ ~Healthy
    BY <1>1 DEF QueryFails, Healthy, Online, CheckInv, DataTypeOK, ClusterTypeOK, CallTypeOK
  <2> QED BY <1>1, <2>1, ReadReturn DEF QueryFails
<1>2. CASE \E label \in Labels : CallFails(label)
  BY <1>2, ReadReturn DEF CallFails
<1> QED BY <1>1, <1>2

\* The first two facts of the induction.
LEMMA ReadStep ==
  ASSUME CheckInv, QuietVerdict, Begin \/ CheckStep \/ ClusterChange
  PROVE  ReadInv' /\ QuietVerdict'
<1>1. CASE Begin \/ ClusterChange
  BY <1>1, ReadBegin, ReadChange
<1>2. CASE CheckStep
  <2>1. CASE \/ PollRouters \/ GetInnoDBCluster \/ GetPod \/ CheckSpec
             \/ OpenSession("openGroup", "queryGroup") \/ OpenFails("openGroup") \/ CheckGroup
    BY <2>1, ReadPollRouters, ReadGetInnoDBCluster, ReadGetPod, ReadSpec, ReadOpen, ReadGroup
  <2>2. CASE \/ CheckOnlinePod \/ LookAgain \/ LabelsDone
             \/ OpenSession("openInstance", "queryInstance") \/ OpenFails("openInstance") \/ CheckInstance
             \/ CheckSidecar \/ CheckRouters
    BY <2>2, ReadOnlinePod, ReadLabels, ReadOpen, ReadInstance, ReadSidecar, ReadRouters
  <2>3. CASE QueryFails \/ \E label \in {"wait", "get", "getPod", "spec", "labels", "sidecar", "routers"} : CallFails(label)
    BY <2>3, ReadFails DEF Labels
  <2> QED BY <1>2, <2>1, <2>2, <2>3 DEF CheckStep
<1> QED BY <1>1, <1>2

-----------------------------------------------------------------------------
(* Types. *)

LEMMA TypeChange ==
  ASSUME CheckInv, ClusterChange, UNCHANGED data_vars
  PROVE  DataTypeOK'
<1>1. /\ pods \in [Pod -> PodObject] /\ online \in 0..N
      /\ member \in [Pod -> {"PRIMARY", "SECONDARY", "OFFLINE"}]
      /\ routers \in [pods : 0..R, running : 0..R]
  BY DEF CheckInv, DataTypeOK, ClusterTypeOK
<1>2. ASSUME /\ pods' \in [Pod -> PodObject] /\ online' \in 0..N
             /\ member' \in [Pod -> {"PRIMARY", "SECONDARY", "OFFLINE"}]
             /\ routers' \in [pods : 0..R, running : 0..R]
             /\ Change
      PROVE  DataTypeOK'
  <2>1. changes' \in 0..MaxChanges
    BY <1>2 DEF Change, CheckInv, DataTypeOK, ClusterTypeOK
  <2>2. CallTypeOK'
    BY <1>2 DEF Change, CheckInv, DataTypeOK, ClusterTypeOK, CallTypeOK
  <2>3. ClusterTypeOK'
    BY <1>2, <2>1, <2>2 DEF Change, CheckInv, DataTypeOK, ClusterTypeOK
  <2> QED BY <1>2, <2>3 DEF Change, CheckInv, DataTypeOK, data_vars
<1>3. ASSUME NEW p \in Pod, NEW object \in PodObject, Down(p, object)
      PROVE  DataTypeOK'
  <2>1. /\ pods' = [pods EXCEPT ![p] = object] /\ Change /\ UNCHANGED <<online, routers>>
        /\ \/ \E q \in Online \ {p} : member' = [member EXCEPT ![p] = "OFFLINE", ![q] = "PRIMARY"]
           \/ member' = [member EXCEPT ![p] = "OFFLINE"]
    BY <1>3 DEF Down
  <2>2. member' \in [Pod -> {"PRIMARY", "SECONDARY", "OFFLINE"}]
    BY <1>1, <2>1 DEF Online
  <2> QED BY <1>1, <1>2, <2>1, <2>2
<1>4. ASSUME NEW p \in Pod, Crash(p) \/ Delete(p) PROVE DataTypeOK'
  <2>1. Gone \in PodObject /\ [pods[p] EXCEPT !.ready = FALSE, !.restarted = TRUE] \in PodObject
    BY <1>1 DEF Gone, PodObject
  <2> QED BY <1>3, <1>4, <2>1 DEF Crash, Delete
<1>5. ASSUME NEW p \in Pod, Up(p) PROVE DataTypeOK'
  <2>1. [pods[p] EXCEPT !.exists = TRUE, !.ready = TRUE] \in PodObject
    BY <1>1 DEF PodObject
  <2>2. pods' \in [Pod -> PodObject]
    BY <1>1, <1>5, <2>1 DEF Up
  <2> QED BY <1>1, <1>2, <1>5, <2>2 DEF Up
<1>6. ASSUME NEW p \in Pod, SetPrimary(p) PROVE DataTypeOK'
  BY <1>1, <1>2, <1>6 DEF SetPrimary
<1>7. ASSUME NEW p \in Pod, Relabel(p) PROVE DataTypeOK'
  <2>1. member[p] \in {"PRIMARY", "SECONDARY"}
    BY <1>1, <1>7 DEF Relabel, Online
  <2>2. [pods[p] EXCEPT !.label = member[p]] \in PodObject
    BY <1>1, <2>1 DEF PodObject
  <2>3. pods' \in [Pod -> PodObject]
    BY <1>1, <1>7, <2>2 DEF Relabel
  <2> QED BY <1>1, <1>2, <1>7, <2>3 DEF Relabel
<1>8. CASE Report
  BY <1>1, <1>2, <1>8, PodsFinite DEF Report, Online
<1>9. CASE RouterChange
  BY <1>1, <1>2, <1>9 DEF RouterChange
<1> QED BY <1>4, <1>5, <1>6, <1>7, <1>8, <1>9 DEF ClusterChange

\* What a call of CheckAll may change.
LEMMA TypeCall ==
  ASSUME CheckInv, UNCHANGED <<cluster_vars, params, quiet, data_vars>>, pc' \in Labels,
         icobj' \in 0..N, allPods' \in [Pod -> PodObject], primary' \in Pod \cup {NoPrimary}, at' \in Pod,
         look' \in {"PRIMARY", "SECONDARY", "none"}, trials' \in Nat, sessions' \in Nat, forwards' \in Nat,
         result' \in {"none", "nil", "error"}, failed' \in BOOLEAN
  PROVE  DataTypeOK'
<1>1. CallTypeOK'
  BY DEF CheckInv, DataTypeOK, ClusterTypeOK, CallTypeOK
<1>2. ClusterTypeOK'
  BY <1>1 DEF CheckInv, DataTypeOK, ClusterTypeOK, cluster_vars
<1> QED BY <1>2 DEF CheckInv, DataTypeOK, DataLabels, data_vars

LEMMA TypeCheck ==
  ASSUME CheckInv, Begin \/ CheckStep, UNCHANGED data_vars
  PROVE  DataTypeOK'
<1>1. /\ icobj \in 0..N /\ allPods \in [Pod -> PodObject] /\ pods \in [Pod -> PodObject]
      /\ primary \in Pod \cup {NoPrimary} /\ at \in Pod
      /\ look \in {"PRIMARY", "SECONDARY", "none"} /\ trials \in Nat /\ sessions \in Nat /\ forwards \in Nat
      /\ result \in {"none", "nil", "error"} /\ failed \in BOOLEAN /\ online \in 0..N /\ params \in Params
  BY DEF CheckInv, DataTypeOK, ClusterTypeOK, CallTypeOK
<1>2. \A next : Goto(next) => /\ pc' = next
                              /\ UNCHANGED <<cluster_vars, params, quiet, result, failed>>
  BY DEF Goto
<1>3. \A what : Return(what) => /\ pc' = "done" /\ result' = what
                                /\ UNCHANGED <<cluster_vars, params, quiet>>
  BY DEF Return
<1>4. Error => /\ pc' = "done" /\ result' = "error"
               /\ UNCHANGED <<cluster_vars, params, quiet, failed>>
  BY <1>3 DEF Error
<1>5. CASE Begin
  BY <1>1, <1>2, <1>5, TypeCall DEF Begin, Kept, Labels
<1>6. CASE PollRouters
  <2>1. trials' \in Nat
    BY <1>1, <1>6 DEF PollRouters, CheckInv, SessionInv
  <2> QED BY <1>1, <1>2, <1>4, <1>6, <2>1, TypeCall DEF PollRouters, Kept, Labels
<1>7. CASE GetInnoDBCluster
  BY <1>1, <1>2, <1>7, TypeCall DEF GetInnoDBCluster, Kept, Labels, Pod
<1>8. CASE GetPod
  <2>1. at' \in Pod /\ allPods' \in [Pod -> PodObject]
    BY <1>1, <1>8 DEF GetPod, Pod
  <2> QED BY <1>1, <1>2, <1>4, <1>8, <2>1, TypeCall DEF GetPod, Kept, Labels
<1>9. CASE CheckSpec
  BY <1>1, <1>2, <1>4, <1>9, TypeCall DEF CheckSpec, Kept, Labels, Pod
<1>10. ASSUME NEW label, NEW next \in Labels, OpenSession(label, next)
       PROVE  DataTypeOK'
  BY <1>1, <1>2, <1>10, TypeCall DEF OpenSession
<1>11. ASSUME NEW label \in {"openGroup", "openInstance"}, OpenFails(label)
       PROVE  DataTypeOK'
  <2>1. trials' \in Nat
    BY <1>1, <1>11 DEF OpenFails, CheckInv, SessionInv, Open
  <2>2. failed' \in BOOLEAN
    BY <1>1, <1>2, <1>11 DEF OpenFails
  <2> QED BY <1>1, <1>2, <1>3, <1>11, <2>1, <2>2, TypeCall DEF OpenFails, Labels
<1>12. CASE CheckGroup
  <2>1. sessions' \in Nat /\ forwards' \in Nat
    BY <1>1, <1>12 DEF CheckGroup, Closed, CheckInv, SessionInv
  <2>2. primary' \in Pod \cup {NoPrimary}
    BY <1>1, <1>12 DEF CheckGroup, Primaries
  <2> QED BY <1>1, <1>2, <1>4, <1>12, <2>1, <2>2, TypeCall DEF CheckGroup, Labels
<1>13. CASE CheckOnlinePod
  <2>1. look' \in {"PRIMARY", "SECONDARY", "none"}
    BY <1>1, <1>13 DEF CheckOnlinePod, PodObject
  <2> QED BY <1>1, <1>2, <1>4, <1>13, <2>1, TypeCall DEF CheckOnlinePod, Kept, Labels
<1>14. CASE LookAgain
  <2>1. look' \in {"PRIMARY", "SECONDARY", "none"} /\ trials' \in Nat
    BY <1>1, <1>14 DEF LookAgain, PodObject
  <2> QED BY <1>1, <1>2, <1>4, <1>14, <2>1, TypeCall DEF LookAgain, Kept, Labels
<1>15. CASE LabelsDone
  BY <1>1, <1>2, <1>15, TypeCall DEF LabelsDone, Kept, Labels
<1>16. CASE CheckInstance
  BY <1>1, <1>2, <1>4, <1>16, TypeCall DEF CheckInstance, Kept, Labels
<1>17. CASE CheckSidecar
  <2>1. at' \in Pod
    BY <1>1, <1>17 DEF CheckSidecar, Pod
  <2> QED BY <1>1, <1>2, <1>4, <1>17, <2>1, TypeCall DEF CheckSidecar, Kept, Labels
<1>18. CASE CheckRouters
  BY <1>1, <1>3, <1>4, <1>18, TypeCall DEF CheckRouters, Kept, Labels
<1>19. CASE QueryFails
  <2>1. sessions' \in Nat /\ forwards' \in Nat
    BY <1>1, <1>19 DEF QueryFails, Closed, Kept, CheckInv, SessionInv
  <2> QED BY <1>1, <1>3, <1>19, <2>1, TypeCall DEF QueryFails, Labels
<1>20. ASSUME NEW label, CallFails(label)
       PROVE  DataTypeOK'
  BY <1>1, <1>3, <1>20, TypeCall DEF CallFails, Kept, Labels
<1> QED BY <1>5, <1>6, <1>7, <1>8, <1>9, <1>10, <1>11, <1>12, <1>13, <1>14, <1>15, <1>16, <1>17, <1>18, <1>19, <1>20
        DEF CheckStep, Labels

-----------------------------------------------------------------------------
(* Sessions, and the processes that trials leave behind. *)

\* What is known of the sessions of CheckAll at each of its steps.
LEMMA SessionFacts ==
  ASSUME CheckInv
  PROVE  /\ at \in Pod /\ trials \in Nat /\ sessions \in Nat /\ forwards \in Nat /\ forwards >= sessions
         /\ Leaks(0) \in Nat /\ Leaks(1) \in Nat /\ Leaks(at + 1) \in Nat /\ Leaks(at + 2) \in Nat
         /\ Leaks(N + 1) \in Nat /\ Leaks(2 * N + 1) \in Nat
         /\ Leaks(1) = Leaks(0) + (MaxTrials - 1) /\ Leaks(at + 2) = Leaks(at + 1) + (MaxTrials - 1)
         /\ Leaks(0) <= Leaks(N + 1) /\ Leaks(1) <= Leaks(at + 1) /\ Leaks(at + 2) <= Leaks(N + 1) /\ Leaks(N + 1) <= Leaks(2 * N + 1)
<1>1. at \in Nat /\ at + 1 <= N
  BY DEF CheckInv, DataTypeOK, ClusterTypeOK, CallTypeOK, Pod
<1>2. \A k \in {0, 1, at + 1, at + 2, N + 1, 2 * N + 1} : Leaks(k) \in Nat
  BY <1>1, LeaksGrow
<1>3. Leaks(1) = Leaks(0) + (MaxTrials - 1)
  <2>1. Leaks(0 + 1) = Leaks(0) + (MaxTrials - 1)
    BY LeaksGrow
  <2> QED BY <2>1
<1>4. Leaks(at + 2) = Leaks(at + 1) + (MaxTrials - 1)
  <2>1. Leaks((at + 1) + 1) = Leaks(at + 1) + (MaxTrials - 1)
    BY <1>1, LeaksGrow
  <2>2. (at + 1) + 1 = at + 2
    BY <1>1
  <2> QED BY <2>1, <2>2
<1>5. Leaks(0) <= Leaks(N + 1) /\ Leaks(1) <= Leaks(at + 1) /\ Leaks(at + 2) <= Leaks(N + 1) /\ Leaks(N + 1) <= Leaks(2 * N + 1)
  <2>1. /\ 0 \in Nat /\ 1 \in Nat /\ at + 1 \in Nat /\ at + 2 \in Nat /\ N + 1 \in Nat /\ 2 * N + 1 \in Nat
        /\ 0 <= N + 1 /\ 1 <= at + 1 /\ at + 2 <= N + 1 /\ N + 1 <= 2 * N + 1
    BY <1>1
  <2> QED BY ONLY <2>1, LeaksGrow
<1> QED BY <1>2, <1>3, <1>4, <1>5 DEF CheckInv, DataTypeOK, ClusterTypeOK, CallTypeOK, SessionInv

\* The check ends with an error: all its sessions but those of the pods are
\* closed, and one trial more than usual may have been made.
LEMMA SessionEnds ==
  ASSUME CheckInv, pc' = "done", result' = "error", opened' = 0,
         sessions' \in 0..N, forwards' \in Nat, forwards' >= sessions',
         forwards' <= sessions' + Leaks(N + 1) + 1
  PROVE  SessionInv'
<1>1. forwards' <= sessions' + Leaks(2 * N + 1) + 1
  BY SessionFacts
<1> QED BY <1>1 DEF SessionInv, Labels, DataLabels, Queries, Open, Polling, Asking, Comparing

\* Before it ends, the trials made so far are few enough for an error.
LEMMA SessionMayEnd ==
  ASSUME CheckInv, pc \in Labels \ {"done"}
  PROVE  /\ opened = 0
         /\ pc # "queryGroup" => sessions \in 0..N
         /\ pc = "queryGroup" => sessions = 1 /\ forwards >= 1
         /\ forwards >= sessions
         /\ forwards <= sessions + Leaks(N + 1)
         /\ pc \in {"openGroup", "openInstance"} => forwards <= sessions + Leaks(N + 1) - trials + 1
<1>1. /\ opened = 0 /\ forwards >= sessions
      /\ forwards <= sessions + Leaks(Opened) + (IF pc \in Open THEN MaxTrials - trials ELSE 0)
      /\ pc # "queryGroup" => sessions \in 0..N
      /\ pc = "queryGroup" => sessions = 1
  BY SessionFacts DEF CheckInv, SessionInv, Labels, Polling, Pod
<1>2. CASE pc \in Polling \ {"openGroup"}
  <2>1. Opened = 0 /\ pc \notin Open
    BY <1>2 DEF Opened, Polling, Open
  <2> QED BY <1>1, <1>2, <2>1, SessionFacts DEF Polling
<1>3. CASE pc = "openGroup"
  <2>1. Opened = 0 /\ pc \in Open /\ trials > 0
    BY <1>3 DEF Opened, Polling, Open, CheckInv, SessionInv
  <2> QED BY <1>1, <1>3, <2>1, SessionFacts
<1>4. CASE pc = "queryGroup"
  <2>1. Opened = 1 /\ pc \notin Open
    BY <1>4 DEF Opened, Polling, Open
  <2> QED BY <1>1, <1>4, <2>1, SessionFacts
<1>5. CASE pc \in {"pod", "labels"}
  <2>1. Opened = at + 1 /\ pc \notin Open
    BY <1>5 DEF Opened, Polling, Open
  <2> QED BY <1>1, <1>5, <2>1, SessionFacts
<1>6. CASE pc = "openInstance"
  <2>1. Opened = at + 1 /\ pc \in Open /\ trials > 0
    BY <1>6 DEF Opened, Polling, Open, CheckInv, SessionInv
  <2> QED BY <1>1, <1>6, <2>1, SessionFacts
<1>7. CASE pc \in {"queryInstance", "sidecar"}
  <2>1. Opened = at + 2 /\ pc \notin Open
    BY <1>7 DEF Opened, Polling, Open
  <2> QED BY <1>1, <1>7, <2>1, SessionFacts
<1>8. CASE pc = "routers"
  <2>1. Opened = N + 1 /\ pc \notin Open
    BY <1>8 DEF Opened, Polling, Open, Asking, Comparing
  <2> QED BY <1>1, <1>8, <2>1, SessionFacts
<1> QED BY <1>2, <1>3, <1>4, <1>5, <1>6, <1>7, <1>8 DEF Labels, Polling

\* A step before the first session.
LEMMA SessionPolling ==
  ASSUME CheckInv, pc \in Polling \ {"openGroup"}, pc' \in Polling, Kept, UNCHANGED opened,
         pc' \in {"idle", "wait", "openGroup"} => trials' > 0,
         pc' = "openGroup" => trials' <= MaxTrials /\ at' = 0,
         trials' \in Nat
  PROVE  SessionInv'
<1>1. opened = 0 /\ sessions = 0 /\ forwards >= 0 /\ forwards <= Leaks(0)
  <2>1. Opened = 0 /\ pc \notin Open
    BY DEF Opened, Polling, Open
  <2> QED BY <2>1, SessionFacts DEF CheckInv, SessionInv, Polling, Labels
<1>2. Opened' = 0 /\ sessions' = 0 /\ forwards' = forwards /\ opened' = 0
  BY <1>1 DEF Opened, Kept
<1>3. pc' \in Open => trials' > 0 /\ trials' <= MaxTrials
  BY DEF Open, Polling
<1>4. forwards' <= sessions' + Leaks(Opened') + (IF pc' \in Open THEN MaxTrials - trials' ELSE 0)
  BY <1>1, <1>2, <1>3, SessionFacts
<1> QED BY <1>1, <1>2, <1>3, <1>4 DEF SessionInv, Polling, Labels, DataLabels, Queries, Open, Asking, Comparing

\* An error of a step that leaves the sessions as they are.
LEMMA SessionError ==
  ASSUME CheckInv, pc \in Labels \ {"done", "queryGroup"}, pc' = "done", result' = "error", Kept, UNCHANGED opened
  PROVE  SessionInv'
<1>1. /\ opened' = 0 /\ sessions' \in 0..N /\ forwards' \in Nat /\ forwards' >= sessions'
      /\ forwards' <= sessions' + Leaks(N + 1) + 1
  BY SessionMayEnd, SessionFacts DEF Kept
<1> QED BY <1>1, SessionEnds

\* The session of CheckGroup is closed whatever it found.
LEMMA SessionCloses ==
  ASSUME CheckInv, pc = "queryGroup", Closed, UNCHANGED opened, UNCHANGED at,
         (pc' = "done" /\ result' = "error") \/ pc' = "pod"
  PROVE  SessionInv'
<1>1. at = 0 /\ sessions = 1 /\ opened = 0 /\ forwards >= 1 /\ forwards <= 1 + Leaks(1)
  <2>1. Opened = 1 /\ pc \notin Open
    BY DEF Opened, Polling, Open
  <2> QED BY <2>1, SessionFacts DEF CheckInv, SessionInv, Labels
<1>2. sessions' = 0 /\ forwards' = forwards - 1 /\ opened' = 0 /\ forwards' \in Nat
  BY <1>1, SessionFacts DEF Closed
<1>3. CASE pc' = "done" /\ result' = "error"
  BY <1>1, <1>2, <1>3, SessionEnds, SessionFacts
<1>4. CASE pc' = "pod"
  <2>1. Opened' = 1 /\ pc' \notin Open
    BY <1>1, <1>4 DEF Opened, Polling, Open
  <2> QED BY <1>1, <1>2, <1>4, <2>1, SessionFacts DEF SessionInv, Labels, DataLabels, Queries, Open, Polling, Asking, Comparing
<1> QED BY <1>3, <1>4

\* A trial of NewSession in CheckAll succeeds.
LEMMA SessionOpens ==
  ASSUME CheckInv, UNCHANGED opened,
         OpenSession("openGroup", "queryGroup") \/ OpenSession("openInstance", "queryInstance")
  PROVE  SessionInv'
<1>1. /\ sessions' = sessions + 1 /\ forwards' = forwards + 1 /\ at' = at
      /\ \/ pc = "openGroup" /\ pc' = "queryGroup"
         \/ pc = "openInstance" /\ pc' = "queryInstance"
  BY DEF OpenSession, Goto
<1>2. /\ opened' = 0 /\ trials > 0 /\ forwards >= sessions
      /\ forwards <= sessions + Leaks(Opened) + MaxTrials - trials
  BY <1>1, SessionFacts DEF CheckInv, SessionInv, Open, Labels
<1>3. CASE pc = "openGroup"
  <2>1. sessions = 0 /\ at = 0 /\ Opened = 0 /\ Opened' = 1
    BY <1>1, <1>3 DEF CheckInv, SessionInv, Polling, Opened
  <2>2. forwards' <= sessions' + Leaks(1)
    BY <1>1, <1>2, <2>1, SessionFacts
  <2> QED BY <1>1, <1>2, <1>3, <2>1, <2>2, SessionFacts DEF SessionInv, Labels, DataLabels, Queries, Open, Polling, Asking, Comparing
<1>4. CASE pc = "openInstance"
  <2>1. sessions = at /\ Opened = at + 1 /\ Opened' = at + 2
    BY <1>1, <1>4 DEF CheckInv, SessionInv, Polling, Opened
  <2>2. forwards' <= sessions' + Leaks(at + 2)
    BY <1>1, <1>2, <2>1, SessionFacts
  <2> QED BY <1>1, <1>2, <1>4, <2>1, <2>2, SessionFacts DEF SessionInv, Labels, DataLabels, Queries, Open, Polling, Asking, Comparing
<1> QED BY <1>1, <1>3, <1>4

\* It fails, for the last time or not.
LEMMA SessionFails ==
  ASSUME CheckInv, UNCHANGED opened, OpenFails("openGroup") \/ OpenFails("openInstance")
  PROVE  SessionInv'
<1>1. /\ pc \in {"openGroup", "openInstance"} /\ forwards' \in {forwards, forwards + 1}
      /\ trials' = trials - 1 /\ sessions' = sessions /\ at' = at
      /\ \/ trials > 1 /\ pc' = pc
         \/ pc' = "done" /\ result' = "error"
  BY DEF OpenFails, Goto, Return
<1>2. /\ opened' = 0 /\ trials > 0 /\ trials <= MaxTrials /\ forwards >= sessions
      /\ forwards <= sessions + Leaks(Opened) + MaxTrials - trials
  BY <1>1, SessionFacts DEF CheckInv, SessionInv, Open, Labels
<1>3. CASE pc' = "done" /\ result' = "error"
  <2>1. sessions' \in 0..N /\ forwards' \in Nat /\ forwards' >= sessions' /\ forwards' <= sessions' + Leaks(N + 1) + 1
    BY <1>1, <1>2, SessionMayEnd, SessionFacts DEF Labels
  <2> QED BY <1>2, <1>3, <2>1, SessionEnds
<1>4. CASE trials > 1 /\ pc' = pc
  <2>1. Opened' = Opened /\ Leaks(Opened) \in Nat
    BY <1>1, <1>4, SessionFacts DEF Opened, Polling
  <2>2. trials' > 0 /\ trials' <= MaxTrials /\ forwards' >= sessions'
        /\ forwards' <= sessions' + Leaks(Opened') + MaxTrials - trials'
    BY <1>1, <1>2, <1>4, <2>1, SessionFacts
  <2> QED BY <1>1, <1>2, <1>4, <2>2 DEF CheckInv, SessionInv, Labels, DataLabels, Queries, Open, Polling, Asking, Comparing
<1> QED BY <1>1, <1>3, <1>4

\* A step of a visit that opens and closes nothing.
LEMMA SessionVisit ==
  ASSUME CheckInv, Kept, UNCHANGED opened,
         \/ /\ pc \in {"pod", "labels"} /\ pc' \in {"labels", "openInstance"} /\ at' = at
            /\ pc' = "openInstance" => trials' = MaxTrials
         \/ pc = "queryInstance" /\ pc' = "sidecar" /\ at' = at
         \/ pc = "sidecar" /\ pc' = "pod" /\ at' = at + 1
         \/ pc = "sidecar" /\ pc' = "routers" /\ at' = at /\ at = N - 1
         \/ pc = "routers" /\ pc' = "done" /\ result' = "nil"
  PROVE  SessionInv'
<1>1. Opened' = Opened /\ Leaks(Opened) \in Nat
  <2>1. CASE pc \in {"pod", "labels"}
    <3>1. Opened = at + 1 /\ Opened' = at + 1
      BY <2>1 DEF Opened, Polling
    <3> QED BY <3>1, SessionFacts
  <2>2. CASE pc = "queryInstance"
    <3>1. Opened = at + 2 /\ Opened' = at + 2
      BY <2>2 DEF Opened, Polling
    <3> QED BY <3>1, SessionFacts
  <2>3. CASE pc = "sidecar"
    <3>1. Opened = at + 2
      BY <2>3 DEF Opened, Polling
    <3>2. at \in Int
      BY SessionFacts DEF Pod
    <3>3. CASE pc' = "pod" /\ at' = at + 1
      <4>1. Opened' = at' + 1
        BY <3>3 DEF Opened, Polling
      <4> QED BY <3>1, <3>2, <3>3, <4>1, SessionFacts
    <3>4. CASE pc' = "routers" /\ at = N - 1
      <4>1. Opened' = N + 1
        BY <3>4 DEF Opened, Polling, Asking, Comparing
      <4> QED BY <3>1, <3>2, <3>4, <4>1, SessionFacts
    <3> QED BY <2>3, <3>3, <3>4
  <2>4. CASE pc = "routers"
    <3>1. Opened = N + 1 /\ Opened' = N + 1
      BY <2>4 DEF Opened, Polling, Asking, Comparing
    <3> QED BY <3>1, SessionFacts
  <2> QED BY <2>1, <2>2, <2>3, <2>4
<1>2. /\ opened' = 0 /\ forwards >= sessions /\ forwards <= sessions + Leaks(Opened) /\ pc \notin Open
      /\ sessions' = sessions /\ forwards' = forwards
  <2>1. pc \in {"pod", "labels", "queryInstance", "sidecar", "routers"}
    OBVIOUS
  <2>2. pc \in Labels /\ pc \notin Open /\ pc \notin {"end", "done"}
    BY <2>1 DEF Labels, Open
  <2>3. SessionInv
    BY DEF CheckInv
  <2>4. opened = 0
    BY <2>2, <2>3 DEF SessionInv
  <2>5. forwards >= sessions /\ forwards <= sessions + Leaks(Opened)
    BY <1>1, <2>2, <2>3, SessionFacts DEF SessionInv
  <2> QED BY <2>2, <2>4, <2>5 DEF Kept
<1>3. pc' \in Open => trials' > 0 /\ trials' <= MaxTrials
  BY DEF Open
<1>4. forwards' <= sessions' + Leaks(Opened') + (IF pc' \in Open THEN MaxTrials - trials' ELSE 0)
  BY <1>1, <1>2, <1>3, SessionFacts DEF Open
<1>5. /\ pc' \in {"pod", "labels", "openInstance"} => sessions' = at'
      /\ pc' = "sidecar" => sessions' = at' + 1
      /\ pc' \in {"routers", "done"} => sessions' = N
  <2>1. /\ pc \in {"pod", "labels", "openInstance"} => sessions = at
        /\ pc \in {"queryInstance", "sidecar"} => sessions = at + 1
        /\ pc = "routers" => sessions = N
    BY DEF CheckInv, SessionInv
  <2>2. at \in Nat /\ sessions' = sessions
    BY <1>2, SessionFacts DEF Pod
  <2> QED BY <2>1, <2>2
<1>6. /\ pc' \in {"pod", "labels", "openInstance", "sidecar", "routers", "done"} /\ (pc' = "done" => result' = "nil")
      /\ opened' = 0 /\ forwards' >= sessions'
  BY <1>2
<1> QED BY <1>3, <1>4, <1>5, <1>6 DEF SessionInv, Labels, DataLabels, Queries, Open, Polling, Asking, Comparing

LEMMA SessionCheck ==
  ASSUME CheckInv, Begin \/ CheckStep, UNCHANGED data_vars
  PROVE  SessionInv'
<1>1. UNCHANGED opened
  BY DEF data_vars
<1>2. \A next : Goto(next) => pc' = next
  BY DEF Goto
<1>3. Error => pc' = "done" /\ result' = "error"
  BY DEF Error, Return
<1>4. at \in Pod /\ trials \in Nat
  BY SessionFacts
<1>5. CASE Begin
  <2>1. trials > 0
    BY <1>5 DEF Begin, CheckInv, SessionInv
  <2> QED BY <1>1, <1>2, <1>4, <1>5, <2>1, SessionPolling DEF Begin, Polling
<1>6. CASE PollRouters
  <2>1. pc = "wait" /\ Kept /\ trials > 0
    BY <1>6 DEF PollRouters, CheckInv, SessionInv
  <2>2. CASE Goto("get") /\ trials' = MaxTrials
    BY <1>1, <1>2, <2>1, <2>2, SessionPolling DEF Polling
  <2>3. CASE trials > 1 /\ Goto("wait") /\ trials' = trials - 1
    BY <1>1, <1>2, <1>4, <2>1, <2>3, SessionPolling DEF Polling
  <2>4. CASE Error
    BY <1>1, <1>3, <2>1, <2>4, SessionError DEF Labels
  <2> QED BY <1>4, <1>6, <2>2, <2>3, <2>4 DEF PollRouters
<1>7. CASE GetInnoDBCluster
  BY <1>1, <1>2, <1>4, <1>7, SessionPolling DEF GetInnoDBCluster, Polling
<1>8. CASE GetPod
  <2>1. pc = "getPod" /\ Kept /\ trials' = trials
    BY <1>8 DEF GetPod
  <2>2. CASE Goto("getPod") \/ Goto("spec")
    BY <1>1, <1>2, <1>4, <2>1, <2>2, SessionPolling DEF Polling
  <2>3. CASE Error
    BY <1>1, <1>3, <2>1, <2>3, SessionError DEF Labels
  <2> QED BY <1>8, <2>2, <2>3 DEF GetPod
<1>9. CASE CheckSpec
  <2>1. pc = "spec" /\ Kept /\ trials' = MaxTrials /\ at' = 0
    BY <1>9 DEF CheckSpec
  <2>2. CASE Goto("openGroup")
    BY <1>1, <1>2, <2>1, <2>2, SessionPolling DEF Polling
  <2>3. CASE Error
    BY <1>1, <1>3, <2>1, <2>3, SessionError DEF Labels
  <2> QED BY <1>9, <2>2, <2>3 DEF CheckSpec
<1>10. CASE \/ OpenSession("openGroup", "queryGroup") \/ OpenFails("openGroup")
            \/ OpenSession("openInstance", "queryInstance") \/ OpenFails("openInstance")
  BY <1>1, <1>10, SessionOpens, SessionFails
<1>11. CASE CheckGroup
  BY <1>1, <1>2, <1>3, <1>11, SessionCloses DEF CheckGroup
<1>12. CASE CheckOnlinePod \/ LookAgain \/ LabelsDone
  <2>1. /\ pc \in {"pod", "labels"} /\ Kept /\ at' = at
        /\ Goto("labels") \/ (Goto("openInstance") /\ trials' = MaxTrials) \/ Error
    BY <1>12 DEF CheckOnlinePod, LookAgain, LabelsDone
  <2>2. CASE Error
    BY <1>1, <1>3, <2>1, <2>2, SessionError DEF Labels
  <2>3. CASE Goto("labels") \/ (Goto("openInstance") /\ trials' = MaxTrials)
    <3>1. pc' \in {"labels", "openInstance"} /\ (pc' = "openInstance" => trials' = MaxTrials)
      BY <1>2, <2>3
    <3> QED BY <1>1, <2>1, <3>1, SessionVisit
  <2> QED BY <2>1, <2>2, <2>3
<1>13. CASE CheckInstance
  <2>1. pc = "queryInstance" /\ Kept /\ at' = at /\ (Goto("sidecar") \/ Error)
    BY <1>13 DEF CheckInstance
  <2>2. CASE Error
    BY <1>1, <1>3, <2>1, <2>2, SessionError DEF Labels
  <2> QED BY <1>1, <1>2, <2>1, <2>2, SessionVisit
<1>14. CASE CheckSidecar
  <2>1. /\ pc = "sidecar" /\ Kept
        /\ \/ Error
           \/ Goto("pod") /\ at' = at + 1
           \/ Goto("routers") /\ at' = at /\ at = N - 1
    BY <1>4, <1>14 DEF CheckSidecar, Pod
  <2>2. CASE Error
    BY <1>1, <1>3, <2>1, <2>2, SessionError DEF Labels
  <2> QED BY <1>1, <1>2, <2>1, <2>2, SessionVisit
<1>15. CASE CheckRouters
  <2>1. pc = "routers" /\ Kept /\ (Return("nil") \/ Error)
    BY <1>15 DEF CheckRouters
  <2>2. CASE Error
    BY <1>1, <1>3, <2>1, <2>2, SessionError DEF Labels
  <2>3. CASE Return("nil")
    <3>1. pc' = "done" /\ result' = "nil"
      BY <2>3 DEF Return
    <3> QED BY <1>1, <2>1, <3>1, SessionVisit
  <2> QED BY <2>1, <2>2, <2>3
<1>16. CASE QueryFails
  <2>1. pc' = "done" /\ result' = "error"
    BY <1>16 DEF QueryFails, Return
  <2>2. CASE pc = "queryGroup"
    BY <1>1, <1>16, <2>1, <2>2, SessionCloses DEF QueryFails
  <2>3. CASE pc = "queryInstance"
    BY <1>1, <1>16, <2>1, <2>3, SessionError DEF QueryFails, Labels
  <2> QED BY <1>16, <2>2, <2>3 DEF QueryFails
<1>17. ASSUME NEW label \in {"wait", "get", "getPod", "spec", "labels", "sidecar", "routers"}, CallFails(label)
       PROVE  SessionInv'
  <2>1. pc = label /\ pc' = "done" /\ result' = "error" /\ Kept
    BY <1>17 DEF CallFails, Return
  <2> QED BY <1>1, <2>1, SessionError DEF Labels
<1> QED BY <1>5, <1>6, <1>7, <1>8, <1>9, <1>10, <1>11, <1>12, <1>13, <1>14, <1>15, <1>16, <1>17 DEF CheckStep

\* Whatever changes in the cluster, the call stays where it is.
LEMMA ElsewhereChange ==
  ASSUME CheckInv, ClusterChange, UNCHANGED data_vars
  PROVE  SessionInv' /\ GtidInv'
<1>1. /\ UNCHANGED <<pc, params, icobj, allPods, primary, at, look, trials, sessions, forwards, result>>
  BY ChangeOfCluster DEF Change
<1>2. UNCHANGED <<executed, gtidSet0, secondaries, opened, verdict, compared>>
  BY DEF data_vars
<1>3. SessionInv'
  BY <1>1, <1>2 DEF CheckInv, SessionInv, Opened
<1>4. GtidInv'
  BY <1>1, <1>2 DEF CheckInv, GtidInv
<1> QED BY <1>3, <1>4

\* CheckAll compares no transactions.
LEMMA GtidCheck ==
  ASSUME CheckInv, Begin \/ CheckStep, UNCHANGED data_vars
  PROVE  GtidInv'
<1>1. pc \in Labels
  BY DEF Begin, CheckStep, PollRouters, GetInnoDBCluster, GetPod, CheckSpec, OpenSession, OpenFails, CheckGroup,
         CheckOnlinePod, LookAgain, LabelsDone, CheckInstance, CheckSidecar, CheckRouters, QueryFails, CallFails, Labels
<1>2. pc' \in Labels
  BY DEF Begin, CheckStep, PollRouters, GetInnoDBCluster, GetPod, CheckSpec, OpenSession, OpenFails, CheckGroup,
         CheckOnlinePod, LookAgain, LabelsDone, CheckInstance, CheckSidecar, CheckRouters, QueryFails, CallFails, Labels,
         Goto, Return, Error
<1>3. verdict = "none" /\ gtidSet0 = {} /\ compared = {}
  BY <1>1 DEF CheckInv, GtidInv
<1> QED BY <1>2, <1>3 DEF GtidInv, data_vars, Labels, Asking, Comparing

-----------------------------------------------------------------------------
(* The steps of CheckData. *)

\* What is known at each of them.
LEMMA DataFacts ==
  ASSUME CheckInv, pc \in Asking \cup Comparing \cup {"openPrimary", "openSecondary"}
  PROVE  /\ at \in Pod /\ primary \in Pod /\ secondaries \in SUBSET Pod /\ primary \notin secondaries
         /\ opened \in Nat /\ trials \in Nat /\ sessions \in Nat /\ forwards \in Nat
         /\ sessions = N + opened /\ forwards >= sessions /\ result = "nil" /\ verdict = "none"
         /\ Cardinality(secondaries) \in Nat /\ Opened \in Nat /\ Opened <= 2 * N + 1
         /\ pc \in Open => Opened + 1 <= 2 * N + 1 /\ trials > 0 /\ trials <= MaxTrials
         /\ pc \notin Open => trials = MaxTrials
         /\ forwards <= sessions + Leaks(Opened) + (IF pc \in Open THEN MaxTrials - trials ELSE 0)
         /\ pc = "openPrimary" => Opened = N + 1
         /\ pc \in Asking => Opened = N + 2 /\ Cardinality(secondaries) = N - 1
         /\ pc = "openSecondary" => Opened = 2 * N + 1 - Cardinality(secondaries)
         /\ pc \in Comparing => Opened = 2 * N + 2 - Cardinality(secondaries)
<1>1. /\ at \in Pod /\ secondaries \in SUBSET Pod /\ opened \in Nat /\ trials \in Nat
      /\ sessions \in Nat /\ forwards \in Nat
  BY DEF CheckInv, DataTypeOK, ClusterTypeOK, CallTypeOK
<1>2. pc \in DataLabels /\ pc \notin Labels \cup {"end"}
  BY DEF Asking, Comparing, DataLabels, Queries, Labels
<1>3. primary \in Pod /\ primary \notin secondaries
  BY <1>2 DEF CheckInv, GtidInv
<1>4. /\ sessions = N + opened /\ forwards >= sessions /\ result = "nil" /\ verdict = "none"
      /\ forwards <= sessions + Leaks(Opened) + (IF pc \in Open THEN MaxTrials - trials ELSE 0)
      /\ pc \in Open => trials > 0 /\ trials <= MaxTrials
      /\ pc \in Asking \cup Comparing => trials = MaxTrials
  <2>1. pc \notin {"end", "done"}
    BY <1>2 DEF Labels
  <2> QED BY <1>2, <2>1 DEF CheckInv, SessionInv
<1>5. Cardinality(Pod \ {primary}) = N - 1 /\ Cardinality(secondaries) \in Nat
  BY <1>1, <1>3, PodsFinite, OnePodLess
<1>6. pc \in {"openSecondary"} \cup Comparing => Cardinality(secondaries) >= 1
  BY <1>1, OnePodLess DEF CheckInv, GtidInv
<1>7. CASE pc = "openPrimary"
  <2>1. Opened = N + 1 /\ pc \in Open
    BY <1>7 DEF Opened, Polling, Asking, Comparing, Open
  <2> QED BY <1>1, <1>3, <1>4, <1>5, <1>7, <2>1 DEF Asking, Comparing
<1>8. CASE pc \in Asking
  <2>1. Opened = N + 2 /\ pc \notin Open
    BY <1>8 DEF Opened, Polling, Asking, Open
  <2>2. secondaries = Pod \ {primary}
    BY <1>8 DEF CheckInv, GtidInv
  <2> QED BY <1>1, <1>3, <1>4, <1>5, <1>8, <2>1, <2>2 DEF Asking, Comparing
<1>9. CASE pc = "openSecondary"
  <2>1. Opened = 2 * N + 1 - Cardinality(secondaries) /\ pc \in Open
    BY <1>9 DEF Opened, Polling, Asking, Open
  <2>2. Cardinality(secondaries) <= N - 1
    <3>1. secondaries \in SUBSET (Pod \ {primary}) /\ IsFiniteSet(Pod \ {primary})
      BY <1>1, <1>3, PodsFinite
    <3> QED BY <1>5, <3>1, FS_Subset
  <2> QED BY <1>1, <1>3, <1>4, <1>5, <1>6, <1>9, <2>1, <2>2 DEF Asking, Comparing
<1>10. CASE pc \in Comparing
  <2>1. Opened = 2 * N + 2 - Cardinality(secondaries) /\ pc \notin Open
    BY <1>10 DEF Opened, Polling, Asking, Comparing, Open
  <2>2. Cardinality(secondaries) <= N - 1
    <3>1. secondaries \in SUBSET (Pod \ {primary}) /\ IsFiniteSet(Pod \ {primary})
      BY <1>1, <1>3, PodsFinite
    <3> QED BY <1>5, <3>1, FS_Subset
  <2> QED BY <1>1, <1>3, <1>4, <1>5, <1>6, <1>10, <2>1, <2>2 DEF Asking, Comparing
<1> QED BY <1>7, <1>8, <1>9, <1>10

\* What the processes left behind come to.
LEMMA DataLeaks ==
  ASSUME CheckInv, pc \in Asking \cup Comparing \cup {"openPrimary", "openSecondary"}
  PROVE  /\ Leaks(Opened) \in Nat /\ Leaks(Opened) <= Leaks(2 * N + 1) /\ Leaks(2 * N + 1) \in Nat
         /\ Leaks(Opened + 1) = Leaks(Opened) + (MaxTrials - 1)
         /\ pc \in Open => Leaks(Opened + 1) <= Leaks(2 * N + 1)
<1>1. Opened \in Nat /\ Opened + 1 \in Nat /\ 2 * N + 1 \in Nat /\ Opened <= 2 * N + 1
  BY DataFacts
<1>2. pc \in Open => Opened + 1 <= 2 * N + 1
  BY DataFacts
<1> QED BY ONLY <1>1, <1>2, LeaksGrow

\* Every answer closes what CheckData opened.
LEMMA SessionAnswers ==
  ASSUME CheckInv, pc \in Asking \cup Comparing, NEW what, Answer(what), UNCHANGED result
  PROVE  SessionInv'
<1>1. /\ pc' = "end" /\ opened' = 0 /\ sessions' = sessions - opened /\ forwards' = forwards - opened
  BY DEF Answer
<1>2. pc \notin Open
  BY DEF Asking, Comparing, Open
<1>3. sessions' = N /\ forwards' >= sessions' /\ forwards' <= sessions' + Leaks(2 * N + 1) + 1
  BY <1>1, <1>2, DataFacts, DataLeaks
<1>4. result' = "nil"
  BY DataFacts
<1> QED BY <1>1, <1>3, <1>4 DEF SessionInv, Labels, DataLabels, Queries, Open, Polling, Asking, Comparing

\* Queries neither open nor close anything.
LEMMA SessionQueries ==
  ASSUME CheckInv, UNCHANGED <<result, verdict, sessions, forwards, opened, trials>>,
         \/ pc \in Asking /\ pc' \in Asking /\ secondaries' = secondaries
         \/ pc \in Comparing /\ pc' \in Comparing /\ secondaries' = secondaries
         \/ pc \in Asking /\ pc' = "openSecondary" /\ secondaries' = secondaries
         \/ pc \in Comparing /\ pc' = "openSecondary" /\ at \in secondaries /\ secondaries' = secondaries \ {at}
  PROVE  SessionInv'
<1>1. pc \in Asking \cup Comparing /\ pc \notin Open
  BY DEF Asking, Comparing, Open
<1>2. /\ sessions' = N + opened' /\ forwards' >= sessions' /\ result' = "nil" /\ verdict' = "none"
      /\ trials' = MaxTrials /\ forwards' <= sessions' + Leaks(Opened) /\ Leaks(Opened) \in Nat
  BY <1>1, DataFacts, DataLeaks
<1>3. Opened' = Opened
  <2>1. CASE pc \in Asking /\ pc' \in Asking
    BY <2>1 DEF Opened, Polling, Asking
  <2>2. CASE pc \in Comparing /\ pc' \in Comparing /\ secondaries' = secondaries
    BY <2>2 DEF Opened, Polling, Asking, Comparing
  <2>3. CASE pc \in Asking /\ pc' = "openSecondary" /\ secondaries' = secondaries
    <3>1. Opened' = 2 * N + 1 - Cardinality(secondaries)
      BY <2>3 DEF Opened, Polling, Asking
    <3> QED BY <2>3, <3>1, DataFacts
  <2>4. CASE pc \in Comparing /\ pc' = "openSecondary" /\ at \in secondaries /\ secondaries' = secondaries \ {at}
    <3>1. Opened' = 2 * N + 1 - Cardinality(secondaries \ {at})
      BY <2>4 DEF Opened, Polling, Asking
    <3>2. Cardinality(secondaries \ {at}) = Cardinality(secondaries) - 1
      BY <2>4, DataFacts, OnePodLess
    <3> QED BY <2>4, <3>1, <3>2, DataFacts
  <2> QED BY <2>1, <2>2, <2>3, <2>4
<1>4. forwards' <= sessions' + Leaks(Opened') + (IF pc' \in Open THEN MaxTrials - trials' ELSE 0)
  BY <1>1, <1>2, <1>3, DataFacts
<1>5. pc' \in Asking \cup Comparing \cup {"openSecondary"}
  OBVIOUS
<1> QED BY <1>2, <1>4, <1>5 DEF SessionInv, Labels, DataLabels, Queries, Open, Polling, Asking, Comparing

\* The session with the primary or a secondary.
LEMMA SessionOpensData ==
  ASSUME CheckInv, OpenDataSession("openPrimary", "readGtids") \/ OpenDataSession("openSecondary", "wait1")
  PROVE  SessionInv'
<1>1. /\ \/ pc = "openPrimary" /\ pc' = "readGtids"
         \/ pc = "openSecondary" /\ pc' = "wait1"
      /\ sessions' = sessions + 1 /\ forwards' = forwards + 1 /\ opened' = opened + 1 /\ trials' = MaxTrials
      /\ UNCHANGED <<result, verdict, secondaries>>
  BY DEF OpenDataSession, OpenSession, Goto
<1>2. pc \in Open
  BY <1>1 DEF Open
<1>3. Opened' = Opened + 1
  <2>1. CASE pc = "openPrimary"
    <3>1. Opened' = N + 2
      BY <1>1, <2>1 DEF Opened, Polling, Asking
    <3> QED BY <2>1, <3>1, DataFacts
  <2>2. CASE pc = "openSecondary"
    <3>1. Opened' = 2 * N + 2 - Cardinality(secondaries)
      BY <1>1, <2>2 DEF Opened, Polling, Asking, Comparing
    <3> QED BY <2>2, <3>1, DataFacts
  <2> QED BY <1>1, <2>1, <2>2
<1>4. /\ sessions' = N + opened' /\ forwards' >= sessions' /\ result' = "nil" /\ verdict' = "none"
      /\ forwards' <= sessions' + Leaks(Opened')
  BY <1>1, <1>2, <1>3, DataFacts, DataLeaks
<1>5. Leaks(Opened') \in Nat
  BY <1>1, <1>2, <1>3, DataFacts, DataLeaks
<1>6. pc' \in {"readGtids", "wait1"}
  BY <1>1
<1> QED BY <1>1, <1>4, <1>5, <1>6 DEF SessionInv, Labels, DataLabels, Queries, Open, Polling, Asking, Comparing

\* One of its trials fails, for the last time or not.
LEMMA SessionFailsData ==
  ASSUME CheckInv, NEW label \in {"openPrimary", "openSecondary"}, OpenDataFails(label)
  PROVE  SessionInv' /\ sessions' \in Nat /\ forwards' \in Nat /\ trials' \in Nat /\ opened' \in Nat
<1>1. pc = label /\ pc \in Open /\ trials' = trials - 1 /\ UNCHANGED <<result, secondaries>>
  BY DEF OpenDataFails, Open, check_vars
<1>2. PICK left \in {0, 1} :
         IF trials > 1 THEN /\ pc' = label /\ forwards' = forwards + left
                            /\ UNCHANGED <<sessions, opened, verdict>>
         ELSE /\ pc' = "end" /\ verdict' = "session"
              /\ sessions' = sessions - opened /\ forwards' = forwards + left - opened /\ opened' = 0
  BY DEF OpenDataFails
<1>3. CASE trials > 1
  <2>1. Opened' = Opened
    BY <1>1, <1>2, <1>3 DEF Opened, Polling, Asking, Comparing
  <2>2. /\ sessions' = N + opened' /\ forwards' >= sessions' /\ result' = "nil" /\ verdict' = "none"
        /\ trials' > 0 /\ trials' <= MaxTrials
        /\ sessions' \in Nat /\ forwards' \in Nat /\ trials' \in Nat /\ opened' \in Nat
    BY <1>1, <1>2, <1>3, DataFacts
  <2>3. forwards' <= sessions' + Leaks(Opened') + (MaxTrials - trials')
    BY <1>1, <1>2, <1>3, <2>1, DataFacts, DataLeaks
  <2>4. pc' \in {"openPrimary", "openSecondary"}
    BY <1>2, <1>3
  <2> QED BY <2>2, <2>3, <2>4 DEF SessionInv, Labels, DataLabels, Queries, Open, Polling, Asking, Comparing
<1>4. CASE ~(trials > 1)
  <2>1. trials = 1
    BY <1>1, <1>4, DataFacts
  <2>2. /\ pc' = "end" /\ opened' = 0 /\ sessions' = N /\ forwards' = forwards + left - opened /\ forwards' >= N
        /\ result' = "nil" /\ trials' \in Nat /\ sessions' \in Nat /\ forwards' \in Nat
    BY <1>1, <1>2, <1>4, <2>1, DataFacts
  <2>3. forwards' <= sessions' + Leaks(2 * N + 1) + 1
    BY <1>1, <1>2, <2>1, <2>2, DataFacts, DataLeaks
  <2> QED BY <2>2, <2>3 DEF SessionInv, Labels, DataLabels, Queries, Open, Polling, Asking, Comparing
<1> QED BY <1>3, <1>4

\* CheckData begins where a successful CheckAll has ended.
LEMMA BeginDataInv ==
  ASSUME CheckInv, BeginData
  PROVE  DataTypeOK' /\ SessionInv' /\ GtidInv'
<1>1. /\ pc = "done" /\ result = "nil" /\ verdict = "none"
      /\ primary' \in {0} \cup ({params.primary} \ {NoPrimary})
      /\ at' = primary' /\ secondaries' = Pod \ {primary'} /\ trials' = MaxTrials
      /\ executed' \in [Pod -> SUBSET Txn] /\ pc' = "openPrimary"
      /\ UNCHANGED <<verdict, sessions, forwards, opened, check_vars, gtidSet0, schemas0, report0, compared>>
  BY DEF BeginData, Proceed
<1>2. primary' \in Pod
  <2>1. params \in Params /\ 0 \in Pod
    BY DEF CheckInv, DataTypeOK, ClusterTypeOK, CallTypeOK, Pod
  <2> QED BY <1>1, <2>1
<1>3. DataTypeOK'
  <2>1. CallTypeOK'
    BY <1>1, <1>2 DEF CheckInv, DataTypeOK, ClusterTypeOK, CallTypeOK, check_vars
  <2>2. ClusterTypeOK'
    BY <1>1, <2>1 DEF CheckInv, DataTypeOK, ClusterTypeOK, check_vars
  <2> QED BY <1>1, <2>2 DEF CheckInv, DataTypeOK, DataLabels
<1>4. SessionInv'
  <2>1. opened = 0 /\ sessions = N /\ forwards >= sessions /\ forwards <= sessions + Leaks(N + 1)
    <3>1. Opened = N + 1 /\ pc \notin Open
      BY <1>1 DEF Opened, Polling, Asking, Comparing, Open
    <3> QED BY <1>1, <3>1, SessionFacts DEF CheckInv, SessionInv, Labels
  <2>2. Opened' = N + 1 /\ result' = "nil"
    BY <1>1 DEF Opened, Polling, Asking, Comparing, check_vars
  <2> QED BY <1>1, <2>1, <2>2, SessionFacts
          DEF SessionInv, Labels, DataLabels, Queries, Open, Polling, Asking, Comparing
<1>5. GtidInv'
  <2>1. gtidSet0 = {} /\ compared = {}
    BY <1>1 DEF CheckInv, GtidInv, Labels
  <2> QED BY <1>1, <1>2, <2>1 DEF GtidInv, Labels, Asking, Comparing
<1> QED BY <1>3, <1>4, <1>5

\* What a step of CheckData may change.
LEMMA TypeData ==
  ASSUME CheckInv, UNCHANGED <<check_vars, primary, executed>>, pc' \in DataLabels, at' \in Pod,
         trials' \in Nat, sessions' \in Nat, forwards' \in Nat, opened' \in Nat,
         gtidSet0' \in SUBSET Txn, schemas0' \in SUBSET Creates, report0' \in SUBSET Txn,
         secondaries' \in SUBSET Pod, compared' \in SUBSET Pod,
         verdict' \in {"none", "nil", "session", "query", "missing", "errant", "schemas", "tables"}
  PROVE  DataTypeOK'
<1>1. CallTypeOK'
  BY DEF CheckInv, DataTypeOK, ClusterTypeOK, CallTypeOK, check_vars
<1>2. ClusterTypeOK'
  BY <1>1 DEF CheckInv, DataTypeOK, ClusterTypeOK, check_vars
<1> QED BY <1>2 DEF CheckInv, DataTypeOK

\* An answer ends the call, whatever is known by then.
LEMMA DataAnswers ==
  ASSUME CheckInv, pc \in Asking \cup Comparing, Still, UNCHANGED <<at, gtidSet0, schemas0>>,
         NEW what \in {"nil", "session", "query", "missing", "errant", "schemas", "tables"}, Answer(what),
         report0' \in SUBSET Txn, secondaries' \in SUBSET secondaries, compared' \in SUBSET Pod,
         \A p \in compared' : gtidSet0 \subseteq executed[p]
  PROVE  DataTypeOK' /\ SessionInv' /\ GtidInv'
<1>1. UNCHANGED <<check_vars, primary, trials, executed, result>>
  BY DEF Still, check_vars
<1>2. /\ pc' = "end" /\ opened' = 0 /\ sessions' = sessions - opened /\ forwards' = forwards - opened
      /\ verdict' = what
  BY DEF Answer
<1>3. sessions' \in Nat /\ forwards' \in Nat
  BY <1>2, DataFacts
<1>4. DataTypeOK'
  <2>1. gtidSet0 \in SUBSET Txn /\ schemas0 \in SUBSET Creates
    BY DEF CheckInv, DataTypeOK
  <2> QED BY <1>1, <1>2, <1>3, <2>1, DataFacts, TypeData DEF DataLabels
<1>5. GtidInv'
  <2>1. pc \notin Labels
    BY DEF Asking, Comparing, Labels
  <2>2. primary \in Pod /\ primary \notin secondaries /\ gtidSet0 \subseteq executed[primary]
    BY <2>1 DEF CheckInv, GtidInv
  <2> QED BY <1>1, <1>2, <2>2 DEF GtidInv, Labels, Asking, Comparing
<1> QED BY <1>1, <1>4, <1>5, SessionAnswers

\* A query answered, with another one to follow.
LEMMA DataGoesOn ==
  ASSUME CheckInv, Still, NEW next, Proceed(next), UNCHANGED <<at, secondaries, compared>>,
         \/ pc \in Asking /\ next \in Asking \ {"readGtids"}
         \/ pc \in Comparing /\ next \in Comparing,
         \/ pc = "readGtids" /\ gtidSet0' = executed[primary]
         \/ gtidSet0' = gtidSet0,
         gtidSet0' \in SUBSET Txn, schemas0' \in SUBSET Creates, report0' \in SUBSET Txn,
         next \in {"errant", "schemas", "tables"} => gtidSet0 \subseteq executed[at]
  PROVE  DataTypeOK' /\ SessionInv' /\ GtidInv'
<1>1. /\ UNCHANGED <<check_vars, primary, trials, executed, result, verdict, sessions, forwards, opened>>
      /\ pc' = next
  BY DEF Still, Proceed, check_vars
<1>2. DataTypeOK'
  <2>1. compared \in SUBSET Pod
    BY DEF CheckInv, DataTypeOK
  <2>2. pc' \in DataLabels
    BY <1>1 DEF DataLabels, Queries, Asking, Comparing
  <2> QED BY <1>1, <2>1, <2>2, DataFacts, TypeData
<1>3. SessionInv'
  BY <1>1, SessionQueries
<1>4. GtidInv'
  <2>1. pc \notin Labels
    BY DEF Asking, Comparing, Labels
  <2>2. /\ primary \in Pod /\ primary \notin secondaries
        /\ \A p \in compared \cup {primary} : gtidSet0 \subseteq executed[p]
        /\ pc \in Asking => at = primary /\ secondaries = Pod \ {primary}
        /\ pc \in Comparing => at \in secondaries
    BY <2>1 DEF CheckInv, GtidInv
  <2>3. \A p \in compared' \cup {primary'} : gtidSet0' \subseteq executed'[p]
    <3>1. pc = "readGtids" => compared = {}
      BY DEF CheckInv, GtidInv
    <3> QED BY <1>1, <2>2, <3>1
  <2>4. pc' \notin Labels \cup {"openPrimary", "readGtids", "openSecondary"}
    BY <1>1 DEF Asking, Comparing, Labels
  <2>5. /\ pc' \in Asking => at' = primary' /\ secondaries' = Pod \ {primary'}
        /\ pc' \in Comparing => at' \in secondaries'
    BY <1>1, <2>2 DEF Asking, Comparing
  <2>6. pc' \in {"errant", "schemas", "tables"} => gtidSet0' \subseteq executed'[at']
    BY <1>1 DEF Asking, Comparing
  <2> QED BY <1>1, <2>2, <2>3, <2>4, <2>5, <2>6 DEF GtidInv
<1> QED BY <1>2, <1>3, <1>4

\* On to the next secondary, or to the end.
LEMMA DataTurns ==
  ASSUME CheckInv, Still, UNCHANGED <<gtidSet0, schemas0>>, Turn(secondaries'),
         secondaries' = {} => at' = at,
         \/ pc = "reportPrimary" /\ secondaries' = secondaries
         \/ pc = "tables" /\ secondaries' = secondaries \ {at},
         report0' \in SUBSET Txn, compared' \in SUBSET Pod,
         \A p \in compared' : gtidSet0 \subseteq executed[p]
  PROVE  DataTypeOK' /\ SessionInv' /\ GtidInv'
<1>1. pc \in Asking \cup Comparing /\ pc \notin Labels
  BY DEF Asking, Comparing, Labels
<1>2. secondaries' \in SUBSET secondaries /\ secondaries' \in SUBSET Pod
  BY <1>1, DataFacts
<1>3. CASE secondaries' = {}
  BY <1>1, <1>2, <1>3, DataAnswers DEF Turn
<1>4. CASE secondaries' # {}
  <2>1. /\ at' = (CHOOSE p \in secondaries' : \A q \in secondaries' : p <= q) /\ pc' = "openSecondary"
        /\ UNCHANGED <<verdict, sessions, forwards, opened>>
        /\ UNCHANGED <<check_vars, primary, trials, executed, result>>
    BY <1>4 DEF Turn, Proceed, Still, check_vars
  <2>2. at' \in secondaries'
    BY <1>2, <1>4, <2>1, LeastPod
  <2>3. DataTypeOK'
    <3>1. gtidSet0 \in SUBSET Txn /\ schemas0 \in SUBSET Creates
      BY DEF CheckInv, DataTypeOK
    <3>2. at' \in Pod /\ pc' \in DataLabels
      BY <1>2, <2>1, <2>2 DEF DataLabels
    <3> QED BY <1>1, <1>2, <2>1, <3>1, <3>2, DataFacts, TypeData
  <2>4. SessionInv'
    <3>1. pc = "tables" => at \in secondaries
      BY DEF CheckInv, GtidInv, Comparing
    <3> QED BY <1>1, <2>1, <3>1, SessionQueries DEF Asking, Comparing
  <2>5. GtidInv'
    <3>1. primary \in Pod /\ primary \notin secondaries /\ gtidSet0 \subseteq executed[primary]
      BY <1>1 DEF CheckInv, GtidInv
    <3> QED BY <1>2, <2>1, <2>2, <3>1 DEF GtidInv, Labels, Asking, Comparing
  <2> QED BY <2>3, <2>4, <2>5
<1> QED BY <1>3, <1>4

\* The queries, each with its answers.
LEMMA DataQueries ==
  ASSUME CheckInv,
         \/ ReadGtids \/ ReadSchemas \/ ReportPrimary
         \/ WaitForGtids \/ CheckMissing \/ CheckErrant \/ CheckSchemas \/ CheckTables
  PROVE  DataTypeOK' /\ SessionInv' /\ GtidInv'
<1>1. /\ gtidSet0 \in SUBSET Txn /\ schemas0 \in SUBSET Creates /\ report0 \in SUBSET Txn
      /\ compared \in SUBSET Pod /\ executed \in [Pod -> SUBSET Txn]
  BY DEF CheckInv, DataTypeOK
<1>2. /\ pc \in Asking \cup Comparing => \A p \in compared \cup {primary} : gtidSet0 \subseteq executed[p]
      /\ pc \in {"errant", "schemas", "tables"} => gtidSet0 \subseteq executed[at]
  BY DEF CheckInv, GtidInv, Asking, Comparing, Labels
<1>3. ASSUME NEW S \in SUBSET Txn, pc \in Asking \cup Comparing
      PROVE  Tables(primary, S) \in SUBSET Txn
  BY <1>1, <1>3, DataFacts DEF Tables
<1>4. CASE ReadGtids
  <2>1. /\ pc = "readGtids" /\ gtidSet0' = executed[primary] /\ Proceed("readSchemas") /\ Still
        /\ UNCHANGED <<at, schemas0, report0, secondaries, compared>>
    BY <1>4 DEF ReadGtids
  <2>2. pc \in Asking /\ "readSchemas" \in Asking \ {"readGtids"} /\ executed[primary] \in SUBSET Txn
    BY <1>1, <2>1, DataFacts DEF Asking
  <2> QED BY <1>1, <2>1, <2>2, DataGoesOn
<1>5. CASE ReadSchemas
  <2>1. /\ pc = "readSchemas" /\ schemas0' = Schemas(primary) /\ Proceed("reportPrimary") /\ Still
        /\ UNCHANGED <<at, gtidSet0, report0, secondaries, compared>>
    BY <1>5 DEF ReadSchemas
  <2>2. schemas0' \in SUBSET Creates
    BY <2>1 DEF Schemas
  <2>3. pc \in Asking /\ "reportPrimary" \in Asking \ {"readGtids"}
    BY <2>1 DEF Asking
  <2> QED BY <1>1, <2>1, <2>2, <2>3, DataGoesOn
<1>6. CASE ReportPrimary
  <2>1. /\ pc = "reportPrimary" /\ report0' = Tables(primary, schemas0) /\ Turn(secondaries) /\ Still
        /\ UNCHANGED <<gtidSet0, schemas0, secondaries, compared>>
    BY <1>6 DEF ReportPrimary
  <2>2. pc \in Asking
    BY <2>1 DEF Asking
  <2>3. report0' \in SUBSET Txn
    BY <1>1, <1>3, <2>1, <2>2, DataAssumption
  <2>4. Turn(secondaries') /\ (secondaries' = {} => at' = at) /\ compared' = compared
    BY <2>1 DEF Turn
  <2>5. \A p \in compared' : gtidSet0 \subseteq executed[p]
    BY <1>2, <2>2, <2>4
  <2> QED BY <1>1, <2>1, <2>3, <2>4, <2>5, DataTurns
<1>7. CASE WaitForGtids
  <2>1. /\ pc = "wait1" /\ Proceed("missing") /\ Still
        /\ UNCHANGED <<at, gtidSet0, schemas0, report0, secondaries, compared>>
    BY <1>7 DEF WaitForGtids
  <2>2. pc \in Comparing /\ "missing" \in Comparing
    BY <2>1 DEF Comparing
  <2> QED BY <1>1, <2>1, <2>2, DataGoesOn
<1>8. CASE CheckMissing
  <2>1. /\ pc = "missing" /\ Still /\ UNCHANGED <<at, gtidSet0, schemas0, report0, secondaries, compared>>
        /\ \/ gtidSet0 \subseteq executed[at] /\ Proceed("errant")
           \/ Answer("missing")
    BY <1>8 DEF CheckMissing
  <2>2. pc \in Comparing /\ "errant" \in Comparing
    BY <2>1 DEF Comparing
  <2>3. CASE Answer("missing")
    BY <1>1, <1>2, <2>1, <2>2, <2>3, DataAnswers
  <2>4. CASE gtidSet0 \subseteq executed[at] /\ Proceed("errant")
    BY <1>1, <2>1, <2>2, <2>4, DataGoesOn
  <2> QED BY <2>1, <2>3, <2>4
<1>9. CASE CheckErrant
  <2>1. /\ pc = "errant" /\ Still /\ UNCHANGED <<at, gtidSet0, schemas0, report0, secondaries, compared>>
        /\ Proceed("schemas") \/ Answer("errant")
    BY <1>9 DEF CheckErrant
  <2>2. pc \in Comparing /\ "schemas" \in Comparing
    BY <2>1 DEF Comparing
  <2>3. CASE Answer("errant")
    BY <1>1, <1>2, <2>1, <2>2, <2>3, DataAnswers
  <2>4. CASE Proceed("schemas")
    BY <1>1, <1>2, <2>1, <2>2, <2>4, DataGoesOn
  <2> QED BY <2>1, <2>3, <2>4
<1>10. CASE CheckSchemas
  <2>1. /\ pc = "schemas" /\ Still /\ UNCHANGED <<at, gtidSet0, schemas0, report0, secondaries, compared>>
        /\ Proceed("tables") \/ Answer("schemas")
    BY <1>10 DEF CheckSchemas
  <2>2. pc \in Comparing /\ "tables" \in Comparing
    BY <2>1 DEF Comparing
  <2>3. CASE Answer("schemas")
    BY <1>1, <1>2, <2>1, <2>2, <2>3, DataAnswers
  <2>4. CASE Proceed("tables")
    BY <1>1, <1>2, <2>1, <2>2, <2>4, DataGoesOn
  <2> QED BY <2>1, <2>3, <2>4
<1>11. CASE CheckTables
  <2>1. /\ pc = "tables" /\ Still /\ UNCHANGED <<gtidSet0, schemas0, report0>>
        /\ secondaries' = secondaries \ {at} /\ compared' = compared \cup {at}
        /\ Turn(secondaries') \/ (Answer("tables") /\ at' = at)
    BY <1>11 DEF CheckTables
  <2>2. pc \in Comparing /\ at \in Pod
    BY <2>1, DataFacts DEF Comparing
  <2>3. compared' \in SUBSET Pod /\ \A p \in compared' : gtidSet0 \subseteq executed[p]
    BY <1>1, <1>2, <2>1, <2>2
  <2>4. report0' \in SUBSET Txn /\ secondaries' \in SUBSET secondaries
    BY <1>1, <2>1
  <2>5. CASE Answer("tables") /\ at' = at
    BY <2>1, <2>2, <2>3, <2>4, <2>5, DataAnswers
  <2>6. CASE Turn(secondaries')
    <3>1. secondaries' = {} => at' = at
      BY <2>6 DEF Turn
    <3> QED BY <2>1, <2>3, <2>4, <2>6, <3>1, DataTurns
  <2> QED BY <2>1, <2>5, <2>6
<1> QED BY <1>4, <1>5, <1>6, <1>7, <1>8, <1>9, <1>10, <1>11

\* A query that fails ends the call, with an error or without.
LEMMA DataFails ==
  ASSUME CheckInv, DataQueryFails
  PROVE  DataTypeOK' /\ SessionInv' /\ GtidInv'
<1>1. /\ pc \in Asking \cup Comparing /\ Still
      /\ UNCHANGED <<at, gtidSet0, schemas0, report0, secondaries, compared>>
      /\ Answer("nil") \/ Answer("query")
  BY DEF DataQueryFails, Failure, Queries, Asking, Comparing
<1>2. /\ report0 \in SUBSET Txn /\ compared \in SUBSET Pod
      /\ \A p \in compared : gtidSet0 \subseteq executed[p]
  BY <1>1 DEF CheckInv, DataTypeOK, GtidInv, Labels, Asking, Comparing
<1> QED BY <1>1, <1>2, DataAnswers

\* Sessions are opened and not opened before any query.
LEMMA DataOpens ==
  ASSUME CheckInv,
         \/ OpenDataSession("openPrimary", "readGtids") \/ OpenDataFails("openPrimary")
         \/ OpenDataSession("openSecondary", "wait1") \/ OpenDataFails("openSecondary")
  PROVE  DataTypeOK' /\ SessionInv' /\ GtidInv'
<1>1. /\ gtidSet0 \in SUBSET Txn /\ schemas0 \in SUBSET Creates /\ report0 \in SUBSET Txn
      /\ compared \in SUBSET Pod /\ executed \in [Pod -> SUBSET Txn]
  BY DEF CheckInv, DataTypeOK
<1>2. /\ pc \in {"openPrimary", "openSecondary"}
      /\ UNCHANGED <<check_vars, primary, at, executed, gtidSet0, schemas0, report0, secondaries, compared>>
      /\ \/ pc = "openPrimary" /\ pc' \in {"readGtids", "openPrimary", "end"}
         \/ pc = "openSecondary" /\ pc' \in {"wait1", "openSecondary", "end"}
      /\ verdict' \in {"none", "session"}
  BY DataFacts DEF OpenDataSession, OpenSession, OpenDataFails, Goto, check_vars, cluster_vars
<1>3. /\ SessionInv' /\ sessions' \in Nat /\ forwards' \in Nat /\ trials' \in Nat /\ opened' \in Nat
  <2>1. CASE OpenDataFails("openPrimary") \/ OpenDataFails("openSecondary")
    BY <2>1, SessionFailsData
  <2>2. CASE OpenDataSession("openPrimary", "readGtids") \/ OpenDataSession("openSecondary", "wait1")
    <3>1. sessions' = sessions + 1 /\ forwards' = forwards + 1 /\ trials' = MaxTrials /\ opened' = opened + 1
      BY <2>2 DEF OpenDataSession, OpenSession
    <3> QED BY <1>2, <2>2, <3>1, SessionOpensData, DataFacts
  <2> QED BY <2>1, <2>2
<1>4. DataTypeOK'
  BY <1>1, <1>2, <1>3, DataFacts, TypeData DEF DataLabels, Queries
<1>5. GtidInv'
  <2>1. pc \notin Labels
    BY <1>2 DEF Labels
  <2>2. /\ primary \in Pod /\ primary \notin secondaries
        /\ \A p \in compared \cup {primary} : gtidSet0 \subseteq executed[p]
        /\ pc = "openPrimary" => gtidSet0 = {} /\ compared = {} /\ at = primary /\ secondaries = Pod \ {primary}
        /\ pc = "openSecondary" => at \in secondaries
    BY <2>1 DEF CheckInv, GtidInv
  <2> QED BY <1>2, <2>2 DEF GtidInv, Labels, Asking, Comparing
<1> QED BY <1>3, <1>4, <1>5

\* The group goes on: what was executed stays executed.
LEMMA DataChanges ==
  ASSUME CheckInv, DataChange
  PROVE  DataTypeOK' /\ SessionInv' /\ GtidInv'
<1>1. UNCHANGED <<vars, gtidSet0, schemas0, report0, secondaries, opened, verdict, compared>>
  BY DEF DataChange
<1>2. executed \in [Pod -> SUBSET Txn]
  BY DEF CheckInv, DataTypeOK
<1>3. PICK p \in Pod, t \in Txn : executed' = [executed EXCEPT ![p] = @ \cup {t}]
  BY DEF DataChange, Write, Replicate
<1>4. executed' \in [Pod -> SUBSET Txn] /\ \A q \in Pod : executed[q] \subseteq executed'[q]
  BY <1>2, <1>3
<1>5. DataTypeOK'
  <2>1. CallTypeOK'
    BY <1>1 DEF CheckInv, DataTypeOK, ClusterTypeOK, CallTypeOK, vars
  <2>2. ClusterTypeOK'
    BY <1>1, <2>1 DEF CheckInv, DataTypeOK, ClusterTypeOK, vars
  <2> QED BY <1>1, <1>4, <2>2 DEF CheckInv, DataTypeOK, vars
<1>6. SessionInv'
  BY <1>1 DEF CheckInv, SessionInv, Opened, vars
<1>7. GtidInv'
  <2>1. /\ UNCHANGED <<pc, at, primary, gtidSet0, secondaries, verdict, compared>>
        /\ compared \in SUBSET Pod /\ at \in Pod
    BY <1>1 DEF vars, CheckInv, DataTypeOK, ClusterTypeOK, CallTypeOK
  <2> QED BY <1>4, <2>1 DEF CheckInv, GtidInv
<1> QED BY <1>5, <1>6, <1>7

-----------------------------------------------------------------------------
(* The two checks together. *)

LEMMA DataInitInv ==
  ASSUME DataInit
  PROVE  CheckInv /\ QuietVerdict
<1>1. /\ pc = "idle" /\ result = "none" /\ opened = 0 /\ sessions = 0 /\ forwards = 0 /\ trials = MaxPolls
      /\ at = 0 /\ verdict = "none" /\ gtidSet0 = {} /\ compared = {} /\ quiet = TRUE
  BY DEF DataInit, Init
<1>2. 0 \in Pod /\ MaxPolls \in Nat \ {0} /\ MaxTrials \in Nat \ {0} /\ N \in Nat \ {0} /\ R \in Nat
  BY CheckAssumption DEF Pod
<1>3. DataTypeOK
  <2>1. member \in [Pod -> {"PRIMARY", "SECONDARY", "OFFLINE"}] /\ pods = [p \in Pod |-> Fresh(member[p])]
    BY DEF DataInit, Init
  <2>2. ASSUME NEW p \in Pod
        PROVE  member[p] # "OFFLINE"
    BY DEF DataInit, Init
  <2>3. pods \in [Pod -> PodObject]
    BY <2>1, <2>2 DEF Fresh, PodObject
  <2>4. allPods \in [Pod -> PodObject]
    <3>1. Gone \in PodObject
      BY DEF Gone, PodObject
    <3> QED BY <3>1 DEF DataInit, Init
  <2>5. online \in 0..N /\ changes \in 0..MaxChanges /\ routers \in [pods : 0..R, running : 0..R] /\ flaws \in SUBSET Flaw
    <3>1. online = N /\ changes = 0 /\ routers = [pods |-> R, running |-> R] /\ flaws \in {{}} \cup {{f} : f \in Flaw}
      BY DEF DataInit, Init
    <3>2. MaxChanges \in Nat
      BY CheckAssumption
    <3> QED BY <1>2, <3>1, <3>2
  <2>6. CallTypeOK
    <3>1. params \in Params /\ icobj = 0 /\ primary = NoPrimary /\ look = "none" /\ failed = FALSE
      BY DEF DataInit, Init
    <3>2. quiet \in BOOLEAN /\ failed \in BOOLEAN
      BY <1>1, <3>1
    <3>3. at \in Pod /\ icobj \in 0..N /\ trials \in Nat /\ sessions \in Nat /\ forwards \in Nat
      BY <1>1, <1>2, <3>1
    <3> QED BY <1>1, <3>1, <3>2, <3>3 DEF CallTypeOK
  <2>7. /\ executed \in [Pod -> SUBSET Txn] /\ schemas0 = {} /\ report0 = {} /\ secondaries = {}
    BY DEF DataInit
  <2> QED BY <1>1, <2>1, <2>3, <2>4, <2>5, <2>6, <2>7 DEF DataTypeOK, ClusterTypeOK, DataLabels, Labels
<1>4. ReadInv /\ QuietVerdict
  BY <1>1 DEF ReadInv, QuietVerdict, Visiting
<1>5. SessionInv
  <2>1. Opened = 0 /\ Leaks(0) \in Nat
    BY <1>1, LeaksGrow DEF Opened, Polling
  <2> QED BY <1>1, <1>2, <2>1 DEF SessionInv, Labels, DataLabels, Queries, Open, Polling, Asking, Comparing
<1>6. GtidInv
  BY <1>1 DEF GtidInv, Labels, Asking, Comparing
<1> QED BY <1>3, <1>4, <1>5, <1>6 DEF CheckInv

LEMMA DataNextInv ==
  ASSUME CheckInv, QuietVerdict, [DataNext]_all_vars
  PROVE  CheckInv' /\ QuietVerdict'
<1>1. CASE (Begin \/ CheckStep) /\ UNCHANGED data_vars
  BY <1>1, TypeCheck, SessionCheck, GtidCheck, ReadStep DEF CheckInv
<1>2. CASE ClusterChange /\ UNCHANGED data_vars
  BY <1>2, TypeChange, ElsewhereChange, ReadStep DEF CheckInv
<1>3. CASE BeginData
  <2>1. UNCHANGED check_vars /\ pc' = "openPrimary"
    BY <1>3 DEF BeginData, Proceed
  <2>2. ReadInv' /\ QuietVerdict'
    BY <2>1, ReadElsewhere DEF Labels
  <2> QED BY <1>3, <2>2, BeginDataInv DEF CheckInv
<1>4. CASE DataStep
  <2>1. UNCHANGED check_vars /\ pc' \notin Labels
    <3>1. CASE \/ OpenDataSession("openPrimary", "readGtids") \/ OpenDataFails("openPrimary")
               \/ OpenDataSession("openSecondary", "wait1") \/ OpenDataFails("openSecondary")
      BY <3>1 DEF OpenDataSession, OpenSession, OpenDataFails, Goto, check_vars, cluster_vars, Labels
    <3>2. CASE \/ ReadGtids \/ ReadSchemas \/ ReportPrimary \/ WaitForGtids \/ CheckMissing \/ CheckErrant
               \/ CheckSchemas \/ CheckTables \/ DataQueryFails
      BY <3>2 DEF ReadGtids, ReadSchemas, ReportPrimary, WaitForGtids, CheckMissing, CheckErrant,
                  CheckSchemas, CheckTables, DataQueryFails, Failure, Turn, Answer, Proceed, Still, Labels
    <3> QED BY <1>4, <3>1, <3>2 DEF DataStep
  <2>2. ReadInv' /\ QuietVerdict'
    BY <2>1, ReadElsewhere
  <2>3. DataTypeOK' /\ SessionInv' /\ GtidInv'
    BY <1>4, DataQueries, DataFails, DataOpens DEF DataStep
  <2> QED BY <2>2, <2>3 DEF CheckInv
<1>5. CASE DataChange
  <2>1. UNCHANGED vars
    BY <1>5 DEF DataChange
  <2>2. UNCHANGED <<check_vars, pc, at, primary>>
    BY <2>1 DEF vars, check_vars
  <2>3. ReadInv' /\ QuietVerdict'
    BY <2>2, SameFinding DEF CheckInv, ReadInv, QuietVerdict, Visited, check_vars, cluster_vars
  <2> QED BY <1>5, <2>3, DataChanges DEF CheckInv
<1>6. CASE UNCHANGED all_vars
  <2>1. UNCHANGED <<check_vars, data_vars, pc, at, primary, trials, sessions, forwards>>
    BY <1>6 DEF all_vars, check_vars, data_vars
  <2>2. ReadInv' /\ QuietVerdict'
    BY <2>1, SameFinding DEF CheckInv, ReadInv, QuietVerdict, Visited, check_vars, cluster_vars
  <2>3. DataTypeOK'
    BY <2>1 DEF CheckInv, DataTypeOK, ClusterTypeOK, CallTypeOK, check_vars, data_vars
  <2>4. SessionInv' /\ GtidInv'
    BY <2>1 DEF CheckInv, SessionInv, GtidInv, Opened, check_vars, data_vars
  <2> QED BY <2>2, <2>3, <2>4 DEF CheckInv
<1> QED BY <1>1, <1>2, <1>3, <1>4, <1>5, <1>6 DEF DataNext, CheckNext

LEMMA ChecksHold == DataSpec => [](CheckInv /\ QuietVerdict)
<1>1. DataInit => CheckInv /\ QuietVerdict
  BY DataInitInv
<1>2. CheckInv /\ QuietVerdict /\ [DataNext]_all_vars => (CheckInv /\ QuietVerdict)'
  BY DataNextInv
<1> QED BY <1>1, <1>2, PTL DEF DataSpec

\* Whatever the cluster and the group do between two reads of the checks, what
\* these remember of what they read, opened and compared holds.
THEOREM CheckInvHolds == DataSpec => []CheckInv
BY ChecksHold, PTL

\* The verdict of CheckAll on a cluster that stays as it is is right.
THEOREM VerdictIsRight == DataSpec => []QuietVerdict
BY ChecksHold, PTL

\* The sessions and processes the checks leave behind are bounded by the pods and trials.
THEOREM LeaksAreBounded == DataSpec => []SessionsAccounted
<1>1. CheckInv => SessionsAccounted
  <2> SUFFICES ASSUME CheckInv PROVE SessionsAccounted
    OBVIOUS
  <2>1. pc \in {"done", "end"} => sessions <= N /\ (result = "nil" => sessions = N)
    BY DEF CheckInv, SessionInv
  <2>2. sessions \in Nat /\ forwards \in Nat
    BY DEF CheckInv, DataTypeOK, ClusterTypeOK, CallTypeOK
  <2>3. forwards <= sessions + Leaks(2 * N + 1) + 1
    <3>1. CASE pc \in Labels \ {"done"}
      BY <2>2, <3>1, SessionFacts, SessionMayEnd
    <3>2. CASE pc = "done"
      <4>1. CASE result = "nil"
        <5>1. Opened = N + 1 /\ pc \notin Open
          BY <3>2 DEF Opened, Polling, Asking, Comparing, Open
        <5>2. forwards <= sessions + Leaks(N + 1)
          BY <2>2, <3>2, <4>1, <5>1, SessionFacts DEF CheckInv, SessionInv
        <5> QED BY <2>2, <5>2, SessionFacts
      <4>2. CASE result # "nil"
        BY <3>2, <4>2 DEF CheckInv, SessionInv
      <4> QED BY <4>1, <4>2
    <3>3. CASE pc \in Asking \cup Comparing \cup {"openPrimary", "openSecondary"}
      BY <2>2, <3>3, DataFacts, DataLeaks
    <3>4. CASE pc = "end"
      BY <3>4 DEF CheckInv, SessionInv
    <3> QED
      BY <3>1, <3>2, <3>3, <3>4 DEF CheckInv, DataTypeOK, DataLabels, Queries, Asking, Comparing
  <2> QED BY <2>1, <2>3 DEF SessionsAccounted
<1> QED BY <1>1, CheckInvHolds, PTL

\* A CheckData that finds nothing after comparing every secondary is right about
\* the transactions of the primary.
THEOREM ComparedHaveAll == DataSpec => []NothingMissing
<1>1. CheckInv => NothingMissing
  <2> SUFFICES ASSUME CheckInv, verdict = "nil", compared = Pod \ {primary}
               PROVE  \A p \in Pod : gtidSet0 \subseteq executed[p]
    BY DEF NothingMissing
  <2>1. pc \notin Labels
    BY DEF CheckInv, GtidInv
  <2> QED BY <2>1 DEF CheckInv, GtidInv
<1> QED BY <1>1, CheckInvHolds, PTL

-----------------------------------------------------------------------------
(* What a nil stands for has been met. *)

\* A fact is one as long as the cluster stays as it is.
LEMMA FactsStay ==
  ASSUME UNCHANGED <<cluster_vars, params>>
  PROVE  Facts' = Facts /\ met' = met
<1>1. UNCHANGED <<pods, member, online, routers, met, params>>
  BY DEF cluster_vars
<1>2. Online' = Online /\ Primaries' = Primaries /\ RoutersRun' = RoutersRun
  BY SameFinding
<1>3. \A p \in Pod : Sound(pods[p])' = Sound(pods[p])
  BY <1>1 DEF Sound
<1> QED BY <1>1, <1>2, <1>3 DEF Facts

\* The facts, one by one.
LEMMA FactsTell ==
  /\ \A p \in Pod : /\ Sound(pods[p]) => <<p, "up">> \in Facts
                    /\ <<p, member[p]>> \in Facts
                    /\ Online = Pod /\ Primaries = {p} => <<p, "leads">> \in Facts
  /\ online = N => <<NoPod, "status">> \in Facts
  /\ (\A p \in Pod : pods[p].exists) /\ routers.pods = R => <<NoPod, "made">> \in Facts
  /\ RoutersRun => <<NoPod, "routers">> \in Facts
<1>1. \A p \in Pod : Sound(pods[p]) => <<p, "up">> \in Facts
  BY DEF Facts
<1>2. \A p \in Pod : <<p, member[p]>> \in Facts
  BY DEF Facts
<1>3. \A p \in Pod : Online = Pod /\ Primaries = {p} => <<p, "leads">> \in Facts
  BY DEF Facts
<1>4. online = N => <<NoPod, "status">> \in Facts
  BY DEF Facts
<1>5. (\A p \in Pod : pods[p].exists) /\ routers.pods = R => <<NoPod, "made">> \in Facts
  BY DEF Facts
<1>6. RoutersRun => <<NoPod, "routers">> \in Facts
  BY DEF Facts
<1> QED BY <1>1, <1>2, <1>3, <1>4, <1>5, <1>6

\* A nil given stands for what was met then.
LEMMA NilStays ==
  ASSUME NilWasTrue, met \subseteq met', flaws' = flaws, params' = params, result' \in {result, "error"}
  PROVE  NilWasTrue'
<1> SUFFICES ASSUME result' = "nil" PROVE NilWasTrue'
  BY DEF NilWasTrue
<1>1. /\ flaws = {} /\ {<<NoPod, fact>> : fact \in {"status", "made", "routers"}} \subseteq met
      /\ \E leader, q \in Pod :
            /\ <<leader, "leads">> \in met
            /\ q = IF params.primary = NoPrimary THEN leader ELSE params.primary
            /\ \A p \in Pod : Found(p, q) \subseteq met
  BY DEF NilWasTrue
<1>2. PICK leader \in Pod, q \in Pod :
            /\ <<leader, "leads">> \in met
            /\ q = IF params.primary = NoPrimary THEN leader ELSE params.primary
            /\ \A p \in Pod : Found(p, q) \subseteq met
  BY <1>1
<1>3. \A p \in Pod : Found(p, q) \subseteq met'
  BY <1>2
<1>4. {<<NoPod, fact>> : fact \in {"status", "made", "routers"}} \subseteq met'
  BY <1>1
<1>5. NilWasTrue' <=>
        (result' = "nil" =>
          /\ flaws' = {} /\ {<<NoPod, fact>> : fact \in {"status", "made", "routers"}} \subseteq met'
          /\ \E l, r \in Pod :
                /\ <<l, "leads">> \in met'
                /\ r = IF params'.primary = NoPrimary THEN l ELSE params'.primary
                /\ \A p \in Pod : Found(p, r) \subseteq met')
  BY DEF NilWasTrue, Found
<1>6. <<leader, "leads">> \in met'
  BY <1>2
<1> QED BY <1>1, <1>2, <1>3, <1>4, <1>5, <1>6

\* What was met stays met when the cluster changes.
LEMMA MetChange ==
  ASSUME CheckInv, MetInv, NilWasTrue, ClusterChange
  PROVE  MetInv' /\ NilWasTrue'
<1>1. /\ met' = Facts' \cup (IF pc = "idle" THEN {} ELSE met)
      /\ UNCHANGED <<pc, params, flaws, icobj, allPods, primary, at, result>>
  BY ChangeOfCluster, Zenon DEF Change
<1>2. CASE pc = "idle"
  BY <1>1, <1>2 DEF MetInv, NilWasTrue, Visiting, CheckInv, ReadInv
<1>3. CASE pc # "idle"
  <2>1. met \subseteq met' /\ Facts' \subseteq met'
    BY <1>1, <1>3
  <2>2. NilWasTrue'
    BY <1>1, <2>1, NilStays
  <2>3. Visited' = Visited
    BY <1>1 DEF Visited
  <2>4. \A p : Sound(allPods[p])' = Sound(allPods[p])
    BY <1>1 DEF Sound
  <2>5. \A p, kinds : Has(p, kinds)' = Has(p, kinds)
    BY <1>1 DEF Has
  <2>6. MetInv'
    BY <1>1, <2>1, <2>3, <2>4, <2>5 DEF MetInv, Found
  <2> QED BY <2>2, <2>6
<1> QED BY <1>2, <1>3

\* A step that reads nothing of the visits, or returns an error, claims nothing.
LEMMA MetElsewhere ==
  ASSUME MetInv, NilWasTrue, UNCHANGED <<cluster_vars, params>>, result' \in {result, "error"},
         pc' \notin {"getPod", "spec", "openGroup", "queryGroup", "routers"} \cup Visiting
  PROVE  MetInv' /\ NilWasTrue'
<1>1. Facts' = Facts /\ met' = met /\ params' = params /\ flaws' = flaws
  BY FactsStay DEF cluster_vars
<1>2. MetInv'
  BY <1>1 DEF MetInv, Visiting
<1>3. NilWasTrue'
  BY <1>1, NilStays
<1> QED BY <1>2, <1>3

LEMMA MetError ==
  ASSUME MetInv, NilWasTrue, Return("error")
  PROVE  MetInv' /\ NilWasTrue'
BY MetElsewhere DEF Return, Visiting

\* What a step that goes on leaves as it was.
LEMMA MetGoesOn ==
  ASSUME MetInv, NilWasTrue, NEW next, Goto(next)
  PROVE  /\ pc' = next /\ met' = met /\ params' = params /\ Facts' \subseteq met'
         /\ NilWasTrue'
         /\ \A p : allPods' = allPods => Sound(allPods[p])' = Sound(allPods[p])
         /\ \A p, kinds : Has(p, kinds)' = Has(p, kinds)
<1>1. pc' = next /\ UNCHANGED <<cluster_vars, params, result>>
  BY DEF Goto
<1>2. Facts' = Facts /\ met' = met /\ flaws' = flaws /\ params' = params
  BY <1>1, FactsStay DEF cluster_vars
<1>3. NilWasTrue'
  BY <1>1, <1>2, NilStays
<1>4. \A p : allPods' = allPods => Sound(allPods[p])' = Sound(allPods[p])
  BY <1>2 DEF Sound
<1>5. \A p, kinds : Has(p, kinds)' = Has(p, kinds)
  BY <1>2 DEF Has
<1> QED BY <1>1, <1>2, <1>3, <1>4, <1>5 DEF MetInv

LEMMA MetGet ==
  ASSUME CheckInv, MetInv, NilWasTrue, GetInnoDBCluster \/ GetPod \/ CheckSpec
  PROVE  MetInv' /\ NilWasTrue'
<1>1. at \in Pod /\ allPods \in [Pod -> PodObject] /\ Facts \subseteq met /\ N \in Nat
  BY DEF CheckInv, DataTypeOK, ClusterTypeOK, CallTypeOK, MetInv
<1>2. CASE GetInnoDBCluster
  <2>1. pc' = "getPod" /\ met' = met /\ Facts' \subseteq met' /\ NilWasTrue' /\ icobj' = online /\ at' = 0
    BY <1>2, MetGoesOn DEF GetInnoDBCluster
  <2>2. icobj' = N => <<NoPod, "status">> \in met'
    BY <1>1, <2>1, FactsTell
  <2>3. 0..(at' - 1) = {}
    BY <2>1
  <2> QED BY <2>1, <2>2, <2>3 DEF MetInv, Visiting
<1>3. CASE GetPod /\ (Goto("getPod") \/ Goto("spec"))
  <2>1. /\ pc = "getPod" /\ allPods' = [allPods EXCEPT ![at] = pods[at]] /\ icobj' = icobj
        /\ \/ at < N - 1 /\ pc' = "getPod" /\ at' = at + 1
           \/ at >= N - 1 /\ pc' = "spec" /\ at' = at
        /\ met' = met /\ Facts' \subseteq met' /\ NilWasTrue' /\ params' = params
    BY <1>1, <1>3, MetGoesOn DEF GetPod, Goto, Error, Return, Pod
  <2>2. ASSUME NEW p \in 0..at, Sound(allPods[p])' PROVE <<p, "up">> \in met'
    <3>1. p \in Pod
      BY <1>1 DEF Pod
    <3>2. CASE p = at
      <4>1. allPods'[p] = pods[p]
        BY <1>1, <2>1, <3>2
      <4>2. Sound(pods[p])
        BY <2>1, <2>2, <4>1 DEF Sound
      <4> QED BY <1>1, <2>1, <3>1, <4>2, FactsTell
    <3>3. CASE p # at
      <4>1. p \in 0..(at - 1) /\ allPods'[p] = allPods[p]
        BY <1>1, <2>1, <3>1, <3>3 DEF Pod
      <4>2. Sound(allPods[p])
        BY <2>1, <2>2, <4>1 DEF Sound
      <4> QED BY <2>1, <4>1, <4>2 DEF MetInv
    <3> QED BY <3>2, <3>3
  <2>3. (IF pc' = "getPod" THEN 0..(at' - 1) ELSE Pod) = 0..at
    BY <1>1, <2>1 DEF Pod
  <2>4. icobj' = N => <<NoPod, "status">> \in met'
    BY <2>1 DEF MetInv
  <2> QED BY <2>1, <2>2, <2>3, <2>4 DEF MetInv, Visiting
<1>4. CASE GetPod /\ Return("error")
  BY <1>4, MetError
<1>5. CASE CheckSpec /\ SpecMet /\ Goto("openGroup")
  <2>1. /\ pc = "spec" /\ pc' = "openGroup" /\ met' = met /\ Facts' \subseteq met' /\ NilWasTrue'
        /\ UNCHANGED <<icobj, allPods>>
        /\ \A p : Sound(allPods[p])' = Sound(allPods[p])
        /\ \A p, kinds : Has(p, kinds)' = Has(p, kinds)
    BY <1>5, MetGoesOn DEF CheckSpec
  <2>2. icobj = N /\ <<NoPod, "made">> \in Facts /\ ~Has(NoPod, ClusterFlaw)
    BY <1>5, FactsTell DEF SpecMet
  <2> QED BY <1>1, <2>1, <2>2 DEF MetInv, Visiting
<1>6. CASE CheckSpec /\ ~SpecMet
  BY <1>6, MetError DEF CheckSpec, Error
<1> QED BY <1>2, <1>3, <1>4, <1>5, <1>6 DEF GetPod, CheckSpec, Error

LEMMA MetGroup ==
  ASSUME CheckInv, MetInv, NilWasTrue, CheckGroup
  PROVE  MetInv' /\ NilWasTrue'
<1>1. CASE Error
  BY <1>1, MetError DEF Error
<1>2. CASE Goto("pod")
  <2>1. /\ pc = "queryGroup" /\ pc' = "pod" /\ met' = met /\ Facts' \subseteq met' /\ NilWasTrue' /\ params' = params
        /\ UNCHANGED <<icobj, allPods, at>>
        /\ \A p : Sound(allPods[p])' = Sound(allPods[p])
        /\ \A p, kinds : Has(p, kinds)' = Has(p, kinds)
    BY <1>2, MetGoesOn DEF CheckGroup
  <2>2. /\ Cardinality(Online) = N /\ Cardinality(Primaries) = 1
        /\ primary' \in (IF params.primary = NoPrimary THEN Primaries ELSE {params.primary})
    BY <1>2 DEF CheckGroup, Goto, Error, Return
  <2>3. Online = Pod
    BY <2>2, PodsFinite DEF Online
  <2>4. PICK leader : Primaries = {leader}
    <3>1. IsFiniteSet(Primaries)
      BY PodsFinite DEF Primaries
    <3> QED BY <2>2, <3>1, FS_Singleton
  <2>5. leader \in Pod /\ <<leader, "leads">> \in met'
    <3>1. leader \in Pod
      BY <2>4 DEF Primaries
    <3> QED BY <2>1, <2>3, <2>4, <3>1, FactsTell DEF MetInv
  <2>6. primary' = IF params.primary = NoPrimary THEN leader ELSE params.primary
    BY <2>2, <2>4
  <2>7. Visited' = {}
    <3>1. at = 0
      BY <2>1 DEF CheckInv, SessionInv
    <3> QED BY <2>1, <3>1 DEF Visited
  <2> QED BY <2>1, <2>5, <2>6, <2>7 DEF MetInv, Visiting
<1> QED BY <1>1, <1>2 DEF CheckGroup

\* A step of a visit that reads nothing new.
LEMMA MetVisit ==
  ASSUME MetInv, NilWasTrue, NEW next \in {"labels", "openInstance", "queryInstance"}, Goto(next),
         UNCHANGED <<icobj, allPods, primary, at>>,
         \/ pc \in {"labels", "openInstance"}
         \/ pc = "pod" /\ <<at, "up">> \in met /\ ~Has(at, PodFlaw)
  PROVE  MetInv' /\ NilWasTrue'
<1>1. /\ pc' = next /\ met' = met /\ Facts' \subseteq met' /\ NilWasTrue' /\ params' = params
      /\ \A p : Sound(allPods[p])' = Sound(allPods[p])
      /\ \A p, kinds : Has(p, kinds)' = Has(p, kinds)
  BY MetGoesOn
<1>2. Visited' = Visited
  BY <1>1 DEF Visited
<1> QED BY <1>1, <1>2 DEF MetInv, Visiting, Found

LEMMA MetPod ==
  ASSUME CheckInv, MetInv, NilWasTrue, CheckOnlinePod \/ LookAgain \/ LabelsDone
  PROVE  MetInv' /\ NilWasTrue'
<1>1. CASE CheckOnlinePod /\ PodMet(at)
  <2>1. at \in Pod
    BY DEF CheckInv, DataTypeOK, ClusterTypeOK, CallTypeOK
  <2>2. <<at, "up">> \in met /\ ~Has(at, PodFlaw)
    BY <1>1, <2>1 DEF PodMet, MetInv, CheckOnlinePod, Visiting
  <2> QED BY <1>1, <2>2, MetVisit DEF CheckOnlinePod
<1>2. CASE CheckOnlinePod /\ ~PodMet(at)
  BY <1>2, MetError DEF CheckOnlinePod, Error
<1>3. CASE LookAgain \/ LabelsDone
  BY <1>3, MetVisit, MetError DEF LookAgain, LabelsDone, Error
<1> QED BY <1>1, <1>2, <1>3

LEMMA MetOpen ==
  ASSUME MetInv, NilWasTrue,
         \/ OpenSession("openGroup", "queryGroup") \/ OpenFails("openGroup")
         \/ OpenSession("openInstance", "queryInstance") \/ OpenFails("openInstance")
  PROVE  MetInv' /\ NilWasTrue'
<1>1. UNCHANGED <<icobj, allPods, primary, at>>
  BY DEF OpenSession, OpenFails
<1>2. CASE Return("error")
  BY <1>2, MetError
<1>3. CASE pc = "openGroup" /\ (Goto("openGroup") \/ Goto("queryGroup"))
  <2>1. /\ pc' \in {"openGroup", "queryGroup"} /\ met' = met /\ Facts' \subseteq met' /\ NilWasTrue'
        /\ \A p : Sound(allPods[p])' = Sound(allPods[p])
        /\ \A p, kinds : Has(p, kinds)' = Has(p, kinds)
    BY <1>1, <1>3, MetGoesOn
  <2> QED BY <1>1, <1>3, <2>1 DEF MetInv, Visiting
<1>4. CASE pc = "openInstance" /\ (Goto("openInstance") \/ Goto("queryInstance"))
  BY <1>1, <1>4, MetVisit
<1> QED BY <1>2, <1>3, <1>4 DEF OpenSession, OpenFails

LEMMA MetInstance ==
  ASSUME CheckInv, MetInv, NilWasTrue, CheckInstance
  PROVE  MetInv' /\ NilWasTrue'
<1>1. CASE InstanceMet(at) /\ Goto("sidecar")
  <2>1. /\ pc = "queryInstance" /\ pc' = "sidecar" /\ met' = met /\ Facts' \subseteq met' /\ NilWasTrue'
        /\ params' = params /\ UNCHANGED <<icobj, allPods, primary, at>>
        /\ \A p : Sound(allPods[p])' = Sound(allPods[p])
        /\ \A p, kinds : Has(p, kinds)' = Has(p, kinds)
    BY <1>1, MetGoesOn DEF CheckInstance
  <2>2. Visited' = Visited
    BY <2>1 DEF Visited
  <2>3. member[at] = IF at = primary THEN "PRIMARY" ELSE "SECONDARY"
    <3>1. at \in Pod /\ member \in [Pod -> {"PRIMARY", "SECONDARY", "OFFLINE"}]
      BY DEF CheckInv, DataTypeOK, ClusterTypeOK, CallTypeOK
    <3> QED BY <1>1, <3>1 DEF InstanceMet, CheckInstance
  <2>4. Found(at, primary) \subseteq met
    <3>1. at \in Pod
      BY DEF CheckInv, DataTypeOK, ClusterTypeOK, CallTypeOK
    <3>2. <<at, member[at]>> \in met
      BY <3>1, FactsTell DEF MetInv
    <3>3. <<at, "up">> \in met
      BY <2>1 DEF MetInv, Visiting
    <3> QED BY <2>3, <3>2, <3>3 DEF Found
  <2>5. ~Has(at, InstanceFlaw)
    BY <1>1 DEF InstanceMet
  <2> QED BY <2>1, <2>2, <2>4, <2>5 DEF MetInv, Visiting, Found
<1>2. CASE Error
  BY <1>2, MetError DEF Error
<1> QED BY <1>1, <1>2 DEF CheckInstance

LEMMA MetSidecar ==
  ASSUME CheckInv, MetInv, NilWasTrue, CheckSidecar
  PROVE  MetInv' /\ NilWasTrue'
<1>1. CASE Error
  BY <1>1, MetError DEF Error
<1>2. CASE Goto("pod") \/ Goto("routers")
  <2>1. /\ pc = "sidecar" /\ at \in Pod /\ <<at, "sidecar">> \notin flaws
        /\ \/ at < N - 1 /\ pc' = "pod" /\ at' = at + 1
           \/ at >= N - 1 /\ pc' = "routers" /\ at' = at
    BY <1>2 DEF CheckSidecar, Goto, Error, Return, CheckInv, DataTypeOK, ClusterTypeOK, CallTypeOK, Pod
  <2>2. /\ met' = met /\ Facts' \subseteq met' /\ NilWasTrue'
        /\ params' = params /\ UNCHANGED <<icobj, allPods, primary>>
        /\ \A p : Sound(allPods[p])' = Sound(allPods[p])
        /\ \A p, kinds : Has(p, kinds)' = Has(p, kinds)
    BY <1>2, MetGoesOn DEF CheckSidecar
  <2>3. Visited = 0..(at - 1) /\ Visited' = 0..at
    BY <2>1 DEF Visited, Pod
  <2>4. ASSUME NEW p \in 0..at
        PROVE  Found(p, primary) \subseteq met /\ ~Has(p, PodFlaw \cup InstanceFlaw \cup {"sidecar"})
    <3>1. CASE p = at
      BY <2>1, <3>1 DEF MetInv, Has, Visiting
    <3>2. CASE p # at
      <4>1. p \in Visited
        BY <2>1, <2>3, <2>4, <3>2 DEF Pod
      <4> QED BY <2>1, <4>1 DEF MetInv, Visiting
    <3> QED BY <3>1, <3>2
  <2>5. /\ icobj = N /\ <<NoPod, "made">> \in met /\ <<NoPod, "status">> \in met /\ ~Has(NoPod, ClusterFlaw)
        /\ \A p \in Pod : Sound(allPods[p]) => <<p, "up">> \in met
        /\ \E leader \in Pod : /\ <<leader, "leads">> \in met
                              /\ primary = IF params.primary = NoPrimary THEN leader ELSE params.primary
    BY <2>1 DEF MetInv, Visiting
  <2> QED BY <2>1, <2>2, <2>3, <2>4, <2>5 DEF MetInv, Visiting, Found
<1> QED BY <1>1, <1>2 DEF CheckSidecar

LEMMA MetRouters ==
  ASSUME CheckInv, MetInv, NilWasTrue, CheckRouters
  PROVE  MetInv' /\ NilWasTrue'
<1>1. CASE RoutersRun /\ Return("nil")
  <2>1. pc = "routers" /\ pc' = "done" /\ UNCHANGED <<cluster_vars, params>>
    BY <1>1 DEF CheckRouters, Return
  <2>2. Facts' = Facts /\ met' = met /\ flaws' = flaws /\ params' = params
    BY <2>1, FactsStay DEF cluster_vars
  <2>3. MetInv'
    BY <2>1, <2>2 DEF MetInv, Visiting
  <2>4. {<<NoPod, fact>> : fact \in {"status", "made", "routers"}} \subseteq met
    BY <1>1, <2>1, FactsTell DEF MetInv
  <2>5. Visited = Pod
    BY <2>1 DEF Visited
  <2>6. PICK leader \in Pod : /\ <<leader, "leads">> \in met
                             /\ primary = IF params.primary = NoPrimary THEN leader ELSE params.primary
    BY <2>1 DEF MetInv
  <2>7. /\ \A p \in Pod : Found(p, primary) \subseteq met /\ ~Has(p, PodFlaw \cup InstanceFlaw \cup {"sidecar"})
        /\ ~Has(NoPod, ClusterFlaw)
    BY <2>1, <2>5 DEF MetInv
  <2>8. flaws = {}
    <3>1. flaws \subseteq Flaw
      BY DEF CheckInv, DataTypeOK, ClusterTypeOK
    <3> QED BY <2>7, <3>1 DEF Has
  <2>9. primary \in Pod
    BY <2>6 DEF CheckInv, DataTypeOK, ClusterTypeOK, CallTypeOK
  <2>10. NilWasTrue'
    <3> SUFFICES /\ flaws = {} /\ {<<NoPod, fact>> : fact \in {"status", "made", "routers"}} \subseteq met
                 /\ \E l, q \in Pod : /\ <<l, "leads">> \in met
                                      /\ q = IF params.primary = NoPrimary THEN l ELSE params.primary
                                      /\ \A p \in Pod : Found(p, q) \subseteq met
      BY <2>2 DEF NilWasTrue, Found
    <3> QED BY <2>4, <2>6, <2>7, <2>8, <2>9
  <2> QED BY <2>3, <2>10
<1>2. CASE Error
  BY <1>2, MetError DEF Error
<1> QED BY <1>1, <1>2 DEF CheckRouters

LEMMA MetStep ==
  ASSUME CheckInv, MetInv, NilWasTrue, Begin \/ CheckStep
  PROVE  MetInv' /\ NilWasTrue'
<1>1. CASE Begin \/ PollRouters
  <2>1. CASE Error
    BY <2>1, MetError DEF Error
  <2>2. CASE \E next \in {"wait", "get"} : Goto(next)
    BY <2>2, MetElsewhere DEF Goto, Visiting
  <2> QED BY <1>1, <2>1, <2>2 DEF Begin, PollRouters
<1>2. CASE QueryFails \/ \E label \in {"wait", "get", "getPod", "spec", "labels", "sidecar", "routers"} :
                           CallFails(label)
  BY <1>2, MetError DEF QueryFails, CallFails
<1>3. CASE CheckStep /\ ~(PollRouters \/ QueryFails
              \/ \E label \in {"wait", "get", "getPod", "spec", "labels", "sidecar", "routers"} : CallFails(label))
  BY <1>3, MetGet, MetGroup, MetPod, MetOpen, MetInstance, MetSidecar, MetRouters DEF CheckStep
<1> QED BY <1>1, <1>2, <1>3

\* So does what leaves all of CheckAll alone.
LEMMA MetSame ==
  ASSUME MetInv, NilWasTrue, UNCHANGED vars
  PROVE  MetInv' /\ NilWasTrue'
<1>1. UNCHANGED <<cluster_vars, params, flaws, met, pc, icobj, allPods, primary, at, result>>
  BY DEF vars, cluster_vars
<1>2. Facts' = Facts /\ Visited' = Visited
  BY <1>1, FactsStay DEF Visited
<1>3. \A p : Sound(allPods[p])' = Sound(allPods[p])
  BY <1>1 DEF Sound
<1>4. \A p, kinds : Has(p, kinds)' = Has(p, kinds)
  BY <1>1 DEF Has
<1>5. NilWasTrue'
  BY <1>1, NilStays
<1>6. MetInv'
  BY <1>1, <1>2, <1>3, <1>4 DEF MetInv, Found
<1> QED BY <1>5, <1>6

\* The steps of CheckData leave what CheckAll found alone.
LEMMA MetData ==
  ASSUME MetInv, NilWasTrue, BeginData \/ DataStep
  PROVE  MetInv' /\ NilWasTrue'
<1>1. UNCHANGED <<cluster_vars, params, result>>
  <2>1. CASE BeginData
    BY <2>1 DEF BeginData, check_vars, cluster_vars
  <2>2. CASE DataStep
    BY <2>2 DEF DataStep, OpenDataSession, OpenSession, Goto, OpenDataFails, ReadGtids, ReadSchemas,
       ReportPrimary, WaitForGtids, CheckMissing, CheckErrant, CheckSchemas, CheckTables, DataQueryFails,
       Still, check_vars, cluster_vars
  <2> QED BY <2>1, <2>2
<1>2. pc' \notin {"getPod", "spec", "openGroup", "queryGroup", "routers"} \cup Visiting
  <2>1. CASE BeginData
    BY <2>1 DEF BeginData, Proceed, Visiting
  <2>2. CASE DataStep
    BY <2>2 DEF DataStep, OpenDataSession, OpenSession, Goto, OpenDataFails, ReadGtids, ReadSchemas,
       ReportPrimary, WaitForGtids, CheckMissing, CheckErrant, CheckSchemas, CheckTables, DataQueryFails,
       Turn, Proceed, Answer, Visiting
  <2> QED BY <2>1, <2>2
<1> QED BY <1>1, <1>2, MetElsewhere

\* Whatever the cluster does between the reads of CheckAll, a nil stands for what
\* has held since the call.
THEOREM NilHasBeenTrue == DataSpec => []NilWasTrue
<1>1. DataInit => MetInv /\ NilWasTrue
  BY DEF DataInit, Init, MetInv, NilWasTrue, Visiting
<1>2. CheckInv /\ MetInv /\ NilWasTrue /\ [DataNext]_all_vars => (MetInv /\ NilWasTrue)'
  <2> SUFFICES ASSUME CheckInv, MetInv, NilWasTrue, [DataNext]_all_vars
               PROVE  MetInv' /\ NilWasTrue'
    OBVIOUS
  <2>1. CASE UNCHANGED all_vars \/ DataChange
    <3>1. UNCHANGED vars
      BY <2>1 DEF all_vars, vars, DataChange
    <3> QED BY <3>1, MetSame
  <2>2. CASE BeginData \/ DataStep
    BY <2>2, MetData
  <2>3. CASE CheckNext
    BY <2>3, MetStep, MetChange DEF CheckNext
  <2> QED BY <2>1, <2>2, <2>3 DEF DataNext
<1> QED BY <1>1, <1>2, CheckInvHolds, PTL DEF DataSpec

-----------------------------------------------------------------------------
(* Each step brings a check nearer to its verdict. *)

\* What a pod, and a secondary, more to go takes.
LEMMA StepsGrow ==
  /\ DataSteps \in Nat /\ DataSteps = CompareSteps(N - 1) + MaxTrials + 4
  /\ \A n \in Nat : /\ VisitSteps(n) \in Nat /\ VisitSteps(n) >= 1 + DataSteps
                    /\ VisitSteps(n + 1) = VisitSteps(n) + MaxLooks + MaxTrials + 4
  /\ VisitSteps(0) = 1 + DataSteps
  /\ \A n \in Nat : CompareSteps(n) \in Nat /\ CompareSteps(n + 1) = CompareSteps(n) + MaxTrials + 5
  /\ CompareSteps(0) = 0
<1>1. PodSteps \in Nat /\ SecondarySteps \in Nat
  BY DEF PodSteps, SecondarySteps
<1>2. \A S \in Nat : 0 * S = 0 /\ \A n \in Nat : n * S \in Nat /\ (n + 1) * S = n * S + S
  OBVIOUS
<1>3. /\ \A n \in Nat : CompareSteps(n) \in Nat /\ CompareSteps(n + 1) = CompareSteps(n) + SecondarySteps
      /\ CompareSteps(0) = 0
  BY <1>1, <1>2 DEF CompareSteps
<1>4. DataSteps = CompareSteps(N - 1) + MaxTrials + 4
  BY DEF DataSteps, CompareSteps
<1>5. DataSteps \in Nat
  BY <1>3, <1>4
<1>6. \A n \in Nat : n * PodSteps \in Nat /\ (n + 1) * PodSteps = n * PodSteps + PodSteps /\ 0 * PodSteps = 0
  BY <1>1, <1>2
<1>7. \A n \in Nat : /\ VisitSteps(n) \in Nat /\ VisitSteps(n) >= 1 + DataSteps
                     /\ VisitSteps(n + 1) = VisitSteps(n) + PodSteps
  <2> SUFFICES ASSUME NEW n \in Nat
               PROVE  /\ VisitSteps(n) \in Nat /\ VisitSteps(n) >= 1 + DataSteps
                      /\ VisitSteps(n + 1) = VisitSteps(n) + PodSteps
    OBVIOUS
  <2>1. VisitSteps(n) = n * PodSteps + 1 + DataSteps /\ VisitSteps(n + 1) = (n + 1) * PodSteps + 1 + DataSteps
    BY DEF VisitSteps
  <2>2. n * PodSteps \in Nat /\ (n + 1) * PodSteps = n * PodSteps + PodSteps
    BY <1>6
  <2> QED BY <1>1, <1>5, <2>1, <2>2
<1>8. VisitSteps(0) = 1 + DataSteps
  <2>1. VisitSteps(0) = 0 * PodSteps + 1 + DataSteps
    BY DEF VisitSteps
  <2> QED BY <1>5, <1>6, <2>1
<1> QED BY <1>3, <1>4, <1>5, <1>7, <1>8 DEF PodSteps, SecondarySteps

\* The steps left, place by place.
LEMMA StepsBefore ==
  ASSUME NEW pod, NEW left, NEW n, NEW ok
  PROVE  /\ StepsFrom("idle", pod, left, n, ok) = VisitSteps(N) + N + MaxTrials + 4 + left
         /\ StepsFrom("wait", pod, left, n, ok) = VisitSteps(N) + N + MaxTrials + 3 + left
         /\ StepsFrom("get", pod, left, n, ok) = VisitSteps(N) + N + MaxTrials + 3
         /\ StepsFrom("getPod", pod, left, n, ok) = VisitSteps(N) + N + MaxTrials + 2 - pod
         /\ StepsFrom("spec", pod, left, n, ok) = VisitSteps(N) + MaxTrials + 2
         /\ StepsFrom("openGroup", pod, left, n, ok) = VisitSteps(N) + 1 + left
         /\ StepsFrom("queryGroup", pod, left, n, ok) = VisitSteps(N) + 1
BY DEF StepsFrom

LEMMA StepsOfPods ==
  ASSUME NEW pod \in Nat, NEW left \in Nat, NEW n, NEW ok
  PROVE  /\ StepsFrom("pod", pod, left, n, ok) = VisitSteps(N - pod)
         /\ StepsFrom("labels", pod, left, n, ok) = VisitSteps(N - 1 - pod) + MaxTrials + 3 + left
         /\ StepsFrom("openInstance", pod, left, n, ok) = VisitSteps(N - 1 - pod) + 2 + left
         /\ StepsFrom("queryInstance", pod, left, n, ok) = VisitSteps(N - 1 - pod) + 2
         /\ StepsFrom("sidecar", pod, left, n, ok) = VisitSteps(N - 1 - pod) + 1
BY DEF StepsFrom

LEMMA StepsOfRest ==
  ASSUME NEW pod, NEW left, NEW n, NEW ok
  PROVE  /\ StepsFrom("routers", pod, left, n, ok) = VisitSteps(0)
         /\ StepsFrom("done", pod, left, n, TRUE) = DataSteps
         /\ StepsFrom("done", pod, left, n, FALSE) = 0
BY DEF StepsFrom

LEMMA StepsOfData ==
  ASSUME NEW pod, NEW left, NEW n, NEW ok
  PROVE  /\ StepsFrom("openPrimary", pod, left, n, ok) = CompareSteps(n) + 3 + left
         /\ StepsFrom("readGtids", pod, left, n, ok) = CompareSteps(n) + 3
         /\ StepsFrom("readSchemas", pod, left, n, ok) = CompareSteps(n) + 2
         /\ StepsFrom("reportPrimary", pod, left, n, ok) = CompareSteps(n) + 1
         /\ StepsFrom("openSecondary", pod, left, n, ok) = CompareSteps(n - 1) + 5 + left
         /\ StepsFrom("wait1", pod, left, n, ok) = CompareSteps(n - 1) + 5
         /\ StepsFrom("missing", pod, left, n, ok) = CompareSteps(n - 1) + 4
         /\ StepsFrom("errant", pod, left, n, ok) = CompareSteps(n - 1) + 3
         /\ StepsFrom("schemas", pod, left, n, ok) = CompareSteps(n - 1) + 2
         /\ StepsFrom("tables", pod, left, n, ok) = CompareSteps(n - 1) + 1
         /\ StepsFrom("end", pod, left, n, ok) = 0
BY DEF StepsFrom

\* The numbers a check goes by.
LEMMA StepFacts ==
  ASSUME CheckInv
  PROVE  /\ at \in Nat /\ at <= N - 1 /\ trials \in Nat
         /\ VisitSteps(N) \in Nat /\ VisitSteps(N - 1 - at) \in Nat /\ VisitSteps(0) \in Nat
         /\ VisitSteps(N - at) = VisitSteps(N - 1 - at) + MaxLooks + MaxTrials + 4
         /\ VisitSteps(0) >= 1 + DataSteps /\ DataSteps \in Nat
         /\ secondaries \in SUBSET Pod
         /\ Cardinality(secondaries) \in Nat /\ CompareSteps(Cardinality(secondaries)) \in Nat
         /\ pc \in {"openSecondary"} \cup Comparing =>
               /\ Cardinality(secondaries) - 1 \in Nat
               /\ CompareSteps(Cardinality(secondaries) - 1) \in Nat
<1>1. at \in Nat /\ at <= N - 1 /\ trials \in Nat /\ at \in Pod /\ secondaries \in SUBSET Pod
  BY DEF CheckInv, DataTypeOK, ClusterTypeOK, CallTypeOK, Pod
<1>2. N - 1 - at \in Nat /\ N - at = (N - 1 - at) + 1 /\ N \in Nat /\ 0 \in Nat
  BY <1>1
<1>3. Cardinality(secondaries) \in Nat
  BY <1>1, PodsFinite
<1>4. pc \in {"openSecondary"} \cup Comparing => at \in secondaries
  BY DEF CheckInv, GtidInv
<1>5. pc \in {"openSecondary"} \cup Comparing => Cardinality(secondaries) - 1 \in Nat
  BY <1>1, <1>3, <1>4, OnePodLess
<1> QED BY <1>1, <1>2, <1>3, <1>5, StepsGrow

\* A check that is not over has a step left.
LEMMA StepsArePositive ==
  ASSUME CheckInv, pc \notin {"done", "end"}
  PROVE  StepsLeft \in Nat /\ StepsLeft >= 1
<1> DEFINE n == Cardinality(secondaries)
           ok == result = "nil"
<1>1. StepsLeft = StepsFrom(pc, at, trials, n, ok)
  BY DEF StepsLeft
<1> HIDE DEF n, ok
<1>2. CASE pc \in {"idle", "wait", "get", "getPod", "spec", "openGroup", "queryGroup"}
  BY <1>1, <1>2, StepFacts, StepsBefore
<1>3. CASE pc \in {"pod", "labels", "openInstance", "queryInstance", "sidecar", "routers"}
  <2>1. /\ at \in Nat /\ trials \in Nat /\ VisitSteps(N - 1 - at) \in Nat /\ VisitSteps(0) \in Nat
        /\ VisitSteps(N - at) = VisitSteps(N - 1 - at) + MaxLooks + MaxTrials + 4 /\ VisitSteps(0) >= 1
    BY StepFacts
  <2>2. CASE pc = "pod"
    <3>1. StepsLeft = VisitSteps(N - at)
      BY <1>1, <2>1, <2>2, StepsOfPods
    <3> QED BY <2>1, <3>1
  <2>4. CASE pc = "routers"
    <3>1. StepsLeft = VisitSteps(0)
      BY <1>1, <2>4, StepsOfRest
    <3> QED BY <2>1, <3>1
  <2>3. CASE pc \in {"labels", "openInstance", "queryInstance", "sidecar"}
    BY <1>1, <2>1, <2>3, StepsOfPods
  <2> QED BY <1>3, <2>2, <2>3, <2>4
<1>4. CASE pc \in {"openPrimary", "readGtids", "readSchemas", "reportPrimary"}
  BY <1>1, <1>4, StepFacts, StepsOfData DEF n
<1>5. CASE pc \in {"openSecondary", "wait1", "missing", "errant", "schemas", "tables"}
  BY <1>1, <1>5, StepFacts, StepsOfData DEF n, Comparing
<1>6. pc \in DataLabels
  BY DEF CheckInv, DataTypeOK
<1> QED BY <1>2, <1>3, <1>4, <1>5, <1>6 DEF DataLabels, Labels, Queries

\* An error of CheckAll, or any answer of CheckData, leaves none.
LEMMA StepsEnd ==
  ASSUME CheckInv, pc \notin {"done", "end"}, pc' = "end" \/ (pc' = "done" /\ result' = "error")
  PROVE  StepsLeft' \in 0..(StepsLeft - 1)
<1>1. StepsLeft \in Nat /\ StepsLeft >= 1
  BY StepsArePositive
<1>2. StepsLeft' = 0
  <2>1. StepsLeft' = StepsFrom(pc', at', trials', Cardinality(secondaries'), result' = "nil")
    BY DEF StepsLeft
  <2>2. CASE pc' = "end"
    BY <2>1, <2>2, StepsOfData
  <2>3. CASE pc' = "done" /\ result' = "error"
    <3>1. (result' = "nil") = FALSE
      BY <2>3
    <3> QED BY <2>1, <2>3, <3>1, StepsOfRest
  <2> QED BY <2>2, <2>3
<1> QED BY <1>1, <1>2

\* A step of CheckAll.
LEMMA CheckStepCounts ==
  ASSUME CheckInv, CheckInv', Begin \/ CheckStep
  PROVE  changes' = changes /\ StepsLeft' \in 0..(StepsLeft - 1)
<1> DEFINE n == Cardinality(secondaries)
           m == Cardinality(secondaries')
           ok == result = "nil"
<1>1. StepsLeft = StepsFrom(pc, at, trials, n, ok) /\ StepsLeft' = StepsFrom(pc', at', trials', m, ok')
  BY DEF StepsLeft
<1>2. \A next : Goto(next) => pc' = next /\ changes' = changes
  BY DEF Goto, cluster_vars
<1>3. \A what : Return(what) => pc' = "done" /\ result' = what /\ changes' = changes
  BY DEF Return, cluster_vars
<1>4. Error => Return("error")
  BY DEF Error
<1>5. /\ pc \in {"idle", "wait"} \cup Open => trials > 0
      /\ pc \in {"openGroup"} => at = 0
  BY DEF CheckInv, SessionInv
<1>6. trials' \in Nat /\ at' \in Nat /\ at' <= N - 1
  BY DEF CheckInv, DataTypeOK, ClusterTypeOK, CallTypeOK, Pod
<1>7. ASSUME Return("error"), pc \notin {"done", "end"}
      PROVE  changes' = changes /\ StepsLeft' \in 0..(StepsLeft - 1)
  BY <1>3, <1>7, StepsEnd
<1> HIDE DEF n, m, ok
<1>8. CASE Begin
  <2>1. pc = "idle" /\ pc' = "wait" /\ trials' = trials /\ changes' = changes
    BY <1>2, <1>8 DEF Begin
  <2> QED BY <1>1, <2>1, StepFacts, StepsBefore
<1>9. CASE PollRouters
  <2>1. pc = "wait"
    BY <1>9 DEF PollRouters
  <2>2. CASE Goto("get") \/ (Goto("wait") /\ trials' = trials - 1)
    <3>1. changes' = changes /\ (pc' = "get" \/ (pc' = "wait" /\ trials' = trials - 1))
      BY <1>2, <2>2
    <3> QED BY <1>1, <1>5, <2>1, <3>1, StepFacts, StepsBefore
  <2>3. CASE Return("error")
    BY <1>7, <2>1, <2>3
  <2> QED BY <1>4, <1>9, <2>2, <2>3 DEF PollRouters
<1>10. CASE GetInnoDBCluster
  <2>1. pc = "get" /\ pc' = "getPod" /\ at' = 0 /\ changes' = changes
    BY <1>2, <1>10 DEF GetInnoDBCluster
  <2> QED BY <1>1, <2>1, StepFacts, StepsBefore
<1>11. CASE GetPod
  <2>1. pc = "getPod"
    BY <1>11 DEF GetPod
  <2>2. CASE (Goto("getPod") /\ at' = at + 1) \/ Goto("spec")
    <3>1. changes' = changes /\ (pc' = "spec" \/ (pc' = "getPod" /\ at' = at + 1))
      BY <1>2, <2>2
    <3> QED BY <1>1, <1>6, <2>1, <3>1, StepFacts, StepsBefore
  <2>3. CASE Return("error")
    BY <1>7, <2>1, <2>3
  <2> QED BY <1>4, <1>11, <2>2, <2>3 DEF GetPod
<1>12. CASE CheckSpec
  <2>1. pc = "spec" /\ trials' = MaxTrials
    BY <1>12 DEF CheckSpec
  <2>2. CASE Goto("openGroup")
    <3>1. changes' = changes /\ pc' = "openGroup"
      BY <1>2, <2>2
    <3> QED BY <1>1, <2>1, <3>1, StepFacts, StepsBefore
  <2>3. CASE Return("error")
    BY <1>7, <2>1, <2>3
  <2> QED BY <1>4, <1>12, <2>2, <2>3 DEF CheckSpec
<1>13. CASE OpenSession("openGroup", "queryGroup")
  <2>1. pc = "openGroup" /\ pc' = "queryGroup" /\ changes' = changes
    BY <1>2, <1>13 DEF OpenSession
  <2> QED BY <1>1, <1>5, <2>1, StepFacts, StepsBefore DEF Open
<1>14. CASE OpenFails("openGroup")
  <2>1. pc = "openGroup" /\ trials' = trials - 1
    BY <1>14 DEF OpenFails
  <2>2. CASE Goto("openGroup")
    <3>1. pc' = "openGroup" /\ changes' = changes
      BY <1>2, <2>2
    <3> QED BY <1>1, <1>5, <2>1, <3>1, StepFacts, StepsBefore DEF Open
  <2>3. CASE Return("error")
    BY <1>7, <2>1, <2>3
  <2> QED BY <1>14, <2>2, <2>3 DEF OpenFails
<1>15. CASE CheckGroup
  <2>1. pc = "queryGroup" /\ at' = at /\ at = 0
    BY <1>15 DEF CheckGroup, CheckInv, SessionInv
  <2>2. CASE Goto("pod")
    <3>1. pc' = "pod" /\ changes' = changes
      BY <1>2, <2>2
    <3>2. N - at' = N
      BY <2>1
    <3>3. StepsLeft' = VisitSteps(N - at')
      BY <1>1, <1>6, <3>1, StepsOfPods
    <3>4. StepsLeft = VisitSteps(N) + 1
      BY <1>1, <2>1, StepsBefore
    <3> QED BY <3>1, <3>2, <3>3, <3>4, StepFacts
  <2>3. CASE Return("error")
    BY <1>7, <2>1, <2>3
  <2> QED BY <1>4, <1>15, <2>2, <2>3 DEF CheckGroup
<1>16. CASE CheckOnlinePod
  <2>1. pc = "pod" /\ at' = at /\ trials' = MaxLooks
    BY <1>16 DEF CheckOnlinePod
  <2>2. CASE Goto("labels")
    <3>1. pc' = "labels" /\ changes' = changes
      BY <1>2, <2>2
    <3> QED BY <1>1, <2>1, <3>1, StepFacts, StepsOfPods
  <2>3. CASE Return("error")
    BY <1>7, <2>1, <2>3
  <2> QED BY <1>4, <1>16, <2>2, <2>3 DEF CheckOnlinePod
<1>17. CASE LookAgain
  <2>1. pc = "labels" /\ at' = at /\ trials > 0 /\ trials' = trials - 1
    BY <1>17 DEF LookAgain
  <2>2. CASE Goto("labels")
    <3>1. pc' = "labels" /\ changes' = changes
      BY <1>2, <2>2
    <3> QED BY <1>1, <2>1, <3>1, StepFacts, StepsOfPods
  <2>3. CASE Return("error")
    BY <1>7, <2>1, <2>3
  <2> QED BY <1>4, <1>17, <2>2, <2>3 DEF LookAgain
<1>18. CASE LabelsDone
  <2>1. pc = "labels" /\ pc' = "openInstance" /\ at' = at /\ trials' = MaxTrials /\ changes' = changes
    BY <1>2, <1>18 DEF LabelsDone
  <2> QED BY <1>1, <2>1, StepFacts, StepsOfPods
<1>19. CASE OpenSession("openInstance", "queryInstance")
  <2>1. pc = "openInstance" /\ pc' = "queryInstance" /\ at' = at /\ changes' = changes
    BY <1>2, <1>19 DEF OpenSession
  <2>2. StepsLeft = VisitSteps(N - 1 - at) + 2 + trials /\ StepsLeft' = VisitSteps(N - 1 - at) + 2
    BY <1>1, <1>6, <2>1, StepFacts, StepsOfPods
  <2> QED BY <1>5, <2>1, <2>2, StepFacts DEF Open
<1>20. CASE OpenFails("openInstance")
  <2>1. pc = "openInstance" /\ at' = at /\ trials' = trials - 1
    BY <1>20 DEF OpenFails
  <2>2. CASE Goto("openInstance")
    <3>1. pc' = "openInstance" /\ changes' = changes
      BY <1>2, <2>2
    <3>2. /\ StepsLeft = VisitSteps(N - 1 - at) + 2 + trials
          /\ StepsLeft' = VisitSteps(N - 1 - at) + 2 + trials'
      BY <1>1, <1>6, <2>1, <3>1, StepFacts, StepsOfPods
    <3> QED BY <1>5, <2>1, <3>1, <3>2, StepFacts DEF Open
  <2>3. CASE Return("error")
    BY <1>7, <2>1, <2>3
  <2> QED BY <1>20, <2>2, <2>3 DEF OpenFails
<1>21. CASE CheckInstance
  <2>1. pc = "queryInstance" /\ at' = at
    BY <1>21 DEF CheckInstance
  <2>2. CASE Goto("sidecar")
    <3>1. pc' = "sidecar" /\ changes' = changes
      BY <1>2, <2>2
    <3>2. StepsLeft = VisitSteps(N - 1 - at) + 2 /\ StepsLeft' = VisitSteps(N - 1 - at) + 1
      BY <1>1, <1>6, <2>1, <3>1, StepFacts, StepsOfPods
    <3> QED BY <3>1, <3>2, StepFacts
  <2>3. CASE Return("error")
    BY <1>7, <2>1, <2>3
  <2> QED BY <1>4, <1>21, <2>2, <2>3 DEF CheckInstance
<1>22. CASE CheckSidecar
  <2>1. pc = "sidecar"
    BY <1>22 DEF CheckSidecar
  <2>2. CASE Goto("pod") /\ at' = at + 1
    <3>1. pc' = "pod" /\ changes' = changes /\ N - at' = N - 1 - at
      BY <1>2, <2>2, StepFacts
    <3>2. StepsLeft' = VisitSteps(N - at')
      BY <1>1, <1>6, <3>1, StepsOfPods
    <3>3. StepsLeft = VisitSteps(N - 1 - at) + 1
      BY <1>1, <2>1, StepFacts, StepsOfPods
    <3> QED BY <3>1, <3>2, <3>3, StepFacts
  <2>3. CASE Goto("routers") /\ at >= N - 1
    <3>1. pc' = "routers" /\ changes' = changes /\ N - 1 - at = 0
      BY <1>2, <2>3, StepFacts
    <3>2. StepsLeft' = VisitSteps(0)
      BY <1>1, <3>1, StepsOfRest
    <3>3. StepsLeft = VisitSteps(N - 1 - at) + 1
      BY <1>1, <2>1, StepFacts, StepsOfPods
    <3> QED BY <3>1, <3>2, <3>3, StepFacts
  <2>4. CASE Return("error")
    BY <1>7, <2>1, <2>4
  <2> QED BY <1>4, <1>22, <2>2, <2>3, <2>4, StepFacts DEF CheckSidecar
<1>23. CASE CheckRouters
  <2>1. pc = "routers"
    BY <1>23 DEF CheckRouters
  <2>2. CASE Return("nil")
    <3>1. pc' = "done" /\ changes' = changes /\ ok' = TRUE
      BY <1>3, <2>2 DEF ok
    <3>2. StepsLeft' = DataSteps
      BY <1>1, <3>1, StepsOfRest
    <3>3. StepsLeft = VisitSteps(0)
      BY <1>1, <2>1, StepsOfRest
    <3> QED BY <3>1, <3>2, <3>3, StepFacts
  <2>3. CASE Return("error")
    BY <1>7, <2>1, <2>3
  <2> QED BY <1>4, <1>23, <2>2, <2>3 DEF CheckRouters
<1>24. CASE QueryFails
  BY <1>7, <1>24 DEF QueryFails
<1>25. ASSUME NEW label \in {"wait", "get", "getPod", "spec", "labels", "sidecar", "routers"}, CallFails(label)
       PROVE  changes' = changes /\ StepsLeft' \in 0..(StepsLeft - 1)
  BY <1>7, <1>25 DEF CallFails
<1> QED
  BY <1>8, <1>9, <1>10, <1>11, <1>12, <1>13, <1>14, <1>15, <1>16, <1>17, <1>18, <1>19, <1>20, <1>21, <1>22,
     <1>23, <1>24, <1>25 DEF CheckStep

\* On to the next secondary, or to the end.
LEMMA TurnCounts ==
  ASSUME CheckInv, CheckInv', pc \in {"reportPrimary", "tables"}, trials' = trials,
         Turn(secondaries'), secondaries' = IF pc = "tables" THEN secondaries \ {at} ELSE secondaries
  PROVE  StepsLeft' \in 0..(StepsLeft - 1)
<1> DEFINE n == Cardinality(secondaries)
           m == Cardinality(secondaries')
           ok == result = "nil"
<1>1. StepsLeft = StepsFrom(pc, at, trials, n, ok) /\ StepsLeft' = StepsFrom(pc', at', trials', m, ok')
  BY DEF StepsLeft
<1>2. trials = MaxTrials /\ n \in Nat /\ CompareSteps(n) \in Nat
  BY StepFacts DEF CheckInv, SessionInv, Asking, Comparing
<1>3. pc = "tables" => /\ n - 1 \in Nat /\ CompareSteps(n - 1) \in Nat /\ m = n - 1
  <2> SUFFICES ASSUME pc = "tables" PROVE n - 1 \in Nat /\ CompareSteps(n - 1) \in Nat /\ m = n - 1
    OBVIOUS
  <2>1. at \in secondaries
    BY DEF CheckInv, GtidInv, Comparing
  <2> QED BY <2>1, StepFacts, OnePodLess DEF Comparing
<1>4. pc = "reportPrimary" => m = n
  OBVIOUS
<1>5. CASE secondaries' = {}
  BY <1>5, StepsEnd DEF Turn, Answer
<1>6. CASE secondaries' # {}
  <2>1. pc' = "openSecondary" /\ at' \in secondaries'
    BY <1>6 DEF Turn, Proceed, CheckInv, GtidInv
  <2>2. m - 1 \in Nat /\ m \in Nat
    <3>1. secondaries' \in SUBSET Pod
      BY DEF CheckInv, DataTypeOK
    <3>2. /\ Cardinality(secondaries') >= 1
          /\ Cardinality(secondaries' \ {at'}) = Cardinality(secondaries') - 1
          /\ Cardinality(secondaries' \ {at'}) \in Nat
      BY <2>1, <3>1, OnePodLess
    <3>3. Cardinality(secondaries') \in Nat
      BY <3>1, PodsFinite
    <3> QED BY <3>2, <3>3
  <2> HIDE DEF n, m, ok
  <2>3. /\ CompareSteps(m - 1) \in Nat /\ CompareSteps(m) \in Nat
        /\ CompareSteps(m) = CompareSteps(m - 1) + MaxTrials + 5
    <3>1. CompareSteps((m - 1) + 1) = CompareSteps(m - 1) + MaxTrials + 5 /\ (m - 1) + 1 = m
      BY <2>2, StepsGrow
    <3> QED BY <2>2, <3>1, StepsGrow
  <2>4. StepsLeft' = CompareSteps(m - 1) + 5 + MaxTrials
    BY <1>1, <1>2, <2>1, StepsOfData
  <2>5. StepsLeft = CompareSteps(m) + 1
    BY <1>1, <1>3, <1>4, StepsOfData
  <2> QED BY <2>2, <2>3, <2>4, <2>5
<1> QED BY <1>5, <1>6

\* A step of CheckData.
LEMMA DataStepCounts ==
  ASSUME CheckInv, CheckInv', DataStep
  PROVE  changes' = changes /\ executed' = executed /\ StepsLeft' \in 0..(StepsLeft - 1)
<1> DEFINE n == Cardinality(secondaries)
           m == Cardinality(secondaries')
           ok == result = "nil"
<1>1. StepsLeft = StepsFrom(pc, at, trials, n, ok) /\ StepsLeft' = StepsFrom(pc', at', trials', m, ok')
  BY DEF StepsLeft
<1>2. changes' = changes /\ executed' = executed
  BY DEF DataStep, OpenDataSession, OpenSession, Goto, OpenDataFails, ReadGtids, ReadSchemas, ReportPrimary,
         WaitForGtids, CheckMissing, CheckErrant, CheckSchemas, CheckTables, DataQueryFails, Still, check_vars,
         cluster_vars
<1>3. pc \in {"openPrimary", "openSecondary"} => trials > 0
  BY DEF CheckInv, SessionInv, Open
<1>4. \A what : Answer(what) => pc' = "end"
  BY DEF Answer
<1>5. \A next : Proceed(next) => pc' = next
  BY DEF Proceed
<1>6. ASSUME pc' = "end", pc \notin {"done", "end"}
      PROVE  StepsLeft' \in 0..(StepsLeft - 1)
  BY <1>6, StepsEnd
<1>7. trials \in Nat /\ trials' \in Nat /\ CompareSteps(n) \in Nat
  BY StepFacts DEF CheckInv, DataTypeOK, ClusterTypeOK, CallTypeOK
<1>8. pc \in {"openSecondary", "wait1", "missing", "errant", "schemas", "tables"} => CompareSteps(n - 1) \in Nat
  BY StepFacts DEF Comparing
<1>9. secondaries' = secondaries => m = n
  OBVIOUS
<1> HIDE DEF n, m, ok
<1>10. CASE OpenDataSession("openPrimary", "readGtids")
  <2>1. pc = "openPrimary" /\ pc' = "readGtids" /\ m = n
    BY <1>9, <1>10 DEF OpenDataSession, OpenSession, Goto
  <2> QED BY <1>1, <1>2, <1>3, <1>7, <2>1, StepsOfData
<1>11. CASE OpenDataSession("openSecondary", "wait1")
  <2>1. pc = "openSecondary" /\ pc' = "wait1" /\ m = n
    BY <1>9, <1>11 DEF OpenDataSession, OpenSession, Goto
  <2> QED BY <1>1, <1>2, <1>3, <1>7, <1>8, <2>1, StepsOfData
<1>12. CASE OpenDataFails("openPrimary")
  <2>1. pc = "openPrimary" /\ trials' = trials - 1 /\ m = n /\ pc' \in {"openPrimary", "end"}
    BY <1>9, <1>12 DEF OpenDataFails
  <2>2. CASE pc' = "openPrimary"
    BY <1>1, <1>2, <1>3, <1>7, <2>1, <2>2, StepsOfData
  <2> QED BY <1>2, <1>6, <2>1, <2>2
<1>13. CASE OpenDataFails("openSecondary")
  <2>1. pc = "openSecondary" /\ trials' = trials - 1 /\ m = n /\ pc' \in {"openSecondary", "end"}
    BY <1>9, <1>13 DEF OpenDataFails
  <2>2. CASE pc' = "openSecondary"
    BY <1>1, <1>2, <1>3, <1>7, <1>8, <2>1, <2>2, StepsOfData
  <2> QED BY <1>2, <1>6, <2>1, <2>2
<1>14. CASE ReadGtids \/ ReadSchemas
  <2>1. m = n /\ ((pc = "readGtids" /\ pc' = "readSchemas") \/ (pc = "readSchemas" /\ pc' = "reportPrimary"))
    BY <1>5, <1>9, <1>14 DEF ReadGtids, ReadSchemas
  <2> QED BY <1>1, <1>2, <1>7, <2>1, StepsOfData
<1>15. CASE WaitForGtids \/ CheckMissing \/ CheckErrant \/ CheckSchemas
  <2>1. /\ m = n
        /\ \/ pc = "wait1" /\ pc' = "missing"
           \/ pc = "missing" /\ pc' \in {"errant", "end"}
           \/ pc = "errant" /\ pc' \in {"schemas", "end"}
           \/ pc = "schemas" /\ pc' \in {"tables", "end"}
    BY <1>4, <1>5, <1>9, <1>15 DEF WaitForGtids, CheckMissing, CheckErrant, CheckSchemas
  <2>2. CASE pc' = "end"
    BY <1>2, <1>6, <2>1, <2>2
  <2>3. CASE pc' # "end"
    BY <1>1, <1>2, <1>8, <2>1, <2>3, StepsOfData
  <2> QED BY <2>2, <2>3
<1>16. CASE ReportPrimary
  <2>1. pc = "reportPrimary" /\ Turn(secondaries) /\ secondaries' = secondaries /\ trials' = trials
    BY <1>16 DEF ReportPrimary, Still
  <2>2. Turn(secondaries')
    BY <2>1 DEF Turn
  <2> QED BY <1>2, <2>1, <2>2, TurnCounts
<1>17. CASE CheckTables
  <2>1. pc = "tables" /\ secondaries' = secondaries \ {at} /\ trials' = trials
    BY <1>17 DEF CheckTables, Still
  <2>2. CASE Turn(secondaries')
    BY <1>2, <2>1, <2>2, TurnCounts
  <2>3. CASE Answer("tables")
    BY <1>2, <1>4, <1>6, <2>1, <2>3
  <2> QED BY <1>17, <2>2, <2>3 DEF CheckTables
<1>18. CASE DataQueryFails
  BY <1>2, <1>4, <1>6, <1>18 DEF DataQueryFails, Failure, Queries
<1> QED
  BY <1>10, <1>11, <1>12, <1>13, <1>14, <1>15, <1>16, <1>17, <1>18 DEF DataStep

\* The call of CheckData.
LEMMA BeginDataCounts ==
  ASSUME CheckInv, CheckInv', BeginData
  PROVE  changes' = changes /\ pc' # pc /\ StepsLeft' \in 0..(StepsLeft - 1)
<1>1. /\ pc = "done" /\ result = "nil" /\ pc' = "openPrimary" /\ changes' = changes
      /\ secondaries' = Pod \ {primary'} /\ trials' = MaxTrials
  BY DEF BeginData, Proceed, check_vars
<1>2. primary' \in Pod
  BY <1>1 DEF CheckInv, GtidInv, Labels
<1>3. Cardinality(secondaries') = N - 1
  BY <1>1, <1>2, PodsFinite, OnePodLess
<1>4. StepsLeft' = CompareSteps(N - 1) + 3 + MaxTrials
  BY <1>1, <1>3, StepsOfData DEF StepsLeft
<1>5. StepsLeft = DataSteps
  <2>1. (result = "nil") = TRUE
    BY <1>1
  <2>2. StepsLeft = StepsFrom("done", at, trials, Cardinality(secondaries), TRUE)
    BY <1>1, <2>1 DEF StepsLeft
  <2> QED BY <2>2, StepsOfRest
<1>6. CompareSteps(N - 1) \in Nat
  BY StepsGrow
<1> QED BY <1>1, <1>4, <1>5, <1>6, StepsGrow

\* Whatever happens meanwhile, the checks come to their verdict in a number of
\* steps that the pods and the trials give.
THEOREM ChecksComeToAnEnd == DataSpec => ChecksAreBounded
<1> DEFINE Nearer == IF changes' # changes \/ (executed' # executed /\ pc' = pc)
                     THEN StepsLeft' = StepsLeft
                     ELSE StepsLeft' \in 0..(StepsLeft - 1)
<1>1. CheckInv /\ CheckInv' /\ [DataNext]_all_vars => [Nearer]_all_vars
  <2> SUFFICES ASSUME CheckInv, CheckInv', DataNext
               PROVE  Nearer
    OBVIOUS
  <2>1. CASE (Begin \/ CheckStep) /\ UNCHANGED data_vars
    <3>1. executed' = executed
      BY <2>1 DEF data_vars
    <3> QED BY <2>1, <3>1, CheckStepCounts
  <2>2. CASE ClusterChange /\ UNCHANGED data_vars
    <3>1. changes' = changes + 1 /\ UNCHANGED <<pc, at, trials, result, secondaries>>
      BY <2>2, ChangeOfCluster DEF Change, data_vars
    <3>2. changes \in Nat
      BY DEF CheckInv, DataTypeOK, ClusterTypeOK
    <3>3. StepsLeft' = StepsLeft
      BY <3>1 DEF StepsLeft
    <3> QED BY <3>1, <3>2, <3>3
  <2>3. CASE BeginData
    BY <2>3, BeginDataCounts
  <2>4. CASE DataStep
    BY <2>4, DataStepCounts
  <2>5. CASE DataChange
    <3>1. UNCHANGED <<pc, at, trials, result, secondaries>>
      BY <2>5 DEF DataChange, vars
    <3>2. StepsLeft' = StepsLeft
      BY <3>1 DEF StepsLeft
    <3>3. executed' # executed
      <4>1. PICK p \in Pod, t \in Txn : t \notin executed[p] /\ executed' = [executed EXCEPT ![p] = @ \cup {t}]
        BY <2>5 DEF DataChange, Write, Replicate
      <4>2. executed \in [Pod -> SUBSET Txn]
        BY DEF CheckInv, DataTypeOK
      <4>3. t \in executed'[p]
        BY <4>1, <4>2
      <4> QED BY <4>1, <4>3
    <3> QED BY <3>1, <3>2, <3>3
  <2> QED BY <2>1, <2>2, <2>3, <2>4, <2>5 DEF DataNext, CheckNext
<1> QED BY <1>1, CheckInvHolds, PTL DEF DataSpec, ChecksAreBounded

=============================================================================
