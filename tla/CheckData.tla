------------------------------- MODULE CheckData -------------------------------
(***************************************************************************)
(* CheckData, which some tests call when CheckAll has passed: it compares  *)
(* the transactions and the data of the secondaries with those of the      *)
(* primary, while the group replicates and is written to.                  *)
(***************************************************************************)
EXTENDS CheckCluster

CONSTANTS
    Txn,      \* transactions
    Creates,  \* those among them that create a schema
    Rejected  \* queries that the server does not accept as they are written

\* "SHOW TABLES IN !" asks for an identifier in a way the driver does not know,
\* and the GTID sets given to gtid_subtract stand there without quotes.
AsWritten == {"reportPrimary", "missing", "errant", "tables"}

ASSUME DataAssumption == Creates \subseteq Txn /\ Rejected \subseteq AsWritten

VARIABLES
    executed,   \* gtid_executed of each pod; its data are what these made
    gtidSet0,   \* as read from the primary
    schemas0,   \* its schemas
    report0,    \* and what is in them
    secondaries, \* pods still to visit
    opened,     \* sessions to close at the end
    verdict,    \* "none", "nil", or what the error says
    compared    \* history: the pods whose data were compared

data_vars == <<executed, gtidSet0, schemas0, report0, secondaries, opened, verdict, compared>>
check_vars == <<pods, member, online, routers, flaws, changes, met, params, icobj, allPods,
                look, result, quiet, failed>>
all_vars == <<pods, member, online, routers, flaws, changes, met,
              pc, params, icobj, allPods, primary, at, look, trials, sessions, forwards, result, quiet, failed,
              executed, gtidSet0, schemas0, report0, secondaries, opened, verdict, compared>>

DataInit ==
    /\ Init
    /\ executed = [p \in Pod |-> {}]
    /\ gtidSet0 = {} /\ schemas0 = {} /\ report0 = {}
    /\ secondaries = {} /\ opened = 0 /\ verdict = "none" /\ compared = {}

-----------------------------------------------------------------------------
(* The group (external). *)

Write(p, t) ==
    /\ member[p] = "PRIMARY" /\ \A q \in Pod : t \notin executed[q]
    /\ executed' = [executed EXCEPT ![p] = @ \cup {t}]

Replicate(p, t) ==
    /\ p \in Online /\ t \notin executed[p]
    /\ \E q \in Primaries : t \in executed[q]
    /\ executed' = [executed EXCEPT ![p] = @ \cup {t}]

\* What is done before CheckData shows in what it finds.
DataChange ==
    /\ secondaries # {} /\ verdict = "none"
    /\ \E p \in Pod, t \in Txn : Write(p, t) \/ Replicate(p, t)
    /\ UNCHANGED <<vars, gtidSet0, schemas0, report0, secondaries, opened, verdict, compared>>

-----------------------------------------------------------------------------
(* The steps of a call. *)

Proceed(next) == pc' = next /\ UNCHANGED <<verdict, sessions, forwards, opened>>

\* A return closes every session opened.
Answer(what) ==
    /\ pc' = "end" /\ verdict' = what
    /\ sessions' = sessions - opened /\ forwards' = forwards - opened /\ opened' = 0

\* The tests give the primary they expect, or 0.
BeginData ==
    /\ pc = "done" /\ result = "nil" /\ verdict = "none"
    /\ primary' \in {0} \cup ({params.primary} \ {NoPrimary})
    /\ at' = primary' /\ secondaries' = Pod \ {primary'} /\ trials' = MaxTrials
    /\ executed' \in [Pod -> SUBSET Txn]
    /\ Proceed("openPrimary")
    /\ UNCHANGED <<check_vars, gtidSet0, schemas0, report0, compared>>

OpenDataSession(label, next) ==
    /\ OpenSession(label, next)
    /\ opened' = opened + 1
    /\ UNCHANGED <<executed, gtidSet0, schemas0, report0, secondaries, verdict, compared>>

\* NewSession again: the last trial to fail ends the call, after the process
\* it may have started was left running.
OpenDataFails(label) ==
    /\ pc = label
    /\ trials' = trials - 1
    /\ \E left \in {0, 1} :
          IF trials > 1 THEN /\ pc' = label /\ forwards' = forwards + left
                             /\ UNCHANGED <<sessions, opened, verdict>>
          ELSE /\ pc' = "end" /\ verdict' = "session"
               /\ sessions' = sessions - opened /\ forwards' = forwards + left - opened /\ opened' = 0
    /\ UNCHANGED <<check_vars, primary, at, executed, gtidSet0, schemas0, report0, secondaries, compared>>

\* Everything a step of the queries leaves alone.
Still == UNCHANGED <<check_vars, primary, trials, executed>>

Up0 == member[primary] # "OFFLINE"
Up1 == member[at] # "OFFLINE"
Understood == pc \notin Rejected

Schemas(p) == executed[p] \cap Creates
\* The tables of the given schemas, with their rows and checksums.
Tables(p, schemas) == IF schemas = {} THEN {} ELSE executed[p]

ReadGtids ==
    /\ pc = "readGtids" /\ Up0
    /\ gtidSet0' = executed[primary] /\ Proceed("readSchemas")
    /\ Still /\ UNCHANGED <<at, schemas0, report0, secondaries, compared>>

ReadSchemas ==
    /\ pc = "readSchemas" /\ Up0
    /\ schemas0' = Schemas(primary)
    /\ Proceed("reportPrimary")
    /\ Still /\ UNCHANGED <<at, gtidSet0, report0, secondaries, compared>>

\* On to the next secondary.
Turn(left) ==
    IF left = {} THEN Answer("nil") /\ UNCHANGED at
    ELSE /\ at' = CHOOSE p \in left : \A q \in left : p <= q
         /\ Proceed("openSecondary")

ReportPrimary ==
    /\ pc = "reportPrimary" /\ (schemas0 # {} => Up0 /\ Understood)
    /\ report0' = Tables(primary, schemas0)
    /\ Turn(secondaries)
    /\ Still /\ UNCHANGED <<gtidSet0, schemas0, secondaries, compared>>

\* WAIT_FOR_EXECUTED_GTID_SET: waits for a second.  Whether that was enough the
\* number of affected rows does not tell.
WaitForGtids ==
    /\ pc = "wait1" /\ Up1
    /\ Proceed("missing")
    /\ Still /\ UNCHANGED <<at, gtidSet0, schemas0, report0, secondaries, compared>>

\* Mutant: the timeout of the wait is taken for the check.
CheckMissingTrusted ==
    /\ pc = "missing" /\ Up1 /\ Understood
    /\ Proceed("errant")
    /\ Still /\ UNCHANGED <<at, gtidSet0, schemas0, report0, secondaries, compared>>

CheckMissing ==
    /\ pc = "missing" /\ Up1 /\ Understood
    /\ IF gtidSet0 \subseteq executed[at] THEN Proceed("errant") ELSE Answer("missing")
    /\ Still /\ UNCHANGED <<at, gtidSet0, schemas0, report0, secondaries, compared>>

\* The set compared is the one of the primary, not that of the secondary.
CheckErrant ==
    /\ pc = "errant" /\ Up0 /\ Up1 /\ Understood
    /\ IF gtidSet0 \subseteq executed[primary] THEN Proceed("schemas") ELSE Answer("errant")
    /\ Still /\ UNCHANGED <<at, gtidSet0, schemas0, report0, secondaries, compared>>

\* It is equal schemas that are reported as different.
CheckSchemas ==
    /\ pc = "schemas" /\ Up1
    /\ IF Schemas(at) = schemas0 THEN Answer("schemas") ELSE Proceed("tables")
    /\ Still /\ UNCHANGED <<at, gtidSet0, schemas0, report0, secondaries, compared>>

CheckTables ==
    /\ pc = "tables" /\ (schemas0 # {} => Up1 /\ Understood)
    /\ secondaries' = secondaries \ {at} /\ compared' = compared \cup {at}
    /\ IF Tables(at, schemas0) = report0 THEN Turn(secondaries') ELSE Answer("tables") /\ UNCHANGED at
    /\ Still /\ UNCHANGED <<gtidSet0, schemas0, report0>>

Queries == {"readGtids", "readSchemas", "reportPrimary", "wait1", "missing", "errant", "schemas", "tables"}

\* What a query that fails makes of the check: no error comes of a failed report
\* of the primary, of a failed list of a secondary's schemas, nor of a wait whose
\* number of affected rows cannot be had; of one other than zero an error comes.
Failure(label) ==
    CASE label \in {"reportPrimary", "schemas"} -> {"nil"}
      [] label = "wait1" -> {"nil", "query"}
      [] OTHER -> {"query"}

\* There is no query to fail in a report on no schemas.
DataQueryFails ==
    /\ pc \in Queries
    /\ pc \in {"reportPrimary", "tables"} => schemas0 # {}
    /\ \E what \in Failure(pc) : Answer(what)
    /\ Still /\ UNCHANGED <<at, gtidSet0, schemas0, report0, secondaries, compared>>

DataStep ==
    \/ OpenDataSession("openPrimary", "readGtids") \/ OpenDataFails("openPrimary")
    \/ ReadGtids \/ ReadSchemas \/ ReportPrimary
    \/ OpenDataSession("openSecondary", "wait1") \/ OpenDataFails("openSecondary")
    \/ WaitForGtids \/ CheckMissing \/ CheckErrant \/ CheckSchemas \/ CheckTables
    \/ DataQueryFails

DataNext ==
    \/ CheckNext /\ UNCHANGED data_vars
    \/ BeginData
    \/ DataStep
    \/ DataChange

DataSpec == DataInit /\ [][DataNext]_all_vars

-----------------------------------------------------------------------------
(* Properties. *)

DataLabels == Labels \cup Queries \cup {"openPrimary", "openSecondary", "end"}

DataTypeOK ==
    /\ ClusterTypeOK
    /\ pc \in DataLabels
    /\ executed \in [Pod -> SUBSET Txn] /\ gtidSet0 \in SUBSET Txn
    /\ schemas0 \in SUBSET Creates /\ report0 \in SUBSET Txn
    /\ secondaries \in SUBSET Pod /\ compared \in SUBSET Pod /\ opened \in Nat
    /\ verdict \in {"none", "nil", "session", "query", "missing", "errant", "schemas", "tables"}

Asking == {"readGtids", "readSchemas", "reportPrimary"}
Comparing == {"wait1", "missing", "errant", "schemas", "tables"}
Open == {"openGroup", "openInstance", "openPrimary", "openSecondary"}

\* The processes that k sessions may leave behind, all but one trial of each.
Leaks(k) == k * (MaxTrials - 1)

\* The sessions opened before the one at hand.
Opened ==
    IF pc \in Polling THEN 0
    ELSE IF pc = "queryGroup" THEN 1
    ELSE IF pc \in {"pod", "labels", "openInstance"} THEN at + 1
    ELSE IF pc \in {"queryInstance", "sidecar"} THEN at + 2
    ELSE IF pc \in Asking THEN N + 2
    ELSE IF pc = "openSecondary" THEN 2 * N + 1 - Cardinality(secondaries)
    ELSE IF pc \in Comparing THEN 2 * N + 2 - Cardinality(secondaries)
    ELSE N + 1

\* Where a call is says which sessions are open and how many trials were made.
SessionInv ==
    /\ pc \in {"idle", "wait"} \cup Open => trials > 0
    /\ pc \in Open => trials <= MaxTrials
    /\ pc \in Asking \cup Comparing => trials = MaxTrials
    /\ pc \in {"openGroup", "queryGroup"} => at = 0
    /\ pc \in Labels \cup {"end"} => opened = 0
    /\ pc \in DataLabels \ Labels => result = "nil"
    /\ pc \in DataLabels \ (Labels \cup {"end"}) => sessions = N + opened /\ verdict = "none"
    /\ pc \in {"done", "end"} => sessions <= N /\ (result = "nil" => sessions = N)
    /\ pc \in Polling => sessions = 0
    /\ pc = "queryGroup" => sessions = 1
    /\ pc \in {"pod", "labels", "openInstance"} => sessions = at
    /\ pc \in {"queryInstance", "sidecar"} => sessions = at + 1
    /\ pc = "routers" => sessions = N
    /\ forwards >= sessions
    /\ IF pc = "end" \/ (pc = "done" /\ result # "nil")
       THEN forwards <= sessions + Leaks(2 * N + 1) + 1
       ELSE forwards <= sessions + Leaks(Opened) + (IF pc \in Open THEN MaxTrials - trials ELSE 0)

\* What was read of the primary and compared with a pod stays executed there.
GtidInv ==
    /\ pc \in Labels => verdict = "none"
    /\ pc \in Labels \cup {"openPrimary", "readGtids"} => gtidSet0 = {} /\ compared = {}
    /\ pc \in {"openPrimary"} \cup Asking => at = primary /\ secondaries = Pod \ {primary}
    /\ pc \in {"openSecondary"} \cup Comparing => at \in secondaries
    /\ pc \notin Labels => primary \in Pod /\ primary \notin secondaries
    /\ pc \notin Labels => \A p \in compared \cup {primary} : gtidSet0 \subseteq executed[p]
    /\ pc \in {"errant", "schemas", "tables"} => gtidSet0 \subseteq executed[at]

\* The inductive invariant of the two checks (check_common.go CheckAll,
\* check_group.go CheckData): what they have read, opened and compared so far.
CheckInv == DataTypeOK /\ ReadInv /\ SessionInv /\ GtidInv

\* However the two checks end, the sessions still open are those of checkInstance,
\* at most one for each pod, and the processes of trials that failed are at most
\* those of five trials a session (session.go NewSession, kubectl.go PortForward).
SessionsAccounted ==
    /\ pc \in {"done", "end"} => sessions <= N /\ (result = "nil" => sessions = N)
    /\ forwards <= sessions + Leaks(2 * N + 1) + 1

\* When every secondary was compared and nothing found, each has what the primary
\* had executed when it was read, although the wait for it may have run into its
\* timeout unnoticed and the group goes on meanwhile (check_group.go CheckData).
NothingMissing ==
    verdict = "nil" /\ compared = Pod \ {primary} =>
        \A p \in Pod : gtidSet0 \subseteq executed[p]

\* The most steps that a pod, a secondary and CheckData take.
PodSteps == MaxLooks + MaxTrials + 4
SecondarySteps == MaxTrials + 5
DataSteps == (N - 1) * SecondarySteps + MaxTrials + 4

\* Those of a check with n pods to visit, or to compare, and so many trials left.
VisitSteps(n) == n * PodSteps + 1 + DataSteps
CompareSteps(n) == n * SecondarySteps

StepsFrom(place, pod, left, n, ok) ==
    CASE place = "idle"          -> VisitSteps(N) + N + MaxTrials + 4 + left
      [] place = "wait"          -> VisitSteps(N) + N + MaxTrials + 3 + left
      [] place = "get"           -> VisitSteps(N) + N + MaxTrials + 3
      [] place = "getPod"        -> VisitSteps(N) + N + MaxTrials + 2 - pod
      [] place = "spec"          -> VisitSteps(N) + MaxTrials + 2
      [] place = "openGroup"     -> VisitSteps(N) + 1 + left
      [] place = "queryGroup"    -> VisitSteps(N) + 1
      [] place = "pod"           -> VisitSteps(N - pod)
      [] place = "labels"        -> VisitSteps(N - 1 - pod) + MaxTrials + 3 + left
      [] place = "openInstance"  -> VisitSteps(N - 1 - pod) + 2 + left
      [] place = "queryInstance" -> VisitSteps(N - 1 - pod) + 2
      [] place = "sidecar"       -> VisitSteps(N - 1 - pod) + 1
      [] place = "routers"       -> VisitSteps(0)
      [] place = "done"          -> IF ok THEN DataSteps ELSE 0
      [] place = "openPrimary"   -> CompareSteps(n) + 3 + left
      [] place = "readGtids"     -> CompareSteps(n) + 3
      [] place = "readSchemas"   -> CompareSteps(n) + 2
      [] place = "reportPrimary" -> CompareSteps(n) + 1
      [] place = "openSecondary" -> CompareSteps(n - 1) + 5 + left
      [] place = "wait1"         -> CompareSteps(n - 1) + 5
      [] place = "missing"       -> CompareSteps(n - 1) + 4
      [] place = "errant"        -> CompareSteps(n - 1) + 3
      [] place = "schemas"       -> CompareSteps(n - 1) + 2
      [] place = "tables"        -> CompareSteps(n - 1) + 1
      [] place = "end"           -> 0

StepsLeft == StepsFrom(pc, at, trials, Cardinality(secondaries), result = "nil")

\* However often pods crash, labels lag, primaries change and transactions arrive
\* while the checks read, each step of theirs brings them nearer to their verdict:
\* a cluster that never settles cannot hold them (check_apiobjects.go checkOnlinePod,
\* session.go NewSession, check_group.go CheckData).
ChecksAreBounded ==
    [][IF changes' # changes \/ (executed' # executed /\ pc' = pc)
       THEN StepsLeft' = StepsLeft
       ELSE StepsLeft' \in 0..(StepsLeft - 1)]_all_vars

\* "Check for missing GTIDs", "check for errant GTIDs" and "expected schema tables
\* info is ..." (check_group.go:445,454,489), of each pod that is not the primary:
\* no error means that they were compared.
DataIsCompared == verdict = "nil" => compared = Pod \ {primary}

=============================================================================
