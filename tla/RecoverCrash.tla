------------------------------ MODULE RecoverCrash ------------------------------
(***************************************************************************)
(* The recovery scenarios of the e2e tests: they crash mysqld in some pods *)
(* (RecoverCrash...), restart it (RecoverRestart...) or delete the pods    *)
(* (RecoverDelete...).  Read the version of the cluster, act, wait for the *)
(* operator to notice, read the version again, wait for the operator to    *)
(* restore the cluster.  Both waits are those of Watch; a kill is a        *)
(* kubectl exec that is retried when it fails.  The operator is external:  *)
(* it reports what it sees of the cluster, late or not at all.             *)
(***************************************************************************)
EXTENDS Watch

CONSTANTS
    cluster,      \* the InnoDBCluster object, the only element of Name
    Degraded,     \* the states the first wait accepts
    Restored,     \* the states the second wait accepts
    Scenario,     \* what is done to how many pods, whether the waits start from
                  \* a version read before, and whether an error of it is fatal
    MaxTrials     \* Client.Kill: five calls of Execute, each five of kubectl

ASSUME RecoverAssumption ==
    /\ Name = {cluster}
    /\ Degraded \subseteq State /\ Restored \subseteq State /\ Degraded \cap Restored = {}
    /\ Operation = {[kind |-> "reached", name |-> cluster, want |-> Degraded],
                    [kind |-> "reached", name |-> cluster, want |-> Restored]}
    /\ Scenario \subseteq [act : {"kill", "restart", "delete"}, victims : Nat \ {0},
                           versioned : BOOLEAN, fatal : BOOLEAN]
    /\ \A c \in Scenario : c.fatal \/ c.act = "delete"
    /\ MaxTrials \in Nat \ {0} /\ MaxVersion > 0

VARIABLES
    scenario, \* the scenario
    step,     \* where the test is
    rv,       \* its sinceResourceVersion
    victim,   \* the pod to crash, restart or delete next, counted from 1
    trials,   \* trials of Kill left
    marked,   \* the test has reported an error and gone on
    down,     \* the pods whose mysqld is down
    hit,      \* history: the pods that were crashed, restarted or deleted
    killedAt  \* history: the version when the first of them was

testVars == <<scenario, step, rv, victim, trials, marked, down, hit, killedAt>>
allVars == <<log, pc, call, since, begin, opened, initial, pos, stream, rx, result,
             scenario, step, rv, victim, trials, marked, down, hit, killedAt>>

Steps == {"getBefore", "act", "noticed", "getAfter", "restored", "passed", "failed"}

Victims == 1..scenario.victims

TestTypeOK ==
    /\ TypeOK
    /\ scenario \in Scenario
    /\ step \in Steps
    /\ rv \in Version
    /\ victim \in Victims /\ trials \in 1..MaxTrials
    /\ marked \in BOOLEAN
    /\ down \subseteq hit /\ hit \subseteq Victims
    /\ killedAt \in Version

Want(states) == [kind |-> "reached", name |-> cluster, want |-> states]

\* The scenario runs on a cluster that has been created and is online.
TestInit ==
    /\ \E s \in Restored : log = <<[type |-> "ADDED", name |-> cluster, state |-> s]>>
    /\ pc = "idle" /\ call = Want(Degraded) /\ since = AnyVersion
    /\ begin = 0 /\ opened = 0 /\ initial = {} /\ pos = 0
    /\ stream = "none" /\ rx = "none" /\ result = "none"
    /\ scenario \in Scenario
    /\ step \in {"getBefore", "act"}
    /\ scenario.versioned \/ scenario.act = "kill" => step = "getBefore"
    /\ rv = 0 /\ victim = 1 /\ trials = MaxTrials /\ marked = FALSE
    /\ down = {} /\ hit = {} /\ killedAt = 0

-----------------------------------------------------------------------------
(* The test. *)

\* GetInnoDBClusterResourceVersion; a failure is fatal to the test.
GetVersion(from, to) ==
    /\ step = from
    /\ \/ rv' = Now /\ step' = to
       \/ step' = "failed" /\ UNCHANGED rv
    /\ UNCHANGED <<scenario, victim, trials, marked, down, hit, killedAt>>
    /\ UNCHANGED vars

\* The signal reaches mysqld, mysqld obeys the statement, the pod goes.
Crashed ==
    /\ victim \notin down
    /\ down' = down \cup {victim} /\ hit' = hit \cup {victim}
    /\ killedAt' = IF hit = {} THEN Now ELSE killedAt

Unharmed == UNCHANGED <<down, hit, killedAt>>

\* On to the next pod, then to the first wait.
NextVictim ==
    /\ IF victim < scenario.victims THEN victim' = victim + 1 /\ UNCHANGED step
                                    ELSE step' = "noticed" /\ UNCHANGED victim
    /\ trials' = MaxTrials

\* Client.Kill: the exec succeeds, or it fails, before or after the signal (the
\* container takes the session down with it), and is tried again.
Kill ==
    /\ step = "act" /\ scenario.act = "kill"
    /\ \/ Crashed /\ NextVictim
       \/ /\ Crashed \/ Unharmed
          /\ IF trials > 1 THEN trials' = trials - 1 /\ UNCHANGED step
                           ELSE step' = "failed" /\ UNCHANGED trials
          /\ UNCHANGED victim
    /\ UNCHANGED <<scenario, rv, marked>>
    /\ UNCHANGED vars

\* A session that executes "restart", or DeletePod: done, or an error, before or
\* after the effect, that is fatal or else remembered.
Act ==
    /\ step = "act" /\ scenario.act # "kill"
    /\ \/ Crashed /\ NextVictim /\ UNCHANGED marked
       \/ /\ Crashed \/ Unharmed
          /\ marked' = TRUE
          /\ IF scenario.fatal THEN step' = "failed" /\ UNCHANGED <<victim, trials>>
                               ELSE NextVictim
    /\ UNCHANGED <<scenario, rv>>
    /\ UNCHANGED vars

\* Mutant: the version read is not passed on.
StartWaitAnyVersion(from, states) ==
    /\ step = from
    /\ Call(Want(states), AnyVersion)
    /\ UNCHANGED testVars

\* The two waits, each from the version read last or from what there is.
StartWait(from, states) ==
    /\ step = from
    /\ Call(Want(states), IF scenario.versioned THEN rv ELSE AnyVersion)
    /\ UNCHANGED testVars

\* Mutant: a timeout is not taken for an error.
EndWaitUnchecked(from, to) ==
    /\ step = from
    /\ step' = IF result # "error" THEN to ELSE "failed"
    /\ UNCHANGED <<scenario, rv, victim, trials, marked, down, hit, killedAt>>
    /\ Resume

EndWait(from, to) ==
    /\ step = from
    /\ step' = IF result = "nil" THEN to ELSE "failed"
    /\ UNCHANGED <<scenario, rv, victim, trials, marked, down, hit, killedAt>>
    /\ Resume

-----------------------------------------------------------------------------
(* The cluster and its operator. *)

\* The kubelet restarts the container, or the pod is made again, and the member
\* rejoins.
Restart(p) ==
    /\ p \in down
    /\ down' = down \ {p}
    /\ UNCHANGED <<scenario, step, rv, victim, trials, marked, hit, killedAt>>
    /\ UNCHANGED vars

\* The operator reports what the cluster is like: a change of its status.
Report(s) ==
    /\ s \in (IF down # {} THEN Degraded ELSE Restored)
    /\ ~InStateAt(cluster, Now, {s})
    /\ Change(cluster, "MODIFIED", s)
    /\ UNCHANGED testVars

Second == IF scenario.versioned THEN "getAfter" ELSE "restored"

TestStep ==
    \/ GetVersion("getBefore", "act")
    \/ Kill \/ Act
    \/ StartWait("noticed", Degraded) \/ EndWait("noticed", Second)
    \/ GetVersion("getAfter", "restored")
    \/ StartWait("restored", Restored) \/ EndWait("restored", "passed")
    \/ WaitStep /\ UNCHANGED testVars
    \/ StreamEnds /\ UNCHANGED testVars
    \/ \E p \in Victims : Restart(p)

TestNext == TestStep \/ \E s \in State : Report(s)

TestSpec == TestInit /\ [][TestNext]_allVars

-----------------------------------------------------------------------------
(* Properties. *)

\* A scenario that comes through its waits saw what it is about: after the first
\* pod was hit the operator reported the cluster degraded, and after that report
\* it reported it restored; and unless it is marked, every pod was hit
\* (cluster3_defaults_test.go:256-308 and its siblings).
RecoveryProven ==
    step = "passed" =>
        /\ marked \/ hit = Victims
        /\ \E i, j \in Version : /\ killedAt < i /\ i < j /\ j <= Now
                                 /\ log[i].state \in Degraded /\ log[j].state \in Restored

\* A scenario uses its waits in ways that Watch knows of: one at a time, from no
\* version or one the server has reached, and not left before they return; so
\* what is shown of a wait on its own holds in the scenarios too
\* (cluster3_defaults_test.go:256-308 and its siblings).
WaitsAreWatches == [][Next]_vars

\* The version from which the second wait looks for the restored cluster.
Floor == IF scenario.versioned THEN rv ELSE IF pc = "idle" THEN Now ELSE begin

\* The inductive invariant behind it: where each wait starts, that only what the
\* test does degrades the cluster, and what the finished waits have shown.
RecoverInv ==
    /\ WaitInv /\ TestTypeOK
    /\ rv <= Now /\ killedAt <= Now
    /\ pc # "idle" => /\ step \in {"noticed", "restored"}
                      /\ since = IF scenario.versioned THEN rv ELSE AnyVersion
                      /\ call = Want(IF step = "noticed" THEN Degraded ELSE Restored)
    /\ ~marked => 1..(victim - 1) \subseteq hit
    /\ step \in {"noticed", "getAfter", "restored", "passed"} => marked \/ hit = Victims
    /\ \A k \in 1..Now : log[k].state \in Degraded => hit # {} /\ killedAt < k
    /\ step = "getAfter" => scenario.versioned /\ \E i \in 1..Now : log[i].state \in Degraded
    /\ step = "restored" => \E i \in 1..Floor : log[i].state \in Degraded
    /\ RecoveryProven

=============================================================================
