------------------------------- MODULE CrossSync -------------------------------
(***************************************************************************)
(* CrossSyncGtids (suite/cluster.go): make every pod of a cluster catch up *)
(* with every other one, by asking the first pod to wait for what each     *)
(* other pod has executed, then each other pod to wait for the first.      *)
(* The group keeps committing and replicating transactions meanwhile.      *)
(***************************************************************************)
EXTENDS Naturals

CONSTANTS
    N,          \* number of pods in the call; pod 1 is pods[0]
    Gtid,       \* the transactions
    Errant      \* those that group replication never delivers to other members

Pods == 1..N
Others == 2..N

ASSUME CrossSyncAssumption ==
    /\ N \in Nat \ {0}      \* sessions[0] panics on an empty list of pods
    /\ Errant \subseteq Gtid

VARIABLES
    executed,   \* @@gtid_executed of each pod
    pc,         \* control state of the call
    i,          \* the pod of the current iteration
    gtidSet,    \* the local of that name: the set read last
    sessions,   \* the pods to which a session is open
    result,     \* "none", "ok" or "error"
    start       \* history: executed when the call began

vars == <<executed, pc, i, gtidSet, sessions, result, start>>
callVars == <<pc, i, gtidSet, sessions, result, start>>

Control == {"call", "open", "readOther", "waitFirst", "readFirst", "waitOther",
            "close", "done"}

TypeOK ==
    /\ executed \in [Pods -> SUBSET Gtid]
    /\ pc \in Control
    /\ i \in 1..(N + 1)
    /\ gtidSet \in SUBSET Gtid
    /\ sessions \in SUBSET Pods
    /\ result \in {"none", "ok", "error"}
    /\ start \in [Pods -> SUBSET Gtid]

\* An errant transaction is on one member only.
ErrantAlone == \A g \in Errant : \A p, q \in Pods : g \in executed[p] \cap executed[q] => p = q

Init ==
    /\ executed \in [Pods -> SUBSET Gtid] /\ ErrantAlone
    /\ pc = "call" /\ i = 1 /\ gtidSet = {} /\ sessions = {} /\ result = "none"
    /\ start = executed

-----------------------------------------------------------------------------
(* The group. *)

\* A member commits a transaction nobody has.
Commit(p, g) ==
    /\ \A q \in Pods : g \notin executed[q]
    /\ executed' = [executed EXCEPT ![p] = @ \cup {g}]
    /\ UNCHANGED callVars

\* Group replication delivers it to another one.
Replicate(p, g) ==
    /\ g \notin Errant /\ g \notin executed[p]
    /\ \E q \in Pods : g \in executed[q]
    /\ executed' = [executed EXCEPT ![p] = @ \cup {g}]
    /\ UNCHANGED callVars

-----------------------------------------------------------------------------
(* The call. *)

Begin ==
    /\ pc = "call"
    /\ pc' = "open"
    /\ start' = executed
    /\ UNCHANGED <<executed, i, gtidSet, sessions, result>>

\* Mutant: no deferred close.
ErrorWithoutClose ==
    /\ pc' = "done" /\ result' = "error"
    /\ UNCHANGED <<executed, i, gtidSet, sessions, start>>

\* Whatever goes wrong, the function returns an error through the deferred close.
Error ==
    /\ pc' = "close" /\ result' = "error"
    /\ UNCHANGED <<executed, i, gtidSet, sessions, start>>

\* The loop over the other pods starts, or is over.
StartLoop(label, after) ==
    /\ i' = 2
    /\ pc' = IF N >= 2 THEN label ELSE after

\* Mutant: the loop does not advance.
SameIteration(label, after) == i' = i /\ pc' = label

NextIteration(label, after) ==
    IF i < N THEN i' = i + 1 /\ pc' = label
             ELSE i' = 2 /\ pc' = after

OpenSession ==
    /\ pc = "open"
    /\ sessions' = sessions \cup {i}
    /\ IF i < N THEN i' = i + 1 /\ UNCHANGED <<pc, result>>
                ELSE /\ StartLoop("readOther", "close")
                     /\ result' = IF N >= 2 THEN result ELSE "ok"
    /\ UNCHANGED <<executed, gtidSet, start>>

\* First loop: "select @@gtid_executed" on the other pod ...
ReadOther ==
    /\ pc = "readOther"
    /\ gtidSet' = executed[i]
    /\ pc' = "waitFirst"
    /\ UNCHANGED <<executed, i, sessions, result, start>>

\* Mutant: the answer of the wait is not looked at.
WaitFirstUnchecked ==
    /\ pc = "waitFirst"
    /\ NextIteration("readOther", "readFirst")
    /\ UNCHANGED <<executed, gtidSet, sessions, result, start>>

\* ... and WAIT_FOR_EXECUTED_GTID_SET(?, 0) on the first one: no timeout.
WaitFirst ==
    /\ pc = "waitFirst"
    /\ gtidSet \subseteq executed[1]
    /\ NextIteration("readOther", "readFirst")
    /\ UNCHANGED <<executed, gtidSet, sessions, result, start>>

\* Mutant: the set of the first loop is used again.
ReadFirstStale ==
    /\ pc = "readFirst"
    /\ pc' = "waitOther"
    /\ UNCHANGED <<executed, i, gtidSet, sessions, result, start>>

\* Second loop: the same with the roles exchanged ...
ReadFirst ==
    /\ pc = "readFirst"
    /\ gtidSet' = executed[1]
    /\ pc' = "waitOther"
    /\ UNCHANGED <<executed, i, sessions, result, start>>

\* ... and a timeout of one second, after which the answer is "1".
WaitOther ==
    /\ pc = "waitOther"
    /\ gtidSet \subseteq executed[i]
    /\ NextIteration("readFirst", "close")
    /\ result' = IF i < N THEN result ELSE "ok"
    /\ UNCHANGED <<executed, gtidSet, sessions, start>>

TimesOut ==
    /\ pc = "waitOther"
    /\ ~(gtidSet \subseteq executed[i])
    /\ Error

\* A session that cannot be opened, a query that fails.
QueryFails ==
    /\ pc \in {"open", "readOther", "waitFirst", "readFirst", "waitOther"}
    /\ Error

\* The deferred function closes what has been opened.
CloseSessions ==
    /\ pc = "close"
    /\ sessions' = {}
    /\ pc' = "done"
    /\ UNCHANGED <<executed, i, gtidSet, result, start>>

Call ==
    \/ Begin \/ OpenSession
    \/ ReadOther \/ WaitFirst \/ ReadFirst \/ WaitOther \/ TimesOut
    \/ CloseSessions

Next ==
    \/ Call
    \/ QueryFails
    \/ \E p \in Pods, g \in Gtid : Commit(p, g) \/ Replicate(p, g)

Spec == Init /\ [][Next]_vars

\* The call runs, and the group delivers what was committed.
LiveSpec ==
    /\ Spec
    /\ WF_vars(Call)
    /\ \A p \in Pods, g \in Gtid : WF_vars(Replicate(p, g))

-----------------------------------------------------------------------------
(* Properties. *)

\* When the function returns nil, every pod has executed all that any pod had
\* executed when the function was called, although each pair of pods was
\* compared at a different time (cluster.go:30-64).
CrossSynced ==
    result = "ok" => \A p, q \in Pods : start[p] \subseteq executed[q]

\* A nil also tells that no pod had an errant transaction: the first pod waits for
\* ever on one of another pod, and another pod times out on one of the first
\* (cluster.go:38,56).
NilMeansNoErrant ==
    result = "ok" /\ N > 1 => \A p \in Pods : start[p] \cap Errant = {}

\* The part of the set of the first loop's pods the first one is known to have.
Covered ==
    CASE pc = "readOther" -> 2..(i - 1)
      [] pc = "waitFirst" -> 2..(i - 1)
      [] pc \in {"readFirst", "waitOther"} -> Others
      [] OTHER -> {}

\* The pods known to have what the first one had when the second loop began.
Answered ==
    CASE pc \in {"readFirst", "waitOther"} -> 2..(i - 1)
      [] result = "ok" -> Others
      [] OTHER -> {}

\* Control states of the two loops.
Looping == {"readOther", "waitFirst", "readFirst", "waitOther"}

\* Where the loops are.
LoopShape ==
    /\ pc \in Looping => i \in Others /\ sessions = Pods
    /\ pc = "call" => i = 1 /\ sessions = {}
    /\ pc = "open" => i \in Pods /\ sessions = 1..(i - 1)
    /\ pc = "done" => sessions = {}
    /\ pc \notin {"close", "done"} => result = "none"

\* What they have established so far.
Progress ==
    /\ \A p \in Pods : start[p] \subseteq executed[p]
    /\ pc = "waitFirst" => start[i] \subseteq gtidSet
    /\ \A p \in Covered : start[p] \subseteq executed[1]
    /\ pc = "waitOther" => \A p \in Pods : start[p] \subseteq gtidSet
    /\ \A p \in Pods, q \in Answered : start[p] \subseteq executed[q]
    /\ result = "ok" => \A p \in Pods : start[p] \subseteq executed[1]

\* The inductive invariant behind the two properties around it.
SyncInv == TypeOK /\ LoopShape /\ Progress

\* Every session opened is closed when the function returns, on each of the
\* paths out of it (cluster.go:14-18), and no query runs before all are open.
SessionsBalanced ==
    /\ pc = "done" => sessions = {}
    /\ pc \in Looping => sessions = Pods

\* The unbounded wait on the first pod ends: when no transaction is errant the
\* call returns, however the group's commits interleave (cluster.go:38).
CallReturns ==
    [](\A p \in Pods : executed[p] \cap Errant = {}) => (pc = "open" ~> pc = "done")

=============================================================================
