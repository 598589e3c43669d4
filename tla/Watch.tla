--------------------------------- MODULE Watch ---------------------------------
(***************************************************************************)
(* The watch-based waits of the k8s client: WaitOnPodGone, WaitOnPod,      *)
(* WaitOnInnoDBClusterGone and WaitOnInnoDBCluster (k8s/client.go).  Each  *)
(* opens a watch, leaves a goroutine to read its events, and selects       *)
(* between the goroutine's answer and a timer.  The objects of the         *)
(* namespace change meanwhile; the server may end the stream at any time.  *)
(***************************************************************************)
EXTENDS Naturals, Sequences

CONSTANTS
    Name,       \* the objects of the watched kind and namespace
    State,      \* what the waits tell apart of an object's status
    Operation,  \* the waits made: [kind, name, want], want a subset of State
    AnyVersion, \* common.AnyResourceVersion, the empty string
    MaxVersion  \* bound: changes to the objects

ASSUME WatchAssumption ==
    /\ Operation \subseteq [kind : {"gone", "reached"}, name : Name, want : SUBSET State]
    /\ AnyVersion \notin Nat /\ MaxVersion \in Nat

VARIABLES
    log,     \* the changes so far; the resource version is its length
    pc,      \* control state of the caller
    call,    \* the wait under way or made last
    since,   \* sinceResourceVersion of that wait
    begin,   \* history: version when the wait was called
    opened,  \* history: version the watch starts from
    initial, \* the objects whose synthetic ADDED event is still to come
    pos,     \* the version up to which the goroutine has read
    stream,  \* "none", "open" or "closed", as the server leaves it
    rx,      \* the goroutine: "none", "reading", "sending", "exited", "stuck"
    result   \* "none", "nil", "timeout" or "error"

waitVars == <<pc, call, since, begin, opened, initial, pos, stream, rx, result>>
vars == <<log, pc, call, since, begin, opened, initial, pos, stream, rx, result>>

Event == [type : {"ADDED", "MODIFIED", "DELETED"}, name : Name, state : State]
Version == 0..MaxVersion

TypeOK ==
    /\ log \in Seq(Event) /\ Len(log) \in Version
    /\ pc \in {"idle", "has", "watch", "select", "done"}
    /\ call \in Operation
    /\ since \in Version \cup {AnyVersion}
    /\ begin \in Version /\ opened \in Version /\ pos \in Version
    /\ initial \in SUBSET Name
    /\ stream \in {"none", "open", "closed"}
    /\ rx \in {"none", "reading", "sending", "exited", "stuck"}
    /\ result \in {"none", "nil", "timeout", "error"}

-----------------------------------------------------------------------------
(* The objects. *)

Now == Len(log)

\* At version v object n is there, and change k is the last one made to it.
LastChange(k, n, v) ==
    /\ log[k].name = n /\ log[k].type # "DELETED"
    /\ \A j \in (k + 1)..v : log[j].name # n

InStateAt(n, v, states) ==
    \E k \in 1..v : LastChange(k, n, v) /\ log[k].state \in states

ExistsAt(n, v) == InStateAt(n, v, State)

Exists(n) == ExistsAt(n, Now)

\* Controllers, the kubelet and the operator change an object.
Change(n, type, s) ==
    /\ Now < MaxVersion
    /\ type = "ADDED" <=> ~Exists(n)
    /\ type = "DELETED" => InStateAt(n, Now, {s})
    /\ log' = Append(log, [type |-> type, name |-> n, state |-> s])
    /\ UNCHANGED waitVars

-----------------------------------------------------------------------------
(* The wait. *)

Init ==
    /\ log = <<>>
    /\ pc = "idle" /\ call \in Operation /\ since = AnyVersion
    /\ begin = 0 /\ opened = 0 /\ initial = {} /\ pos = 0
    /\ stream = "none" /\ rx = "none" /\ result = "none"

\* A version the caller may hold: none, or that of a Get made earlier.
Call(c, v) ==
    /\ pc = "idle"
    /\ call' = c /\ since' = v /\ begin' = Now
    /\ pc' = IF c.kind = "gone" THEN "has" ELSE "watch"
    /\ opened' = 0 /\ initial' = {} /\ pos' = 0
    /\ stream' = "none" /\ rx' = "none" /\ result' = "none"
    /\ UNCHANGED log

Return(r) == pc' = "done" /\ result' = r

\* The waits for an object to go look first whether it is there.
Has ==
    /\ pc = "has"
    /\ \/ Exists(call.name) /\ pc' = "watch" /\ UNCHANGED result
       \/ ~Exists(call.name) /\ Return("nil")
       \/ Return("error")
    /\ UNCHANGED <<log, call, since, begin, opened, initial, pos, stream, rx>>

\* The watch starts with the objects there are now, or after the given version.
OpenWatch ==
    /\ pc = "watch"
    /\ \/ /\ pc' = "select" /\ UNCHANGED result
          /\ stream' = "open" /\ rx' = "reading"
          /\ opened' = IF since = AnyVersion THEN Now ELSE since
          /\ pos' = opened'
          /\ initial' = IF since = AnyVersion THEN {n \in Name : Exists(n)} ELSE {}
       \/ Return("error") /\ UNCHANGED <<stream, rx, opened, pos, initial>>
    /\ UNCHANGED <<log, call, since, begin>>

\* Mutant: the events of any object end the wait.
MatchesAnyName(e) ==
    IF call.kind = "gone" THEN e.type = "DELETED"
                          ELSE e.type # "DELETED" /\ e.state \in call.want

\* Mutant: only changes are looked at, not the objects there are.
MatchesChanges(e) ==
    /\ e.name = call.name
    /\ IF call.kind = "gone" THEN e.type = "DELETED"
                             ELSE e.type = "MODIFIED" /\ e.state \in call.want

\* The test of the goroutine on one event.
Matches(e) ==
    /\ e.name = call.name
    /\ IF call.kind = "gone"
       THEN e.type = "DELETED"
       ELSE e.type \in {"ADDED", "MODIFIED"} /\ e.state \in call.want

\* Read a synthetic event, or the next change.
ReadInitial(n) ==
    /\ n \in initial
    /\ initial' = initial \ {n}
    /\ \E k \in 1..opened :
          /\ LastChange(k, n, opened)
          /\ rx' = IF Matches([log[k] EXCEPT !.type = "ADDED"]) THEN "sending" ELSE "reading"
    /\ UNCHANGED pos

\* Mutant: the goroutine returns on the first event, matching or not.
ReadOneChange ==
    /\ initial = {}
    /\ pos < Now
    /\ pos' = pos + 1
    /\ rx' = IF Matches(log[pos + 1]) THEN "sending" ELSE "exited"
    /\ UNCHANGED initial

\* Mutant: an event is lost.
ReadNextButOne ==
    /\ initial = {}
    /\ pos + 1 < Now
    /\ pos' = pos + 2
    /\ rx' = IF Matches(log[pos + 2]) THEN "sending" ELSE "reading"
    /\ UNCHANGED initial

ReadChange ==
    /\ initial = {}
    /\ pos < Now
    /\ pos' = pos + 1
    /\ rx' = IF Matches(log[pos + 1]) THEN "sending" ELSE "reading"
    /\ UNCHANGED initial

Receive ==
    /\ pc = "select"
    /\ rx = "reading" /\ stream = "open"
    /\ (\E n \in Name : ReadInitial(n)) \/ ReadChange
    /\ UNCHANGED <<log, pc, call, since, begin, opened, stream, result>>

\* The server ends the stream: its own timeout, a connection lost, a version it
\* has no more.  The goroutine's loop is over and nobody is told.
StreamEnds ==
    /\ pc = "select" /\ stream = "open"
    /\ stream' = "closed"
    /\ rx' = IF rx = "reading" THEN "exited" ELSE rx
    /\ UNCHANGED <<log, pc, call, since, begin, opened, initial, pos, result>>

\* The goroutine's answer meets the select.
Answer ==
    /\ pc = "select" /\ rx = "sending"
    /\ Return("nil")
    /\ rx' = "exited"
    /\ stream' = "closed"
    /\ UNCHANGED <<log, call, since, begin, opened, initial, pos>>

\* The timer wins; the deferred Stop ends the loop of the goroutine, but not a
\* send that nobody receives any more.
Timeout ==
    /\ pc = "select"
    /\ Return("timeout")
    /\ rx' = IF rx = "sending" THEN "stuck" ELSE "exited"
    /\ stream' = "closed"
    /\ UNCHANGED <<log, call, since, begin, opened, initial, pos>>

\* The caller goes on to its next step.
Resume ==
    /\ pc = "done"
    /\ pc' = "idle"
    /\ UNCHANGED <<log, call, since, begin, opened, initial, pos, stream, rx, result>>

WaitStep ==
    \/ Has \/ OpenWatch \/ Receive \/ Answer \/ Timeout

Next ==
    \/ \E c \in Operation, v \in 0..Now \cup {AnyVersion} : Call(c, v)
    \/ WaitStep
    \/ StreamEnds
    \/ Resume
    \/ \E n \in Name, t \in {"ADDED", "MODIFIED", "DELETED"}, s \in State : Change(n, t, s)

Spec == Init /\ [][Next]_vars

\* The goroutine and the caller run.  Nothing is asked of the timer: fairness on
\* it would make it fire, which is not needed for a match to be found.
LiveSpec == Spec /\ WF_vars(Has) /\ WF_vars(OpenWatch) /\ WF_vars(Receive) /\ WF_vars(Answer)

-----------------------------------------------------------------------------
(* Properties. *)

\* What the wait is for holds of the object at version v.
HoldsAt(v) ==
    IF call.kind = "gone" THEN ~ExistsAt(call.name, v)
                          ELSE InStateAt(call.name, v, call.want)

\* The first version the wait is about.
Base == IF since = AnyVersion THEN begin ELSE since

Returned(r) == pc = "done" /\ result = r

\* A wait that returns nil is right: what was waited for did hold at some version
\* since the given one or, when none was given, since the call.
NilIsTrue == Returned("nil") => \E v \in Base..Now : HoldsAt(v)

\* A wait that times out before the goroutine had an answer skipped nothing: no
\* change it has read brought what was waited for and, if no version was given,
\* the object was not in a wanted state when the watch began.
TimeoutIsHonest ==
    Returned("timeout") /\ rx # "stuck" =>
        /\ \A v \in (opened + 1)..pos : log[v].name = call.name => ~HoldsAt(v)
        /\ since = AnyVersion /\ call.kind = "reached"
              /\ stream # "none" /\ call.name \notin initial => ~HoldsAt(opened)

\* The goroutine has read up to pos and has no answer.
Silent ==
    /\ stream # "none"
    /\ \/ pc = "select" /\ rx # "sending"
       \/ Returned("timeout") /\ rx # "stuck"

\* If what is waited for did not hold when the watch began, it held at no version
\* a silent goroutine has come by, not only at those that changed the object: the
\* one gap in which a pod or cluster can go, or be reached, unnoticed is that
\* between the call and the opening of the watch (client.go:637-794).
NothingMissed ==
    Silent /\ ~HoldsAt(opened) => \A v \in opened..pos : ~HoldsAt(v)

\* What a goroutine that has found nothing has read.
NothingFound ==
    /\ \A k \in (opened + 1)..pos : ~Matches(log[k])
    /\ since = AnyVersion /\ call.kind = "reached" /\ call.name \notin initial
          => ~HoldsAt(opened)

\* The inductive invariant behind the two: where the wait stands in the history,
\* and what the state of the goroutine says about what it has read.
WaitInv ==
    /\ TypeOK
    /\ pc # "idle" => begin <= Now /\ (since # AnyVersion => since <= begin)
    /\ stream # "none" => /\ opened <= pos /\ pos <= Now
                          /\ IF since = AnyVersion THEN begin <= opened ELSE opened = since
    /\ pc \in {"has", "watch"} => stream = "none"
    /\ pc = "has" => call.kind = "gone"
    /\ pc = "select" => stream # "none" /\ rx \in {"reading", "sending", "exited"}
    /\ pc = "select" /\ rx = "sending" => \E v \in Base..Now : HoldsAt(v)
    /\ pc = "select" /\ rx # "sending" => NothingFound
    /\ Returned("timeout") => stream # "none" /\ (rx # "stuck" => NothingFound)
    /\ NilIsTrue

\* A change that ends the wait is found, as long as the server keeps the stream
\* and the timer does not fire first.
PendingMatch ==
    pc = "select" /\ stream = "open" /\ \E k \in (pos + 1)..Now : Matches(log[k])

MatchIsFound == PendingMatch ~> (pc = "done" \/ stream = "closed")

\* Destroy deletes the cluster and requires of each wait that it returns no
\* error once the pod is gone (e2e/cluster/enterprise/create_cluster_test.go:219):
\* a wait whose stream has told everything does not time out on an object that
\* went away after the call.
GoneIsNoticed ==
    Returned("timeout") /\ call.kind = "gone" /\ since = AnyVersion /\ rx # "stuck"
       /\ pos = Now /\ initial = {} => Exists(call.name)

=============================================================================
