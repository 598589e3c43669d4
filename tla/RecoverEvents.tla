----------------------------- MODULE RecoverEvents -----------------------------
(***************************************************************************)
(* The recovery scenarios with what they do after their last wait: they    *)
(* assert, one after the other, that the operator posted certain events    *)
(* (AssertGotClusterEvent, a poll made with Unit.Wait).  The operator      *)
(* posts the event of a status change after the change itself, and the     *)
(* server drops old events; the events of earlier scenarios of the same    *)
(* cluster are still there when this one starts.                           *)
(***************************************************************************)
EXTENDS RecoverCrash

CONSTANTS
    Wanted,       \* the states whose events each scenario asserts, in order
    MaxLooks      \* timeout / interval of the poll: 60 / 3

ASSUME EventsAssumption ==
    /\ Wanted \in [Scenario -> Seq(State)]
    /\ MaxLooks \in Nat \ {0}

VARIABLES
    old,       \* the states of which an event of an earlier scenario is kept
    posted,    \* the changes whose event is kept, by version
    due,       \* the changes whose event the operator has still to post
    turn,      \* the assertion under way
    looks,     \* times its poll has looked
    seen,      \* history: what the last look saw, the states of the events kept
    verdict    \* "none", "passed", "timeout" or "error"

eventVars == <<old, posted, due, turn, looks, seen, verdict>>
scenarioVars == <<log, pc, call, since, begin, opened, initial, pos, stream, rx,
                  result, scenario, step, rv, victim, trials, marked, down, hit, killedAt,
                  old, posted, due, turn, looks, seen, verdict>>

Asserted == Wanted[scenario]

EventTypeOK ==
    /\ TestTypeOK
    /\ old \in SUBSET State
    /\ posted \in SUBSET Version /\ due \in SUBSET Version
    /\ turn \in 1..(Len(Asserted) + 1)
    /\ looks \in 0..MaxLooks
    /\ seen \in SUBSET State
    /\ verdict \in {"none", "passed", "timeout", "error"}

EventInit ==
    /\ TestInit
    /\ old \in SUBSET State
    /\ posted = {} /\ due = {1}
    /\ turn = 1 /\ looks = 0 /\ seen = {} /\ verdict = "none"

-----------------------------------------------------------------------------
(* The operator and the server. *)

\* A status change, whose event is still to be posted.
ReportDue ==
    /\ \E s \in State : Report(s)
    /\ due' = due \cup {Now + 1}
    /\ UNCHANGED <<old, posted, turn, looks, seen, verdict>>

Post(k) ==
    /\ k \in due
    /\ due' = due \ {k} /\ posted' = posted \cup {k}
    /\ UNCHANGED <<old, turn, looks, seen, verdict>>
    /\ UNCHANGED allVars

\* The server keeps events for a limited time only.
Expire ==
    /\ \/ \E s \in old : old' = old \ {s} /\ UNCHANGED posted
       \/ \E k \in posted : posted' = posted \ {k} /\ UNCHANGED old
    /\ UNCHANGED <<due, turn, looks, seen, verdict>>
    /\ UNCHANGED allVars

-----------------------------------------------------------------------------
(* The assertions. *)

\* ListInnoDBClusterEvents: the version given is the oldest state of the store
\* that the server may answer from, and no filter of the events.
Listed(version) == old \cup {log[k].state : k \in posted}

AssertionDone ==
    /\ turn' = turn + 1 /\ looks' = 0
    /\ verdict' = IF turn = Len(Asserted) THEN "passed" ELSE "none"

\* Mutant: the poll looks without end.
LookForever ==
    /\ step = "passed" /\ verdict = "none" /\ turn <= Len(Asserted)
    /\ seen' = Listed(rv)
    /\ IF Asserted[turn] \in Listed(rv) THEN AssertionDone ELSE UNCHANGED <<turn, looks, verdict>>
    /\ UNCHANGED <<old, posted, due>> /\ UNCHANGED allVars

\* Mutant: one look too few is made.
LookOnceLess ==
    /\ step = "passed" /\ verdict = "none" /\ turn <= Len(Asserted)
    /\ \/ /\ looks + 1 < MaxLooks
          /\ seen' = Listed(rv)
          /\ IF Asserted[turn] \in Listed(rv) THEN AssertionDone
                                            ELSE looks' = looks + 1 /\ UNCHANGED <<turn, verdict>>
       \/ /\ looks + 1 >= MaxLooks
          /\ verdict' = "timeout" /\ UNCHANGED <<turn, looks, seen>>
    /\ UNCHANGED <<old, posted, due>> /\ UNCHANGED allVars

\* One pass of the loop of Unit.Wait: list, look for a match, else sleep.
Look ==
    /\ step = "passed" /\ verdict = "none" /\ turn <= Len(Asserted)
    /\ looks < MaxLooks
    /\ \/ /\ seen' = Listed(rv)
          /\ IF Asserted[turn] \in Listed(rv)
             THEN AssertionDone
             ELSE looks' = looks + 1 /\ UNCHANGED <<turn, verdict>>
       \/ verdict' = "error" /\ UNCHANGED <<turn, looks, seen>>
    /\ UNCHANGED <<old, posted, due>>
    /\ UNCHANGED allVars

\* The loop is over after the last sleep, without another look.
GiveUp ==
    /\ verdict = "none" /\ looks = MaxLooks
    /\ verdict' = "timeout"
    /\ UNCHANGED <<old, posted, due, turn, looks, seen>>
    /\ UNCHANGED allVars

Assert == Look \/ GiveUp

ScenarioNext ==
    \/ TestStep /\ UNCHANGED eventVars
    \/ ReportDue
    \/ \E k \in Version : Post(k)
    \/ Expire
    \/ Assert

ScenarioSpec ==
    /\ EventInit /\ [][ScenarioNext]_scenarioVars
    /\ WF_scenarioVars(Assert)

-----------------------------------------------------------------------------
(* Properties. *)

\* An assertion that times out has looked for the whole of its timeout, and what
\* it wanted was not there at its last look, whatever was posted or dropped in
\* between; those before it were met (unit.go AssertGotClusterEvent, Wait).
AssertionIsHonest ==
    verdict = "timeout" =>
        /\ looks = MaxLooks
        /\ Asserted[turn] \notin seen

\* The inductive invariant behind it: only changes made have events, and what the
\* looks of the assertion under way did not see.
EventInv ==
    /\ RecoverInv /\ EventTypeOK
    /\ posted \cup due \subseteq 1..Now
    /\ looks > 0 => Asserted[turn] \notin seen
    /\ AssertionIsHonest

\* Every scenario that came through its waits gets a verdict (unit.go Wait).
VerdictComes == step = "passed" /\ Asserted # <<>> ~> verdict # "none"

=============================================================================
