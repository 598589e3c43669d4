----------------------------- MODULE UnitPromise -----------------------------
(***************************************************************************)
(* What Setup and Teardown promise a test, told without the calls they     *)
(* make: a namespace of the cluster disappears only after a running Setup  *)
(* or Teardown of its unit condemned it; a Setup that succeeds replaces    *)
(* the main namespace while the auxiliary one is gone too; a Teardown that *)
(* succeeds ends when both are gone.  UnitLifecycle implements this.       *)
(***************************************************************************)
CONSTANTS Namespaces, Main, Auxiliary

VARIABLES
    unit,       \* "out", "setup", "in" (the test body runs) or "teardown"
    told,       \* what the last Setup or Teardown returned
    exists,     \* the namespaces the cluster has
    condemned   \* those of them that are being removed

pVars == <<unit, told, exists, condemned>>

Own == {Main, Auxiliary}

PInit ==
    /\ unit = "out" /\ told = "none"
    /\ exists \in SUBSET Namespaces
    /\ condemned \in SUBSET exists

Start(from, to) ==
    /\ unit = from
    /\ unit' = to /\ told' = "none"
    /\ UNCHANGED <<exists, condemned>>

\* Only a running Setup or Teardown condemns, and only its own namespaces.  The
\* operation may end with an error in the same step.
Condemn(n) ==
    /\ unit \in {"setup", "teardown"}
    /\ n \in Own \cap exists
    /\ condemned' = condemned \cup {n}
    /\ UNCHANGED exists
    /\ \/ UNCHANGED <<unit, told>>
       \/ unit' = "out" /\ told' = "error"

SetupSucceeds ==
    /\ unit = "setup"
    /\ exists \cap Own = {}
    /\ exists' = exists \cup {Main}
    /\ unit' = "in" /\ told' = "ok"
    /\ UNCHANGED condemned

TeardownSucceeds ==
    /\ unit = "teardown"
    /\ exists \cap Own = {}
    /\ unit' = "out" /\ told' = "ok"
    /\ UNCHANGED <<exists, condemned>>

\* An error, or the end of the process.  Setup may have created the namespace
\* without being told.
GivesUp ==
    /\ unit # "out"
    /\ unit' = "out" /\ told' = "error"
    /\ \/ UNCHANGED exists
       \/ unit = "setup" /\ exists \cap Own = {} /\ exists' = exists \cup {Main}
    /\ UNCHANGED condemned

\* The body makes the auxiliary namespace.
MakeAuxiliary ==
    /\ unit = "in"
    /\ Auxiliary \in Namespaces \ exists
    /\ exists' = exists \cup {Auxiliary}
    /\ UNCHANGED <<unit, told, condemned>>

Disappears(n) ==
    /\ n \in condemned
    /\ exists' = exists \ {n} /\ condemned' = condemned \ {n}
    /\ UNCHANGED <<unit, told>>

PNext ==
    \/ Start("out", "setup") \/ Start("in", "teardown")
    \/ \E n \in Namespaces : Condemn(n) \/ Disappears(n)
    \/ SetupSucceeds \/ TeardownSucceeds \/ GivesUp
    \/ MakeAuxiliary

PSpec == PInit /\ [][PNext]_pVars

=============================================================================
