---------------------------- MODULE MCRecoverCrash ----------------------------
(***************************************************************************)
(* A cluster with one state for each wait: a crash of one pod watched from *)
(* versions read before, one of two pods, a restart and a delete watched   *)
(* from what there is.                                                     *)
(***************************************************************************)
EXTENDS RecoverEvents

CONSTANTS partial, online

Of(act, victims, versioned, fatal) ==
    [act |-> act, victims |-> victims, versioned |-> versioned, fatal |-> fatal]

MCScenario == {Of("kill", 1, TRUE, TRUE), Of("kill", 2, FALSE, TRUE),
               Of("restart", 1, FALSE, TRUE), Of("delete", 1, FALSE, FALSE)}

MCWanted == [c \in MCScenario |-> IF c.act = "kill" THEN <<partial, online>> ELSE <<>>]

MCOperation == {[kind |-> "reached", name |-> cluster, want |-> {partial}],
                [kind |-> "reached", name |-> cluster, want |-> {online}]}

=============================================================================
