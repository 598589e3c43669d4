-------------------------------- MODULE MCCheck --------------------------------
(***************************************************************************)
(* Two pods and a router, a primary detected or expected where it is not   *)
(* at first, a flaw of each kind, and transactions of which one creates a  *)
(* schema.                                                                 *)
(***************************************************************************)
EXTENDS CheckData

Want(p, r, restarts) == [primary |-> p, routers |-> r, restartsExpected |-> restarts]

MCParams == {Want(NoPrimary, 1, FALSE), Want(1, NoRouters, TRUE)}

MCFlaw == {<<NoPod, "statefulSet">>, <<1, "conditions">>, <<0, "variables">>, <<1, "sidecar">>}

=============================================================================
