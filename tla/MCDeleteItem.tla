------------------------------ MODULE MCDeleteItem ------------------------------
(***************************************************************************)
(* Three calls: an object, another one, and the first again.               *)
(***************************************************************************)
EXTENDS DeleteItem

CONSTANTS pod, sts

MCTarget == [c \in Call |-> IF c = 2 THEN sts ELSE pod]

=============================================================================
