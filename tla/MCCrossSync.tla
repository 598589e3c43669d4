------------------------------ MODULE MCCrossSync ------------------------------
(* Three pods and two transactions, one of them errant or none. *)
EXTENDS CrossSync

CONSTANTS g1, g2

=============================================================================
