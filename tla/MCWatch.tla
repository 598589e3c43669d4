-------------------------------- MODULE MCWatch --------------------------------
(***************************************************************************)
(* One object under watch and another in the same namespace; two states.   *)
(***************************************************************************)
EXTENDS Watch

CONSTANTS target, other, wanted, unwanted

\* The waits of a test: the object to go, or to reach the wanted state.
MCOperation ==
    [kind : {"gone"}, name : {target}, want : {{}}]
       \cup [kind : {"reached"}, name : {target}, want : {{wanted}}]

\* Only the waits for the object to go, and those for a state.
MCGone == [kind : {"gone"}, name : {target}, want : {{}}]
MCReached == [kind : {"reached"}, name : {target}, want : {{wanted}}]

=============================================================================
