----------------------------- MODULE DeletePromise -----------------------------
(***************************************************************************)
(* What the Delete calls of the client promise their caller, told without  *)
(* goroutine, channel, context and timer: one delete at a time is made; it *)
(* strikes at most once and at one instant, and only the object it names;  *)
(* it is reported as done only after it has struck, and as not found only  *)
(* after the server has met a moment without the object.  After any other  *)
(* answer it may strike whenever it likes.  DeleteItem implements this.    *)
(***************************************************************************)
CONSTANTS
    Objects,
    Deletes,    \* the deletes made
    ObjectOf    \* the object each of them names

VARIABLES
    there,      \* the objects there are
    effect,     \* [Deletes -> "none", "sent", "applied", "notFound" or "lost"]
    told        \* [Deletes -> "none", "nil", "notFound", "error" or "deadline"]

dVars == <<there, effect, told>>

DInit ==
    /\ there \in SUBSET Objects
    /\ effect = [d \in Deletes |-> "none"]
    /\ told = [d \in Deletes |-> "none"]

\* Every delete made before has been answered, though it may not have struck yet.
Issue(d) ==
    /\ effect[d] = "none"
    /\ \A e \in Deletes : effect[e] # "none" => told[e] # "none"
    /\ effect' = [effect EXCEPT ![d] = "sent"]
    /\ UNCHANGED <<there, told>>

Strike(d) ==
    /\ effect[d] = "sent" /\ ObjectOf[d] \in there
    /\ there' = there \ {ObjectOf[d]}
    /\ effect' = [effect EXCEPT ![d] = "applied"]
    /\ UNCHANGED told

\* The object is not there, or the request does not get through.
Miss(d) ==
    /\ effect[d] = "sent"
    /\ \/ effect' = [effect EXCEPT ![d] = "lost"]
       \/ ObjectOf[d] \notin there /\ effect' = [effect EXCEPT ![d] = "notFound"]
    /\ UNCHANGED <<there, told>>

Tell(d, what) ==
    /\ effect[d] # "none" /\ told[d] = "none"
    /\ what = "nil" => effect[d] = "applied"
    /\ what = "notFound" => effect[d] = "notFound"
    /\ told' = [told EXCEPT ![d] = what]
    /\ UNCHANGED <<there, effect>>

\* Somebody makes an object.
Appear(o) ==
    /\ there' = there \cup {o}
    /\ UNCHANGED <<effect, told>>

DNext ==
    \/ \E d \in Deletes :
          \/ Issue(d) \/ Strike(d) \/ Miss(d)
          \/ \E what \in {"nil", "notFound", "error", "deadline"} : Tell(d, what)
    \/ \E o \in Objects \ there : Appear(o)

DSpec == DInit /\ [][DNext]_dVars

=============================================================================
