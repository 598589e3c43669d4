------------------------------- MODULE DeleteItem -------------------------------
(***************************************************************************)
(* deleteItem (k8s/client.go): every Delete of the client runs in a        *)
(* goroutine under a context with a timeout, while the caller selects      *)
(* between its answer and the end of the context.  Each element of Call is *)
(* one call; the wipe makes them one after the other, but a request whose  *)
(* caller has given up may still be on its way to the server.              *)
(***************************************************************************)
EXTENDS Naturals

CONSTANTS
    Object,
    Calls,      \* the number of calls made
    Target,     \* the object each of them deletes
    MaxCreates  \* bound: objects created again by a controller

Call == 1..Calls

ASSUME DeleteAssumption ==
    /\ Calls \in Nat /\ MaxCreates \in Nat
    /\ Target \in [Call -> Object]

VARIABLES
    present,    \* the objects the server has
    turn,       \* the call under way, or to be made next
    caller,     \* [Call -> "before", "select" or "returned"]
    result,     \* [Call -> what deleteItem returned]
    worker,     \* [Call -> state of the goroutine]
    answer,     \* [Call -> what the goroutine has to send on completed]
    request,    \* [Call -> state of the HTTP request]
    expired,    \* the calls whose context is done
    creates

vars == <<present, turn, caller, result, worker, answer, request, expired, creates>>

Error == {"nil", "notFound", "error", "deadline"}

TypeOK ==
    /\ present \in SUBSET Object
    /\ turn \in 1..(Calls + 1)
    /\ caller \in [Call -> {"before", "select", "returned"}]
    /\ result \in [Call -> Error \cup {"none"}]
    /\ worker \in [Call -> {"none", "calling", "sending", "ended"}]
    /\ answer \in [Call -> Error \cup {"none"}]
    /\ request \in [Call -> {"none", "sent", "applied", "notFound", "lost"}]
    /\ expired \in SUBSET Call
    /\ creates \in 0..MaxCreates

Init ==
    /\ present \in SUBSET Object
    /\ turn = 1 /\ creates = 0 /\ expired = {}
    /\ caller = [c \in Call |-> "before"]
    /\ result = [c \in Call |-> "none"] /\ answer = [c \in Call |-> "none"]
    /\ worker = [c \in Call |-> "none"] /\ request = [c \in Call |-> "none"]

-----------------------------------------------------------------------------
Becomes(f, c, v) == [f EXCEPT ![c] = v]

\* The context is made, the goroutine started; the deleter sends its request.
Start(c) ==
    /\ c = turn /\ caller[c] = "before"
    /\ caller' = Becomes(caller, c, "select")
    /\ worker' = Becomes(worker, c, "calling")
    /\ request' = Becomes(request, c, "sent")
    /\ UNCHANGED <<present, turn, result, answer, expired, creates>>

\* The server handles a request, whoever still waits for it, or never gets it.
Serve(c) ==
    /\ request[c] = "sent"
    /\ \/ /\ Target[c] \in present
          /\ present' = present \ {Target[c]}
          /\ request' = Becomes(request, c, "applied")
       \/ /\ Target[c] \notin present
          /\ request' = Becomes(request, c, "notFound")
          /\ UNCHANGED present
       \/ request' = Becomes(request, c, "lost") /\ UNCHANGED present
    /\ UNCHANGED <<turn, caller, result, worker, answer, expired, creates>>

\* The deleter returns err, and the goroutine goes on to send it.
DeleterReturns(c, err) ==
    /\ worker[c] = "calling"
    /\ worker' = Becomes(worker, c, "sending")
    /\ answer' = Becomes(answer, c, err)
    /\ UNCHANGED <<present, turn, caller, result, request, expired, creates>>

\* Mutant: the deleter does not wait for the server.
RespondsEarly(c) ==
    \/ request[c] \in {"sent", "applied"} /\ DeleterReturns(c, "nil")
    \/ c \in expired /\ DeleterReturns(c, "deadline")

\* Mutant: an object that is not there counts as deleted.
MissingIsDone(c) ==
    \/ request[c] \in {"applied", "notFound"} /\ DeleterReturns(c, "nil")
    \/ DeleterReturns(c, "error")
    \/ c \in expired /\ DeleterReturns(c, "deadline")

\* With the server's answer, with an error of the connection, or because the
\* context is done.
Responds(c) ==
    \/ request[c] = "applied" /\ DeleterReturns(c, "nil")
    \/ request[c] = "notFound" /\ DeleterReturns(c, "notFound")
    \/ DeleterReturns(c, "error")
    \/ c \in expired /\ DeleterReturns(c, "deadline")

Expire(c) ==
    /\ caller[c] = "select" /\ c \notin expired
    /\ expired' = expired \cup {c}
    /\ UNCHANGED <<present, turn, caller, result, worker, answer, request, creates>>

\* deleteItem returns; the deferred cancel ends the context.
Return(c, err) ==
    /\ caller[c] = "select"
    /\ caller' = Becomes(caller, c, "returned")
    /\ result' = Becomes(result, c, err)
    /\ expired' = expired \cup {c}
    /\ turn' = turn + 1
    /\ UNCHANGED <<present, answer, request, creates>>

\* The two branches of the select.  The channel has no buffer: a send nobody
\* receives never completes.
Completed(c) ==
    /\ worker[c] = "sending"
    /\ Return(c, answer[c])
    /\ worker' = Becomes(worker, c, "ended")

\* Mutant: a timeout is reported as success.
DoneSilently(c) == c \in expired /\ Return(c, "nil") /\ UNCHANGED worker

\* Mutant: the select has no branch for the context.
NeverDone(c) == FALSE /\ Return(c, "deadline") /\ UNCHANGED worker

Done(c) ==
    /\ c \in expired
    /\ Return(c, "deadline")
    /\ UNCHANGED worker

\* A controller makes an object again.
Recreate(o) ==
    /\ creates < MaxCreates
    /\ o \notin present
    /\ present' = present \cup {o}
    /\ creates' = creates + 1
    /\ UNCHANGED <<turn, caller, result, worker, answer, request, expired>>

CallStep(c) == Start(c) \/ Responds(c) \/ Completed(c) \/ Done(c)

Next ==
    \/ \E c \in Call : CallStep(c) \/ Serve(c) \/ Expire(c)
    \/ \E o \in Object : Recreate(o)

Spec == Init /\ [][Next]_vars

\* The caller runs and its timer fires; nothing is asked of the deleter.
LiveSpec ==
    /\ Spec
    /\ \A c \in Call : /\ WF_vars(Start(c)) /\ WF_vars(Expire(c))
                       /\ WF_vars(Completed(c)) /\ WF_vars(Done(c))

-----------------------------------------------------------------------------
(* Properties. *)

Settled == {"nil", "notFound"}

\* What an answer says of the request, before and after the caller has it.
AnswerInv ==
    /\ TypeOK
    /\ \A c \in Call :
          /\ answer[c] = "nil" => request[c] = "applied"
          /\ answer[c] = "notFound" => request[c] = "notFound"
          /\ result[c] \in Settled => result[c] = answer[c] /\ worker[c] = "ended"
          /\ result[c] = "none" <=> caller[c] # "returned"
          /\ caller[c] = "returned" <=> c < turn
          /\ caller[c] = "select" => c = turn
          /\ caller[c] = "before" <=> request[c] = "none"
          /\ caller[c] = "before" => answer[c] = "none" /\ worker[c] = "none"
          /\ worker[c] = "sending" => answer[c] # "none"

\* A delete that was answered is over: an object that a controller makes again
\* after the call returned nil, or NotFound, is not removed by its request.
NothingAfterAnswer ==
    \A c \in Call : result[c] \in Settled => request[c] # "sent"

\* An object disappears only by a call under way, or by one that returned a
\* timeout or an error, whose effect is then unknown to the wipe.
DeletesAreAccountedFor ==
    [][\A o \in present \ present' :
          \E c \in Call : /\ Target[c] = o
                          /\ c = turn \/ result[c] \in {"deadline", "error"}]_vars

\* What the calls promise (DeletePromise), seen from outside: the objects, what
\* became of each request, and what each caller was told.
Promise == INSTANCE DeletePromise WITH
    Objects <- Object, Deletes <- Call, ObjectOf <- Target,
    there <- present, effect <- request, told <- result

\* Goroutine, channel and context do implement it: however the select, the
\* deleter and the server interleave, and whichever requests arrive after their
\* caller has gone, each delete strikes once at most, and what its caller is told
\* is what happened (client.go:282-298).
PromiseKept == Promise!DSpec

\* deleteItem returns in any case, though the deleter may never do.
DeleteReturns == \A c \in Call : caller[c] = "select" ~> caller[c] = "returned"

=============================================================================
