------------------------------ MODULE DeleteProofs ------------------------------
(***************************************************************************)
(* DeleteItem for any number of calls, objects and re-creations: what the  *)
(* answer of deleteItem says about its request.                            *)
(***************************************************************************)
EXTENDS DeleteItem, TLAPS

USE DeleteAssumption DEF Call

\* Nothing has been called.
LEMMA InitInv == Init => AnswerInv
  BY DEF Init, AnswerInv, TypeOK, Error, Settled

\* The caller's own steps: it starts the goroutine, or returns.
LEMMA CallerInv ==
  ASSUME AnswerInv, NEW c \in Call, Start(c) \/ Completed(c) \/ Done(c)
  PROVE  AnswerInv'
<1>1. CASE Start(c)
  <2>1. TypeOK'
    BY <1>1 DEF AnswerInv, TypeOK, Start, Becomes
  <2> QED BY <1>1, <2>1 DEF AnswerInv, TypeOK, Start, Becomes, Settled
<1>2. CASE Completed(c)
  <2>1. answer[c] \in Error
    BY <1>2 DEF AnswerInv, TypeOK, Completed
  <2>2. TypeOK'
    BY <1>2, <2>1 DEF AnswerInv, TypeOK, Completed, Return, Becomes
  <2> QED BY <1>2, <2>1, <2>2 DEF AnswerInv, TypeOK, Completed, Return, Becomes, Settled, Error
<1>3. CASE Done(c)
  <2>1. TypeOK'
    BY <1>3 DEF AnswerInv, TypeOK, Done, Return, Becomes, Error
  <2> QED BY <1>3, <2>1 DEF AnswerInv, TypeOK, Done, Return, Becomes, Settled, Error
<1> QED BY <1>1, <1>2, <1>3

\* The goroutine gets its answer from the request, or makes an error of its own.
LEMMA RespondsInv ==
  ASSUME AnswerInv, NEW c \in Call, Responds(c)
  PROVE  AnswerInv'
<1>1. PICK err \in Error :
         /\ DeleterReturns(c, err)
         /\ err = "nil" => request[c] = "applied"
         /\ err = "notFound" => request[c] = "notFound"
  BY DEF Responds, Error
<1>2. TypeOK' /\ answer[c] \in Error \cup {"none"}
  BY <1>1 DEF AnswerInv, TypeOK, DeleterReturns, Becomes
<1>3. result[c] \notin Settled /\ caller[c] # "before"
  BY <1>1 DEF AnswerInv, DeleterReturns
<1> QED BY <1>1, <1>2, <1>3 DEF AnswerInv, TypeOK, DeleterReturns, Becomes, Settled, Error

\* The server, the timer and the controllers.
LEMMA OthersInv ==
  ASSUME AnswerInv,
         \/ \E c \in Call : Serve(c) \/ Expire(c)
         \/ \E o \in Object : Recreate(o)
  PROVE  AnswerInv'
<1>1. ASSUME NEW c \in Call, Serve(c) PROVE AnswerInv'
  <2>1. TypeOK
    BY DEF AnswerInv
  <2>2. TypeOK'
    BY <1>1, <2>1 DEF TypeOK, Serve, Becomes
  <2>3. /\ request[c] = "sent" /\ request'[c] \in {"applied", "notFound", "lost"}
        /\ \A d \in Call \ {c} : request'[d] = request[d]
        /\ UNCHANGED <<turn, caller, result, worker, answer>>
    BY <1>1, <2>1 DEF TypeOK, Serve, Becomes
  <2>4. answer[c] \notin {"nil", "notFound"}
    BY <2>3 DEF AnswerInv
  <2>5. \A d \in Call : /\ answer'[d] = "nil" => request'[d] = "applied"
                        /\ answer'[d] = "notFound" => request'[d] = "notFound"
                        /\ caller'[d] = "before" <=> request'[d] = "none"
    BY <2>3, <2>4 DEF AnswerInv
  <2> QED BY <2>2, <2>3, <2>5 DEF AnswerInv, Settled
<1>2. ASSUME NEW c \in Call, Expire(c) PROVE AnswerInv'
  BY <1>2 DEF AnswerInv, TypeOK, Expire, Settled
<1>3. ASSUME NEW o \in Object, Recreate(o) PROVE AnswerInv'
  BY <1>3 DEF AnswerInv, TypeOK, Recreate, Settled
<1> QED BY <1>1, <1>2, <1>3

\* Every step keeps the invariant.
LEMMA NextInv ==
  ASSUME AnswerInv, [Next]_vars
  PROVE  AnswerInv'
<1>1. CASE \E c \in Call : CallStep(c)
  BY <1>1, CallerInv, RespondsInv DEF CallStep
<1>2. CASE \/ \E c \in Call : Serve(c) \/ Expire(c)
           \/ \E o \in Object : Recreate(o)
  BY <1>2, OthersInv
<1>3. CASE UNCHANGED vars
  BY <1>3 DEF vars, AnswerInv, TypeOK, Settled
<1> QED BY <1>1, <1>2, <1>3 DEF Next

-----------------------------------------------------------------------------
\* What an answer of deleteItem says of its request.
THEOREM AnswerInvHolds == Spec => []AnswerInv
<1>1. Init => AnswerInv
  BY InitInv
<1>2. AnswerInv /\ [Next]_vars => AnswerInv'
  BY NextInv
<1> QED BY <1>1, <1>2, PTL DEF Spec

\* A delete that was answered has no request left that could strike later.
THEOREM AnsweredIsOver == Spec => []NothingAfterAnswer
<1>1. AnswerInv => NothingAfterAnswer
  BY DEF AnswerInv, NothingAfterAnswer, Settled
<1> QED BY <1>1, AnswerInvHolds, PTL

\* No object disappears without a call under way or one that returned a timeout
\* or an error, for any number of calls and re-creations.
THEOREM DeletesHaveACall == Spec => DeletesAreAccountedFor
<1> DEFINE Accounted ==
      \A o \in present \ present' :
         \E c \in Call : /\ Target[c] = o
                         /\ c = turn \/ result[c] \in {"deadline", "error"}
<1>1. AnswerInv /\ [Next]_vars => [Accounted]_vars
  <2> SUFFICES ASSUME AnswerInv, Next PROVE Accounted
    OBVIOUS
  <2> TAKE o \in present \ present'
  <2>1. PICK c \in Call : Serve(c)
    BY DEF Next, CallStep, Start, Responds, DeleterReturns, Completed, Done, Return, Expire, Recreate
  <2>2. Target[c] = o /\ request[c] = "sent"
    BY <2>1 DEF Serve
  <2>3. result[c] \notin Settled
    BY <2>2 DEF AnswerInv, Settled
  <2>4. c = turn \/ result[c] \in {"deadline", "error"}
    BY <2>2, <2>3 DEF AnswerInv, TypeOK, Settled, Error
  <2> QED BY <2>2, <2>4
<1>2. [](AnswerInv) /\ [][Next]_vars => [][Accounted]_vars
  BY <1>1, PTL
<1> QED BY <1>2, AnswerInvHolds, PTL DEF Spec, DeletesAreAccountedFor

-----------------------------------------------------------------------------
(* The refinement of DeletePromise. *)

\* What nobody outside sees: the goroutine, its answer and the timer.
LEMMA InsideStutters ==
  ASSUME NEW c \in Call, Responds(c) \/ Expire(c)
  PROVE  UNCHANGED Promise!dVars
  BY DEF Responds, DeleterReturns, Expire, Promise!dVars

\* A call issues its delete when those before it have been answered.
LEMMA StartIssues ==
  ASSUME AnswerInv, NEW c \in Call, Start(c)
  PROVE  Promise!Issue(c)
<1>1. request[c] = "none" /\ request' = [request EXCEPT ![c] = "sent"]
  BY DEF AnswerInv, Start, Becomes
<1>2. ASSUME NEW d \in Call, request[d] # "none" PROVE result[d] # "none"
  <2>1. caller[d] # "before" /\ caller[c] = "before" /\ c = turn
    BY <1>2 DEF AnswerInv, Start
  <2>2. caller[d] # "select"
    BY <2>1 DEF AnswerInv
  <2> QED BY <2>1, <2>2 DEF AnswerInv, TypeOK
<1> QED BY <1>1, <1>2 DEF Promise!Issue, Start

\* The server serves a request as the promise says.
LEMMA ServeStrikes ==
  ASSUME NEW c \in Call, Serve(c)
  PROVE  Promise!Strike(c) \/ Promise!Miss(c)
  BY DEF Serve, Becomes, Promise!Strike, Promise!Miss

\* Whichever branch of the select is taken, the caller is told the truth.
LEMMA ReturnTells ==
  ASSUME AnswerInv, NEW c \in Call, Completed(c) \/ Done(c)
  PROVE  \E what \in Error : Promise!Tell(c, what)
<1>1. PICK what \in Error :
         /\ Return(c, what)
         /\ what = "nil" => request[c] = "applied"
         /\ what = "notFound" => request[c] = "notFound"
  BY DEF Completed, Done, AnswerInv, TypeOK, Error
<1>2. result[c] = "none" /\ caller[c] = "select"
  BY <1>1 DEF AnswerInv, Return
<1>3. request[c] # "none"
  BY <1>2 DEF AnswerInv, TypeOK
<1> QED BY <1>1, <1>2, <1>3 DEF Promise!Tell, Return, Becomes

\* Every step is one of the promise, or none.
LEMMA StepKeepsPromise ==
  ASSUME AnswerInv, [Next]_vars
  PROVE  [Promise!DNext]_(Promise!dVars)
<1>1. CASE UNCHANGED vars
  BY <1>1 DEF vars, Promise!dVars
<1>2. ASSUME NEW c \in Call, Start(c) PROVE Promise!DNext
  BY <1>2, StartIssues DEF Promise!DNext
<1>3. ASSUME NEW c \in Call, Responds(c) \/ Expire(c) PROVE UNCHANGED Promise!dVars
  BY <1>3, InsideStutters
<1>4. ASSUME NEW c \in Call, Completed(c) \/ Done(c) PROVE Promise!DNext
  BY <1>4, ReturnTells DEF Promise!DNext, Error
<1>5. ASSUME NEW c \in Call, Serve(c) PROVE Promise!DNext
  BY <1>5, ServeStrikes DEF Promise!DNext
<1>6. ASSUME NEW o \in Object, Recreate(o) PROVE Promise!DNext
  <2>1. o \in Object \ present /\ Promise!Appear(o)
    BY <1>6 DEF Recreate, Promise!Appear
  <2> QED BY <2>1 DEF Promise!DNext
<1> QED
  BY <1>1, <1>2, <1>3, <1>4, <1>5, <1>6 DEF Next, CallStep

\* deleteItem keeps the promise of DeletePromise, for any number of calls, objects
\* and re-creations: a delete strikes at most once, and what its caller is told is
\* what happened (client.go:282-298).
THEOREM DeletesKeepPromise == Spec => PromiseKept
<1>1. Init => Promise!DInit
  BY DEF Init, Promise!DInit
<1>2. AnswerInv /\ [Next]_vars => [Promise!DNext]_(Promise!dVars)
  BY StepKeepsPromise
<1> QED
  BY <1>1, <1>2, AnswerInvHolds, PTL DEF Spec, PromiseKept, Promise!DSpec

=============================================================================
