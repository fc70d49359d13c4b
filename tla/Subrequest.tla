------------------------------ MODULE Subrequest ------------------------------
(***************************************************************************)
(* Subrequests and the futures that await them (http/subrequest.rs).  The  *)
(* completion handler is an Option in a cell of the parent request's pool. *)
(* A future shares an output slot with a guard that the handler owns, so   *)
(* the handler's end, whatever ends it, answers the future.                *)
(***************************************************************************)
EXTENDS Integers, FiniteSets

CONSTANTS Subs,          \* the subrequests that may be built
          Tasks,         \* the tasks that may poll a future
          MaxFinalize,   \* bound: finalizations of one subrequest
          MaxMoves       \* bound: moves of a future from task to task

VARIABLES pool,     \* the parent request's pool exists
          stage,    \* stage[s]: what nginx knows of the subrequest
          cell,     \* cell[s]: the Option<H> allocated with a cleanup
          calls,    \* calls[s]: calls of the module's completion handler
          drops,    \* drops[s]: times the handler closure was consumed
          runs,     \* runs[s]: times nginx has called run_handler
          future,   \* future[s]: the state of SubRequestFuture
          owner,    \* owner[s]: the task that awaits the future
          moves,    \* moves of a future from task to task
          output,   \* output[s]: AsyncSubRequestState::output
          waker,    \* waker[s]: the task of AsyncSubRequestState::waker
          canceled, \* canceled[s]: AsyncSubRequestState::canceled
          ready,    \* the tasks that the scheduler will poll
          result,   \* result[s]: what the future returned
          body      \* body[s]: whose request body the subrequest reads

vars == <<pool, stage, cell, calls, drops, runs, future, owner, moves, output,
          waker, canceled, ready, result, body>>

nginx == <<pool, stage, cell, calls, drops, runs, body>>

none == "none"

SubAssumption ==
    none \notin Tasks /\ MaxFinalize \in Nat /\ MaxMoves \in Nat

Init ==
    /\ pool = TRUE
    /\ stage = [s \in Subs |-> "unbuilt"] /\ cell = [s \in Subs |-> none]
    /\ moves = 0 /\ calls = [s \in Subs |-> 0] /\ drops = [s \in Subs |-> 0]
    /\ runs = [s \in Subs |-> 0]
    /\ future = [s \in Subs |-> none] /\ owner \in [Subs -> Tasks]
    /\ output = [s \in Subs |-> none] /\ waker = [s \in Subs |-> none]
    /\ canceled = [s \in Subs |-> FALSE] /\ ready = {}
    /\ result = [s \in Subs |-> none] /\ body = [s \in Subs |-> none]

Accepts(s) == ~canceled[s] /\ result[s] = none /\ output[s] = none

(* AsyncSubRequestState::complete for the subrequests that out maps to an  *)
(* outcome, and the wake of the waker it returns.                          *)
Complete(out) ==
    LET done == {s \in DOMAIN out : Accepts(s)} IN
    /\ output' = [s \in Subs |-> IF s \in done THEN out[s] ELSE output[s]]
    /\ ready' = ready \cup ({waker[s] : s \in done} \ {none})
    /\ waker' = [s \in Subs |-> IF s \in done THEN none ELSE waker[s]]

Single(s, x) == [t \in {s} |-> x]

(* What the builder is asked for, beyond the data that nginx interprets.   *)
Options == [keep_body : BOOLEAN]

(* SubRequestBuilder::build through build_async: the separate body is made *)
(* before, and installed after, nginx has accepted the subrequest.         *)
Build(s, o) ==
    /\ pool /\ stage[s] = "unbuilt"
    /\ stage' = [stage EXCEPT ![s] = "running"]
    /\ cell' = [cell EXCEPT ![s] = "some"]
    /\ body' = [body EXCEPT ![s] = IF o.keep_body THEN "parent" ELSE "own"]
    /\ future' = [future EXCEPT ![s] = "pending"]
    /\ ready' = ready \cup {owner[s]}
    /\ UNCHANGED <<pool, calls, drops, runs, owner, moves, output, waker, canceled,
                   result>>

(* A failed build returns an error: whether the body, the header list, the *)
(* handler cell or the post record could not be allocated or nginx refused *)
(* the subrequest, the handler is consumed, with its guard, and build_async*)
(* then drops the future that it made.                                     *)
BuildFails(s) ==
    /\ pool /\ stage[s] = "unbuilt"
    /\ stage' = [stage EXCEPT ![s] = "failed"]
    /\ drops' = [drops EXCEPT ![s] = @ + 1]
    /\ canceled' = [canceled EXCEPT ![s] = TRUE]
    /\ future' = [future EXCEPT ![s] = "dropped"]
    /\ UNCHANGED <<pool, cell, calls, runs, owner, moves, output, waker, ready, result,
                   body>>

(* nginx finalizes the subrequest, more than once if it must, and calls    *)
(* run_handler: the closure is taken from its cell.  It calls the module's *)
(* handler unless the future was dropped; a second call finds the cell     *)
(* empty and passes the status on.                                         *)
TakesHandler(s) == cell' = [cell EXCEPT ![s] = IF @ = "some" THEN "empty" ELSE @]

RunHandler(s) ==
    /\ pool /\ stage[s] \in {"running", "done"} /\ runs[s] < MaxFinalize
    /\ runs' = [runs EXCEPT ![s] = @ + 1]
    /\ TakesHandler(s)
    /\ IF cell[s] = "some" /\ ~canceled[s]
         THEN /\ stage' = [stage EXCEPT ![s] = "handler"]
              /\ calls' = [calls EXCEPT ![s] = @ + 1]
              /\ drops' = drops
         ELSE /\ stage' = [stage EXCEPT ![s] = "done"]
              /\ calls' = calls
              /\ drops' = [drops EXCEPT ![s] = IF cell[s] = "some" THEN @ + 1 ELSE @]
    /\ UNCHANGED <<pool, future, owner, moves, output, waker, canceled, ready, result,
                   body>>

Finish(s) == Complete(Single(s, "value"))

(* The module's handler returns, possibly after it has had the parent drop *)
(* the future, and the guard finishes with its value.                      *)
FinishHandler(s) ==
    /\ stage[s] = "handler"
    /\ stage' = [stage EXCEPT ![s] = "done"]
    /\ drops' = [drops EXCEPT ![s] = @ + 1]
    /\ Finish(s)
    /\ UNCHANGED <<pool, cell, calls, runs, future, owner, moves, canceled, result, body>>

ForgetGuards(S) == UNCHANGED <<output, waker, ready>>

(* The parent's pool is destroyed: the cleanups of the cells drop the      *)
(* closures that nginx never called, and their guards cancel.              *)
DropGuards(S) == Complete([s \in S |-> "canceled"])

DestroyPool ==
    /\ pool /\ \A s \in Subs : stage[s] # "handler"
    /\ pool' = FALSE
    /\ LET some == {s \in Subs : cell[s] = "some"} IN
       /\ drops' = [s \in Subs |-> IF s \in some THEN drops[s] + 1 ELSE drops[s]]
       /\ cell' = [s \in Subs |-> none]
       /\ DropGuards(some)
    /\ stage' = [s \in Subs |-> IF stage[s] \in {"running", "done"} THEN "done"
                                ELSE stage[s]]
    /\ UNCHANGED <<calls, runs, future, owner, moves, canceled, result, body>>

(* SubRequestFuture::poll of every future that the running task awaits.    *)
Registers(s, t) == t

Poll(t) ==
    /\ t \in ready
    /\ ready' = ready \ {t}
    /\ LET mine == {s \in Subs : future[s] = "pending" /\ owner[s] = t}
           over == {s \in mine : output[s] # none} IN
       /\ result' = [s \in Subs |-> IF s \in over THEN output[s] ELSE result[s]]
       /\ output' = [s \in Subs |-> IF s \in over THEN none ELSE output[s]]
       /\ future' = [s \in Subs |-> IF s \in over THEN "consumed" ELSE future[s]]
       /\ waker' = [s \in Subs |-> IF s \in mine \ over THEN Registers(s, t)
                                    ELSE waker[s]]
    /\ UNCHANGED <<nginx, owner, moves, canceled>>

(* The future moves to another task, which polls it when it starts.        *)
Move(s, t) ==
    /\ future[s] = "pending" /\ t # owner[s] /\ moves < MaxMoves
    /\ moves' = moves + 1
    /\ owner' = [owner EXCEPT ![s] = t] /\ ready' = ready \cup {t}
    /\ UNCHANGED <<nginx, future, output, waker, canceled, result>>

Cancel(s) ==
    /\ canceled' = [canceled EXCEPT ![s] = TRUE]
    /\ output' = [output EXCEPT ![s] = none]
    /\ waker' = [waker EXCEPT ![s] = none]

DropFuture(s) ==
    /\ future[s] = "pending"
    /\ future' = [future EXCEPT ![s] = "dropped"]
    /\ Cancel(s)
    /\ UNCHANGED <<nginx, owner, moves, ready, result>>

Over == ~pool /\ \A s \in Subs : future[s] # "pending"

Next ==
    \/ DestroyPool \/ \E t \in Tasks : Poll(t)
    \/ \E s \in Subs :
        \/ \E o \in Options : Build(s, o)
        \/ BuildFails(s) \/ RunHandler(s) \/ FinishHandler(s)
        \/ DropFuture(s)
        \/ \E t \in Tasks : Move(s, t)
    \/ Over /\ UNCHANGED vars

Spec == Init /\ [][Next]_vars

(* The scheduler polls the tasks that are ready, a handler returns, and    *)
(* nginx ends the request.                                                 *)
Fairness ==
    /\ WF_vars(DestroyPool)
    /\ \A t \in Tasks : WF_vars(Poll(t))
    /\ \A s \in Subs : WF_vars(FinishHandler(s))

FairSpec == Spec /\ Fairness

(* Types; a waker is stored only for a future that is still awaited.       *)
TypeOK ==
    /\ pool \in BOOLEAN /\ moves \in 0..MaxMoves /\ ready \subseteq Tasks
    /\ \A s \in Subs :
        /\ stage[s] \in {"unbuilt", "failed", "running", "handler", "done"}
        /\ cell[s] \in {none, "some", "empty"} /\ runs[s] \in 0..MaxFinalize
        /\ future[s] \in {none, "pending", "consumed", "dropped"}
        /\ output[s] \in {none, "value", "canceled"} /\ owner[s] \in Tasks
        /\ waker[s] \in Tasks \cup {none} /\ canceled[s] \in BOOLEAN
        /\ waker[s] # none => future[s] = "pending"
        /\ result[s] \in {none, "value", "canceled"}
        /\ body[s] \in {none, "own", "parent"}

(* The closure that a build takes is consumed exactly once, by the failed  *)
(* build, by nginx's first finalization or by the pool, and never runs     *)
(* again however often nginx finalizes the subrequest.                     *)
ConsumedOnce ==
    \A s \in Subs :
        /\ calls[s] <= 1
        /\ drops[s] = (IF stage[s] = "unbuilt" \/ cell[s] = "some"
                           \/ stage[s] = "handler" THEN 0 ELSE 1)

(* A pending future that has its answer has a task on the way to poll it,  *)
(* whichever task it was moved to; a future whose handler is gone has its  *)
(* answer.                                                                 *)
AnswerIsAnnounced ==
    \A s \in Subs : future[s] = "pending" =>
        /\ output[s] # none => owner[s] \in ready
        /\ drops[s] = 1 => output[s] # none

(* A module handler never starts for a future that was dropped, and an     *)
(* answer is left in no slot that nobody will read.                        *)
NoWorkForTheDropped ==
    \A s \in Subs : future[s] = "dropped" =>
        calls'[s] = calls[s] /\ output'[s] = none

(* The value reaches the future only if the module's handler produced it.  *)
ValueFromHandler ==
    \A s \in Subs : /\ result[s] = "value" => calls[s] = 1
                    /\ result[s] = "canceled" => calls[s] = 0

(* What holds of subrequests and their futures in every state.             *)
SubrequestsSafe == TypeOK /\ ConsumedOnce /\ AnswerIsAnnounced /\ ValueFromHandler

(* Every future that is not dropped is answered: by the subrequest or by   *)
(* the end of the parent.                                                  *)
FutureAnswered == \A s \in Subs : future[s] = "pending" ~> future[s] # "pending"
=============================================================================
