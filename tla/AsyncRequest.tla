----------------------------- MODULE AsyncRequest -----------------------------
(***************************************************************************)
(* Asynchronous phase handlers (http/async_request.rs): one run of a       *)
(* handler composes a request context, an attached task, a posted event    *)
(* and a request hold.  The task stores its output and posts the event,    *)
(* the event gives the hold up and posts the request to nginx, and the     *)
(* handler that nginx then calls takes the output and finishes.            *)
(***************************************************************************)
EXTENDS Integers, FiniteSets

CONSTANTS Requests,    \* the main request and its subrequests
          MaxRuns,     \* bound: runs of the handler for one request
          MaxCount,    \* the largest count that a hold may reach
          TasksTerminate   \* nginx may destroy the pool in a call of a task

AsyncAssumption ==
    /\ IsFiniteSet(Requests) /\ MaxRuns \in Nat /\ MaxCount \in Nat \ {0}
    /\ TasksTerminate \in BOOLEAN

Runs == 1..MaxRuns
AllRuns == Requests \X Runs

VARIABLES base,     \* the references of nginx itself, one per subrequest too
          pool,     \* the request pool exists
          count,    \* the main request's count
          phase,    \* phase[r]: what nginx does with the request
          posted,   \* posted[r]: the request is posted to nginx
          slot,     \* slot[r]: the run that the context slot shows, or 0
          run,      \* run[r][k]: AsyncContinuationState and its context
          batch     \* what Scheduler::process has taken and not yet run

vars == <<base, pool, count, phase, posted, slot, run, batch>>

Quiet(st) == [st |-> st, task |-> "none", output |-> FALSE, hold |-> FALSE,
              active |-> FALSE, phase_posted |-> FALSE, queued |-> FALSE]

Started == [Quiet("live") EXCEPT !.task = "attached", !.hold = TRUE, !.active = TRUE]

(* AsyncHandlerContext::drop deactivates the state, drops the task and the *)
(* output, shuts the event down and cancels the hold.  Dropping an         *)
(* attached task only asks for its cancellation: the future stays until    *)
(* the scheduler drops it, and finds the state by pointer if it is polled. *)
DropContext(c) ==
    [Quiet("dropped") EXCEPT !.task = IF c.task = "attached" THEN "canceled" ELSE "none"]

(* The runs S that hold the request, those whose slot shows another run or *)
(* none, and all the runs after the contexts of S were dropped; the        *)
(* registry is the pool's, and a sweep that of all the requests in it.     *)
Holding(S) == {rk \in S : run[rk[1]][rk[2]].hold}

Held(S) == Cardinality(Holding(S))

Stale == {rk \in AllRuns : run[rk[1]][rk[2]].st = "live" /\ slot[rk[1]] # rk[2]}

Sweep(S) ==
    [r \in Requests |-> [k \in Runs |->
        IF <<r, k>> \in S THEN DropContext(run[r][k]) ELSE run[r][k]]]

Init ==
    /\ base \in 1..MaxCount /\ pool = TRUE /\ count = base
    /\ phase = [r \in Requests |-> "run"] /\ posted = [r \in Requests |-> FALSE]
    /\ slot = [r \in Requests |-> 0] /\ batch = {}
    /\ run = [r \in Requests |-> [k \in Runs |-> Quiet("unused")]]

CanHold(n) == n < MaxCount

(* What a start leaves: a run; a context that was removed because nothing  *)
(* was allocated or spawned; or one whose spawned task cannot hold.        *)
Opened(how) ==
    IF how = "started" THEN Started
    ELSE IF how = "unheld" THEN DropContext(Started) ELSE Quiet("dropped")

(* AsyncPhaseHandler::handler without a context, after the lookup has      *)
(* swept the stale contexts.                                               *)
Start(r, how) ==
    /\ pool /\ phase[r] = "run" /\ slot[r] = 0
    /\ \E k \in Runs :
        /\ run[r][k].st = "unused" /\ \A j \in 1..(k - 1) : run[r][j].st # "unused"
        /\ LET left == count - Held(Stale) IN
           /\ how = "started" => CanHold(left)
           /\ how = "unheld" => ~CanHold(left)
           /\ run' = [Sweep(Stale) EXCEPT ![r][k] = Opened(how)]
           /\ count' = IF how = "started" THEN left + 1 ELSE left
           /\ slot' = [slot EXCEPT ![r] = IF how = "started" THEN k ELSE 0]
    /\ phase' = [phase EXCEPT ![r] = IF how = "started" THEN "wait" ELSE "error"]
    /\ UNCHANGED <<base, pool, posted, batch>>

Ready(c) == c.phase_posted /\ c.output

(* ... with a context that is not ready (nginx also calls the handler for  *)
(* write events of its own).                                               *)
Pending(r) ==
    /\ pool /\ phase[r] = "run" /\ slot[r] # 0 /\ ~Ready(run[r][slot[r]])
    /\ phase' = [phase EXCEPT ![r] = "wait"]
    /\ run' = Sweep(Stale) /\ count' = count - Held(Stale)
    /\ UNCHANGED <<base, pool, posted, slot, batch>>

(* ... with a context that is ready: it is removed and H::finish called.   *)
Finish(r) ==
    /\ pool /\ phase[r] = "run" /\ slot[r] # 0 /\ Ready(run[r][slot[r]])
    /\ LET gone == {<<r, slot[r]>>} \cup Stale IN
       run' = Sweep(gone) /\ count' = count - Held(gone)
    /\ phase' = [phase EXCEPT ![r] = "next"] /\ slot' = [slot EXCEPT ![r] = 0]
    /\ UNCHANGED <<base, pool, posted, batch>>

(* Scheduler::process takes the cancellations and the queue together, and  *)
(* drops the futures of the cancelled tasks before it runs anything.       *)
CancelTasks ==
    [r \in Requests |-> [k \in Runs |->
        [run[r][k] EXCEPT !.task = IF @ = "canceled" THEN "none" ELSE @]]]

Runnable(R) == {rk \in AllRuns : R[rk[1]][rk[2]].task \in {"attached", "canceled"}}

(* A runnable whose future stays pending changes nothing here, and is left *)
(* out of the batch.                                                       *)
Process ==
    /\ batch = {}
    /\ run' = CancelTasks
    /\ batch' \in SUBSET Runnable(CancelTasks)
    /\ UNCHANGED <<base, pool, count, phase, posted, slot>>

(* handler_future: the future is ready; an inactive run forgets it.  The   *)
(* context may have gone since the batch was taken.                        *)
Notify(c) == [c EXCEPT !.output = TRUE, !.queued = TRUE]

NotifyAlways(c) == [Notify(c) EXCEPT !.task = "none"]

HandlerFuture(c) == [(IF c.active THEN Notify(c) ELSE c) EXCEPT !.task = "none"]

TaskCompletes(r, k) ==
    /\ <<r, k>> \in batch
    /\ batch' = batch \ {<<r, k>>}
    /\ run' = [run EXCEPT ![r][k] = HandlerFuture(@)]
    /\ UNCHANGED <<base, pool, count, phase, posted, slot>>

(* The scheduler stops or fails: it drops the future, without an output.   *)
TaskLost(r, k) ==
    /\ <<r, k>> \in Runnable(run)
    /\ batch' = batch \ {<<r, k>>}
    /\ run' = [run EXCEPT ![r][k].task = IF @ = "attached" THEN "lost" ELSE "none"]
    /\ UNCHANGED <<base, pool, count, phase, posted, slot>>

(* RequestHold::resume_phase: the write event handler becomes the phase    *)
(* engine, the request is posted and only then the hold released.          *)
ResumePhase(r, k) ==
    /\ run' = [run EXCEPT ![r][k].queued = FALSE, ![r][k].hold = FALSE,
                          ![r][k].phase_posted = TRUE]
    /\ count' = count - 1
    /\ posted' = [posted EXCEPT ![r] = TRUE]

Waiting(c) == c.active /\ ~c.phase_posted /\ c.output /\ c.hold

(* async_phase_continuation, the callback of the posted event: the request *)
(* is resumed, or a context that is no longer in its slot is swept, with   *)
(* the other stale ones, or there is nothing to do.                        *)
Continuation(r, k) ==
    /\ run[r][k].queued
    /\ IF Waiting(run[r][k]) /\ slot[r] = k /\ count > 1 THEN ResumePhase(r, k)
       ELSE LET gone == IF Waiting(run[r][k]) /\ slot[r] # k THEN Stale ELSE {} IN
            /\ run' = [Sweep(gone) EXCEPT ![r][k].queued = FALSE]
            /\ count' = count - Held(gone)
            /\ UNCHANGED posted
    /\ UNCHANGED <<base, pool, phase, slot, batch>>

(* nginx dispatches the write event, for the posted request or spuriously. *)
RunPhases(r) ==
    /\ pool /\ phase[r] = "wait"
    /\ phase' = [phase EXCEPT ![r] = "run"]
    /\ posted' = [posted EXCEPT ![r] = FALSE]
    /\ UNCHANGED <<base, pool, count, slot, run, batch>>

(* nginx redirects the request: it clears the slot and starts over.        *)
Redirect(r) ==
    /\ pool /\ phase[r] = "wait" /\ \E k \in Runs : run[r][k].st = "unused"
    /\ phase' = [phase EXCEPT ![r] = "run"] /\ slot' = [slot EXCEPT ![r] = 0]
    /\ UNCHANGED <<base, pool, count, posted, run, batch>>

(* nginx terminates the request, or frees it after its last reference: the *)
(* contexts are dropped by the request's cleanup, then the pool goes.      *)
Terminate ==
    /\ pool /\ (TasksTerminate \/ batch = {})
    /\ pool' = FALSE /\ count' = 0
    /\ run' = Sweep({rk \in AllRuns : run[rk[1]][rk[2]].st = "live"})
    /\ slot' = [r \in Requests |-> 0] /\ posted' = [r \in Requests |-> FALSE]
    /\ UNCHANGED <<base, phase, batch>>

Next ==
    \/ Terminate \/ Process
    \/ \E r \in Requests :
        \/ \E how \in {"started", "unspawned", "unheld"} : Start(r, how)
        \/ Pending(r) \/ Finish(r) \/ RunPhases(r) \/ Redirect(r)
        \/ \E k \in Runs : TaskCompletes(r, k) \/ TaskLost(r, k) \/ Continuation(r, k)

(* A future that is not lost is polled and ends, posted events are         *)
(* dispatched and a posted request is run; spurious write events,          *)
(* redirects and termination need not happen.                              *)
Fairness ==
    \A r \in Requests :
        /\ WF_vars(posted[r] /\ RunPhases(r)) /\ WF_vars(Pending(r))
        /\ WF_vars(Finish(r))
        /\ \A k \in Runs :
            /\ WF_vars(run[r][k].task = "attached" /\ Process /\ <<r, k>> \in batch')
            /\ WF_vars(TaskCompletes(r, k)) /\ WF_vars(Continuation(r, k))

Spec == Init /\ [][Next]_vars /\ Fairness

(* Types; the slot of a request shows a run whose context exists.          *)
TypeOK ==
    /\ base \in 1..MaxCount /\ pool \in BOOLEAN /\ count \in 0..MaxCount
    /\ \A r \in Requests :
        /\ phase[r] \in {"run", "wait", "next", "error"} /\ posted[r] \in BOOLEAN
        /\ slot[r] # 0 => run[r][slot[r]].st = "live"
        /\ \A k \in Runs : run[r][k] \in
              [st : {"unused", "live", "dropped"}, output : BOOLEAN, hold : BOOLEAN,
               task : {"none", "attached", "canceled", "lost"}, active : BOOLEAN,
               phase_posted : BOOLEAN, queued : BOOLEAN]

(* Of a run whose context ended, however it ended, a cancelled future is   *)
(* all that may be left: polled once more, it delivers nothing.  It is not *)
(* polled once the pool is gone, and with it the state that it points to,  *)
(* unless the pool was destroyed from a task of the same batch.            *)
QuietAfterContext ==
    /\ \A r \in Requests : \A k \in Runs : run[r][k].st # "live" =>
          \/ run[r][k] = Quiet(run[r][k].st)
          \/ run[r][k] = [Quiet("dropped") EXCEPT !.task = "canceled"]
    /\ ~pool => \A r \in Requests : \A k \in Runs : run[r][k].st # "live"
    /\ ~pool => TasksTerminate \/ batch = {}

(* Each unfinished run has exactly one reference on the request, from its  *)
(* start until nginx has the request in its queue again.                   *)
CountExact ==
    pool => count = base + Cardinality({rk \in Requests \X Runs :
                            LET c == run[rk[1]][rk[2]] IN
                            c.st = "live" /\ c.active /\ ~c.phase_posted})

(* An output that its run still waits to deliver has its event queued, its *)
(* request posted or its handler about to be called.                       *)
OutputOnTheWay ==
    \A r \in Requests : \A k \in Runs : slot[r] = k /\ run[r][k].output =>
        run[r][k].queued \/ posted[r] \/ phase[r] = "run"

(* What a run promises, as long as nothing has to happen.                  *)
HandlersSafe == TypeOK /\ QuietAfterContext /\ CountExact /\ OutputOnTheWay

(* A run whose context stays in its slot finishes, unless its task is lost.*)
RunEnds ==
    \A r \in Requests : \A k \in Runs :
        slot[r] = k ~> slot[r] # k \/ run[r][k].task = "lost"
=============================================================================
