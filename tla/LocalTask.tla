------------------------------ MODULE LocalTask ------------------------------
(***************************************************************************)
(* Joining a spawned task (src/src/async_/spawn/task.rs): the handle that  *)
(* is polled for the task's result, the runner that produces it, and the   *)
(* TaskControl (scheduler.rs) they share with every thread that holds a    *)
(* cancellation handle or finds the scheduler broken.                      *)
(*                                                                         *)
(* The handle and the runner live on the worker thread, whose routines     *)
(* are sequences of steps (wpc); a foreign thread changes the status and   *)
(* takes the waker in two steps that fall anywhere between them.  A        *)
(* compare_exchange loop is one step: its retries end in an exchange from  *)
(* the status then current.  The scheduler is taken for what Scheduler     *)
(* shows of it: it drops the runner of a cancelled task on the worker      *)
(* unless a notification fails first, and any runner when it stops.        *)
(***************************************************************************)
EXTENDS Integers

CONSTANTS
    Contexts,   \* the tasks the handle may be polled from, one at a time
    Threads,    \* foreign threads with a reason to cancel or to fail the task
    None        \* no waker, no result, no one waiting

TaskAssumption == None \notin Contexts \cup {"Ok", "Canceled", "SchedulerFailed"}

VARIABLES
    status,     \* TaskControl::status
    waker,      \* TaskControl::waker
    result,     \* TaskState::result
    runner,     \* the runner: live, done (its future returned) or dropped
    handle,     \* attached, detached or dropped
    completed,  \* LocalTask::completed
    waiting,    \* the context whose poll last returned Pending
    woken,      \* contexts whose waker was invoked since they were polled
    answers,    \* results other than OutputTaken the handle gave: 0, 1 or 2
    answer,     \* the first of them
    wpc,        \* what the worker is doing
    polling,    \* the context the worker polls the handle from
    tpc         \* what every foreign thread is doing

control == <<status, waker>>
join == <<handle, completed, waiting, answers, answer>>
vars == <<control, result, runner, join, woken, wpc, polling, tpc>>

Errors == {"Canceled", "SchedulerFailed"}
Statuses == {"Active", "CancelRequested", "Ready"} \cup Errors
Results == {"Ok", None} \cup Errors

TypeOK ==
    /\ status \in Statuses
    /\ waker \in Contexts \cup {None}
    /\ result \in Results
    /\ runner \in {"live", "done", "dropped"}
    /\ handle \in {"attached", "detached", "dropped"}
    /\ completed \in BOOLEAN
    /\ waiting \in Contexts \cup {None}
    /\ woken \subseteq Contexts
    /\ answers \in 0..2
    /\ answer \in Results
    /\ wpc \in {"idle", "take", "status", "set_waker", "recheck", "error_wake",
                "resolve", "ready_wake"}
    /\ polling \in Contexts \cup {None}
    /\ tpc \in [Threads -> {"idle", "wake", "failed", "over"}]
    /\ runner = "dropped" /\ wpc = "idle" => status \in Errors \cup {"Ready"}

Init ==
    /\ status = "Active" /\ waker = None /\ result = None
    /\ runner = "live" /\ handle = "attached" /\ completed = FALSE
    /\ waiting = None /\ woken = {} /\ answers = 0 /\ answer = None
    /\ wpc = "idle" /\ polling = None
    /\ tpc = [th \in Threads |-> "idle"]

-----------------------------------------------------------------------------
(* TaskControl *)

\* A status that stands for a failure (task_error).
TaskError(s) == IF s \in Errors THEN s ELSE None

\* Mutation: the waker is taken and dropped.
WakeNoOne == woken' = woken /\ waker' = None

\* wake: the stored waker is taken and invoked.
Wake ==
    /\ woken' = woken \cup ({waker} \ {None})
    /\ waker' = None

\* The status that finish(desired) leaves.
Finished(desired) ==
    IF status = "Active" THEN desired
    ELSE IF status = "CancelRequested" THEN "Canceled" ELSE status

\* request_cancel, up to the exchange; what follows is the scheduler's.
RequestCancel == status' = IF status = "Active" THEN "CancelRequested" ELSE status

-----------------------------------------------------------------------------
(* The handle: LocalTask::poll, one step per access to shared state *)

Answer(r) ==
    /\ answers' = IF answers = 2 THEN 2 ELSE answers + 1
    /\ answer' = IF answers = 0 THEN r ELSE answer

Complete(r) ==
    /\ Answer(r)
    /\ completed' = TRUE

\* The poll of a completed handle answers OutputTaken and changes nothing.
Poll(c) ==
    /\ wpc = "idle" /\ handle = "attached" /\ ~completed
    /\ wpc' = "take" /\ polling' = c
    /\ waiting' = None /\ woken' = woken \ {c}
    /\ UNCHANGED <<control, result, runner, handle, completed, answers, answer, tpc>>

Return(pc) == wpc' = pc /\ UNCHANGED <<runner, handle, polling, woken, tpc>>

PollTake ==
    /\ wpc = "take"
    /\ IF result # None
       THEN Complete(result) /\ result' = None /\ Return("idle")
       ELSE Return("status") /\ UNCHANGED <<completed, answers, answer, result>>
    /\ UNCHANGED <<control, waiting>>

PollStatus ==
    /\ wpc = "status"
    /\ IF TaskError(status) # None
       THEN Complete(TaskError(status)) /\ Return("idle")
       ELSE Return("set_waker") /\ UNCHANGED <<completed, answers, answer>>
    /\ UNCHANGED <<control, result, waiting>>

SetWaker ==
    /\ wpc = "set_waker"
    /\ waker' = polling
    /\ Return("recheck")
    /\ UNCHANGED <<status, result, completed, answers, answer, waiting>>

\* Mutation: the status is not read again once the waker is stored.
RecheckNothing ==
    /\ wpc = "recheck"
    /\ waiting' = polling
    /\ Return("idle")
    /\ UNCHANGED <<control, result, completed, answers, answer>>

PollRecheck ==
    /\ wpc = "recheck"
    /\ IF TaskError(status) # None
       THEN Complete(TaskError(status)) /\ UNCHANGED waiting
       ELSE waiting' = polling /\ UNCHANGED <<completed, answers, answer>>
    /\ Return("idle")
    /\ UNCHANGED <<control, result>>

\* cancel(): the handle is kept.
Cancel ==
    /\ wpc = "idle" /\ handle = "attached"
    /\ RequestCancel
    /\ UNCHANGED <<waker, result, runner, join, woken, wpc, polling, tpc>>

\* detach(): attached is cleared, then the handle is dropped.
Detach ==
    /\ wpc = "idle" /\ handle = "attached"
    /\ handle' = "detached" /\ waiting' = None
    /\ UNCHANGED <<control, result, runner, completed, answers, answer,
                   woken, wpc, polling, tpc>>

DropHandle ==
    /\ wpc = "idle" /\ handle = "attached"
    /\ IF completed THEN UNCHANGED status ELSE RequestCancel
    /\ handle' = "dropped" /\ waiting' = None
    /\ UNCHANGED <<waker, result, runner, completed, answers, answer,
                   woken, wpc, polling, tpc>>

-----------------------------------------------------------------------------
(* The runner *)

\* resolve: the first result stays.
Resolve(r) == result' = IF result # None THEN result ELSE r

\* What finish leaves for its caller to do.
AfterFinish(desired) ==
    /\ status' = Finished(desired)
    /\ wpc' = IF status \in {"Active", "CancelRequested"} /\ status' \in Errors
              THEN "error_wake" ELSE "resolve"

\* TaskRunner::poll, the future is ready: finish_ready up to the exchange.
FinishReady ==
    /\ wpc = "idle" /\ runner = "live"
    /\ AfterFinish("Ready")
    /\ runner' = "done"
    /\ UNCHANGED <<waker, result, join, woken, polling, tpc>>

\* Drop of the runner: finish_error(Canceled) up to the exchange.  The
\* scheduler drops a runner that is done, one whose cancellation it
\* processes, and every runner when it stops.
FinishError ==
    /\ wpc = "idle" /\ runner # "dropped"
    /\ AfterFinish("Canceled")
    /\ runner' = "dropped"
    /\ UNCHANGED <<waker, result, join, woken, polling, tpc>>

\* finish of a failure invokes the waker before it returns.
FinishWake ==
    /\ wpc = "error_wake"
    /\ Wake
    /\ wpc' = "resolve"
    /\ UNCHANGED <<status, result, runner, join, polling, tpc>>

\* The match of finish_ready, or the tail of finish_error.  The Drop of a
\* runner that returned Ready finds that status and resolves nothing.
ResolveFinished ==
    /\ wpc = "resolve"
    /\ IF runner = "done" /\ status = "Ready"
       THEN Resolve("Ok") /\ wpc' = "ready_wake"
       ELSE /\ IF TaskError(status) # None
               THEN Resolve(TaskError(status)) ELSE UNCHANGED result
            /\ wpc' = "idle"
    /\ UNCHANGED <<control, runner, join, woken, polling, tpc>>

ReadyWake ==
    /\ wpc = "ready_wake"
    /\ Wake
    /\ wpc' = "idle"
    /\ UNCHANGED <<status, result, runner, join, polling, tpc>>

-----------------------------------------------------------------------------
(* Foreign threads *)

\* CancellationHandle::cancel, from any thread.
ForeignCancel(th) ==
    /\ tpc[th] = "idle"
    /\ RequestCancel
    /\ tpc' = [tpc EXCEPT ![th] = "over"]
    /\ UNCHANGED <<waker, result, runner, join, woken, wpc, polling>>

\* fail_scheduler: the exchange, and then the waker.
FailScheduler(th) ==
    /\ tpc[th] = "idle"
    /\ status \in {"Active", "CancelRequested"}
    /\ status' = "SchedulerFailed"
    /\ tpc' = [tpc EXCEPT ![th] = "wake"]
    /\ UNCHANGED <<waker, result, runner, join, woken, wpc, polling>>

FailWake(th) ==
    /\ tpc[th] = "wake"
    /\ Wake
    /\ tpc' = [tpc EXCEPT ![th] = "failed"]
    /\ UNCHANGED <<status, result, runner, join, wpc, polling>>

\* fail_live_tasks does not find a task whose cancellation process() has taken:
\* it is no longer tracked, and nothing tells its handle.
FailMissed(th) ==
    /\ tpc[th] = "idle" /\ status = "CancelRequested"
    /\ tpc' = [tpc EXCEPT ![th] = "failed"]
    /\ UNCHANGED <<control, result, runner, join, woken, wpc, polling>>

\* A notification failed: the scheduler is stopping and its runnables are in
\* quarantine until the last lease is released.
Broken == \E th \in Threads : tpc[th] \in {"wake", "failed"}

-----------------------------------------------------------------------------
WorkerStep ==
    \/ PollTake \/ PollStatus \/ SetWaker \/ PollRecheck
    \/ FinishWake \/ ResolveFinished \/ ReadyWake

Over == wpc = "idle" /\ runner = "dropped" /\ (completed \/ handle # "attached")
Terminated == Over /\ UNCHANGED vars

Next ==
    \/ WorkerStep
    \/ \E c \in Contexts : Poll(c)
    \/ Cancel \/ Detach \/ DropHandle
    \/ FinishReady \/ FinishError
    \/ \E th \in Threads : \/ ForeignCancel(th)
                          \/ FailScheduler(th) \/ FailWake(th) \/ FailMissed(th)
    \/ Terminated

Spec == Init /\ [][Next]_vars

\* The worker finishes the routine it is in, a thread the call it is in; the
\* runner of a future that returned is dropped after the poll; the scheduler
\* drops the runner of a cancelled task unless it fails (Scheduler's
\* CancelSettles); a context whose waker was invoked polls again.
Fairness ==
    /\ WF_vars(WorkerStep)
    /\ \A th \in Threads : WF_vars(FailWake(th))
    /\ SF_vars(runner = "done" /\ FinishError)
    /\ SF_vars(status # "Active" /\ ~Broken /\ FinishError)
    /\ \A c \in Contexts : SF_vars(c \in woken /\ Poll(c))

FairSpec == Spec /\ Fairness

-----------------------------------------------------------------------------
\* No wakeup is lost between poll and the end of the task: when the handle
\* waits in context c and the task has ended in any way, c has been woken,
\* or its waker is stored and someone is about to invoke it.  This is what
\* the second status() of LocalTask::poll is for.
NoLostWake ==
    \A c \in Contexts : (waiting = c /\ status \in Errors \cup {"Ready"}) =>
        \/ c \in woken
        \/ /\ waker = c
           /\ \/ wpc \in {"error_wake", "resolve", "ready_wake"}
              \/ \E th \in Threads : tpc[th] = "wake"

\* The answer of the handle is the verdict of the TaskControl: Ok only of a
\* task that became Ready before it was cancelled, and the failure that won
\* when cancellation, a broken scheduler and the end of the task raced.
AnswerIsVerdict ==
    answer # None => status = (IF answer = "Ok" THEN "Ready" ELSE answer)

\* The handle gives one result, however often it is polled: every poll after
\* it answers OutputTaken.
AnswersOnce == answers <= 1

\* The output of a task that became Ready is there for the handle until it
\* is taken: no drop of the runner and no late failure replaces it.
OutputKept ==
    (status = "Ready" /\ wpc \notin {"resolve"} /\ ~completed) => result = "Ok"

\* A handle that waits for a task that ended or was cancelled is answered,
\* unless it is detached or dropped first, or the scheduler fails and misses
\* the task: that handle waits until the last lease is released.
WaitEnds ==
    (waiting # None /\ status # "Active") ~>
        \/ completed \/ handle # "attached"
        \/ Broken /\ status = "CancelRequested"

\* Dropping an attached handle ends the task: its runner is dropped on the
\* worker, whatever other threads do meanwhile, or the scheduler fails, and
\* keeps the runner until the last lease is released.
DropEndsTask == handle = "dropped" ~> runner = "dropped" \/ Broken
=============================================================================
