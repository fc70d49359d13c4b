------------------------------- MODULE MCTasks -------------------------------
(***************************************************************************)
(* Tasks of the scheduler and what they wait for: the leases that keep the *)
(* scheduler (WorkerLease), another task (LocalTask), a name (Resolver), a *)
(* time (Sleep), a subrequest (Subrequest), and the request whose handler  *)
(* the task is (AsyncRequest).  A behaviour is one of the component        *)
(* `part'; the others stay in an initial state.                            *)
(***************************************************************************)
EXTENDS WorkerLease

VARIABLES part,
    status, waker, result, runner, handle, completed, waiting, woken, answers, answer, wpc, polling, tpc,
    rPool, res,
    duration, remaining, armed, timerSet, key, timedout, cancelable, tWaker, tWoken, tPolling, done, now, origin,
    base, aPool, aCount, aPhase, posted, aSlot, run, batch,
    sPool, stage, cell, calls, drops, runs, future, owner, moves, output, sWaker, canceled, ready, sResult, body

Task == INSTANCE LocalTask WITH
    Contexts <- {"c1", "c2"}, Threads <- {"t1", "t2"}, None <- "none"

ASSUME TaskAssumed == Task!TaskAssumption

Name == INSTANCE Resolver WITH Names <- {"n1", "n2"}, pool <- rPool

\* Durations below three seconds of 3 ms; a clock of 8 ms that wraps; a loop
\* that is late by up to 1 ms.
Time == INSTANCE Sleep WITH
    Wakers <- {"w1", "w2"}, NoWaker <- "none", HalfRange <- 4, NanosPerMs <- 2,
    MsPerSec <- 3, MaxSecs <- 2, MaxLate <- 1,
    waker <- tWaker, woken <- tWoken, polling <- tPolling

ASSUME SleepAssumed == Time!SleepAssumption

Async == INSTANCE AsyncRequest WITH
    Requests <- {"main", "sub"}, MaxRuns <- 2, MaxCount <- 3, TasksTerminate <- FALSE,
    pool <- aPool, count <- aCount, phase <- aPhase, slot <- aSlot

ASSUME AsyncAssumed == Async!AsyncAssumption

Sub == INSTANCE Subrequest WITH
    Subs <- {"s1", "s2"}, Tasks <- {"t1", "t2"}, MaxFinalize <- 2, MaxMoves <- 1,
    pool <- sPool, waker <- sWaker, result <- sResult

ASSUME SubAssumed == Sub!SubAssumption

taskVars == <<status, waker, result, runner, handle, completed, waiting, woken, answers,
              answer, wpc, polling, tpc>>
nameVars == <<rPool, res>>
timeVars == <<duration, remaining, armed, timerSet, key, timedout, cancelable,
              tWaker, tWoken, tPolling, done, now, origin>>
asyncVars == <<base, aPool, aCount, aPhase, posted, aSlot, run, batch>>
subVars == <<sPool, stage, cell, calls, drops, runs, future, owner, moves, output,
             sWaker, canceled, ready, sResult, body>>

TasksInit ==
    /\ part \in {"lease", "task", "name", "time", "async", "sub"}
    /\ Init /\ Task!Init /\ Name!Init /\ Time!Init /\ Async!Init /\ Sub!Init
    /\ part # "time" => duration = [secs |-> 0, nanos |-> 0] /\ origin = 0
    /\ part # "async" => base = 1
    /\ part # "sub" => owner = [s \in {"s1", "s2"} |-> "t1"]

\* The worker may stop when no lease is held and nothing is under way.
LeasesIdle ==
    /\ \A l \in Leases : lease[l].state # "held"
    /\ \A th \in Threads : ~processing[th] /\ releasing[th] = NotReleasing
    /\ UNCHANGED vars

TasksNext ==
    /\ UNCHANGED part
    /\ \/ /\ part = "lease" /\ (Next \/ LeasesIdle)
          /\ UNCHANGED <<taskVars, nameVars, timeVars, asyncVars, subVars>>
       \/ part = "task"  /\ Task!Next  /\ UNCHANGED <<vars, nameVars, timeVars, asyncVars, subVars>>
       \/ part = "name"  /\ Name!Next  /\ UNCHANGED <<vars, taskVars, timeVars, asyncVars, subVars>>
       \/ part = "time"  /\ Time!Next  /\ UNCHANGED <<vars, taskVars, nameVars, asyncVars, subVars>>
       \/ part = "async" /\ Async!Next /\ UNCHANGED <<vars, taskVars, nameVars, timeVars, subVars>>
       \/ part = "sub"   /\ Sub!Next   /\ UNCHANGED <<vars, taskVars, nameVars, timeVars, asyncVars>>

\* The fairness of Resolver and of Subrequest; of WorkerLease, LocalTask, Sleep and
\* AsyncRequest no fair action is enabled in the initial state: their formulas do.
NameFairness ==
    \A n \in {"n1", "n2"} :
        /\ WF_nameVars(part = "name" /\ Name!Poll(n))
        /\ WF_nameVars(part = "name" /\ \E x \in Name!Results : Name!Handler(n, x))

SubFairness ==
    /\ WF_subVars(part = "sub" /\ Sub!DestroyPool)
    /\ \A t \in {"t1", "t2"} : WF_subVars(part = "sub" /\ Sub!Poll(t))
    /\ \A s \in {"s1", "s2"} : WF_subVars(part = "sub" /\ Sub!FinishHandler(s))

TasksSpec ==
    /\ TasksInit
    /\ [][TasksNext]_<<part, vars, taskVars, nameVars, timeVars, asyncVars, subVars>>
    /\ \A th \in Threads : WF_vars(ReleaseStep(th))
    /\ Task!Fairness /\ NameFairness /\ Time!Fairness /\ Async!Fairness /\ SubFairness

\* A waiter whose task has ended is woken, or its poll is on the way to seeing it
\* (TaskControl::wake, LocalTask::poll).
NoLostWake == part = "task" => Task!NoLostWake

\* A waiter is answered when its task ends, and a task whose handle is dropped
\* ends, unless a notification of its scheduler failed before it was told
\* (LocalTask::poll, LocalTask::drop).
TaskEnds == Task!WaitEnds /\ Task!DropEndsTask

\* Each resolver context goes back to nginx once, what nginx may still call or read
\* exists, and a future that has its answer was woken (ResolutionOwner); every
\* resolution that is still awaited ends.
ResolutionsExact ==
    /\ [](part = "name" => Name!ResolutionsSafe)
    /\ Name!ResolutionEnds

\* A sleep lasts as long as it was asked to, over any number of timer steps, and
\* ends whichever task polled it last (Sleep::poll, sleep_timer_callback).
SleepsExact ==
    /\ [](part = "time" => Time!SleepsSafe)
    /\ Time!SleepEnds

\* The event and the reference of an asynchronous handler end with its context, a
\* future that is polled after it delivers nothing, the output of a run is on the
\* way until then, and a run whose task is not lost finishes (AsyncHandlerContext).
HandlersExact ==
    /\ [](part = "async" => Async!HandlersSafe)
    /\ Async!RunEnds

\* The completion handler of a subrequest is consumed once, its value is the
\* future's, and a future that is answered was woken (run_handler); nothing runs
\* for a dropped future, and every other future is answered.
SubrequestsExact ==
    /\ [](part = "sub" => Sub!SubrequestsSafe)
    /\ [][part = "sub" => Sub!NoWorkForTheDropped]_subVars
    /\ Sub!FutureAnswered
=============================================================================
