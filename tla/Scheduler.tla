------------------------------ MODULE Scheduler ------------------------------
(***************************************************************************)
(* The async scheduler of one nginx worker (src/src/async_/spawn/).        *)
(*                                                                         *)
(* One worker thread (the owner) runs the nginx event loop, polls tasks    *)
(* and is the only thread that may poll or destroy a task's future.        *)
(* Foreign threads hold wakers and cancellation handles: they may wake or  *)
(* cancel any task at any moment.                                          *)
(*                                                                         *)
(* The grain of a step is one critical section of Scheduler::inner, one    *)
(* access to an atomic, or one piece of worker-local code between two of   *)
(* them.  What the order of a VecDeque decides is left open (queues are    *)
(* sets: a task has at most one Runnable, see OneRunnable).                *)
(*                                                                         *)
(* The async_task crate is external: a task has a SCHEDULED bit, a CLOSED  *)
(* bit (which here also stands for COMPLETED, both end every later wake)   *)
(* and a RUNNING bit (the task `running`).  A Runnable exists from the     *)
(* moment the SCHEDULED bit is set on an idle task until it is run or      *)
(* dropped.                                                                *)
(***************************************************************************)
EXTENDS Integers, FiniteSets

CONSTANTS
    Tasks,      \* the tasks that may be spawned, each at most once
    Threads,    \* the foreign threads
    NoTask,     \* no task
    MaxLeases   \* bound on the leases held at once

ASSUME TasksAssumption == IsFiniteSet(Tasks) /\ NoTask \notin Tasks
ASSUME LeasesAssumption == MaxLeases \in Nat \ {0}


VARIABLES
    phase, queue, cancellations, quarantined, liveTasks, processing,
                    \* SchedulerInner, guarded by its mutex
    notification,   \* Scheduler::notification is Some(socket)
    pending,        \* Scheduler::notification_pending
    datagrams,      \* datagrams waiting in the private channel
    controls,       \* Scheduler::controls: the tracked TaskControls
    status,         \* TaskControl::status
    posted,         \* the worker's PostedEvent is in nginx's posted queue
    tasks,          \* WorkerScheduler::tasks: handles of registered tasks
    completed,      \* WorkerScheduler::completed
    leases,         \* WorkerScheduler::leases
    scheduled, closed, running,   \* async_task state of every task
    future,         \* the TaskRunner of every task: unborn, live or dropped
    wpc, wmode,     \* where the worker thread is, and in which routine
    wtask,          \* the task the worker is spawning or cancelling
    wret,           \* where the worker returns to after that
    batch,          \* runnables taken by process()
    handles,        \* task handles the worker is dropping
    drops,          \* runnables the worker is dropping
    tpc, ttask      \* where every foreign thread is, and on which task

inner == <<phase, queue, cancellations, quarantined, liveTasks, processing>>
channel == <<notification, pending, datagrams>>
local == <<posted, tasks, completed, leases>>
raw == <<scheduled, closed, running, future>>
worker == <<wpc, wmode, wtask, wret, batch, handles, drops>>
thread == <<tpc, ttask>>
vars == <<inner, channel, controls, status, local, raw, worker, thread>>

Terminal == {"Ready", "Canceled", "SchedulerFailed"}
Statuses == {"None", "Active", "CancelRequested"} \cup Terminal

\* stop_and_drop and the final release_worker_lease; the second pair is the
\* same routine after drain_task_handoffs has seen live_tasks = 0.
StopModes == {"stop", "release", "stop_last", "release_last"}

WorkerPc == {"loop", "clear", "clear_failed", "process", "batch", "poll",
             "reap", "finish", "check", "stop", "stop_drain", "cancel_all",
             "handles", "drops", "handoff", "shutdown", "spawn_register",
             "spawn_schedule", "request_cancel", "close_socket",
             "close_pending"}
ThreadPc == {"idle", "queue", "quarantine", "request_cancel", "swap", "send",
             "clear", "fail", "fail_live"}

TypeOK ==
    /\ phase \in {"Running", "Stopping", "Stopped"}
    /\ queue \subseteq Tasks
    /\ cancellations \subseteq Tasks
    /\ quarantined \subseteq Tasks
    /\ liveTasks \in Int
    /\ processing \in BOOLEAN
    /\ notification \in BOOLEAN
    /\ pending \in BOOLEAN
    /\ datagrams \in Nat
    /\ controls \subseteq Tasks
    /\ status \in [Tasks -> Statuses]
    /\ posted \in BOOLEAN
    /\ tasks \subseteq Tasks
    /\ completed \subseteq Tasks
    /\ leases \in 0..MaxLeases
    /\ scheduled \subseteq Tasks
    /\ closed \subseteq Tasks
    /\ running \in Tasks \cup {NoTask}
    /\ future \in [Tasks -> {"unborn", "live", "dropped"}]
    /\ wpc \in WorkerPc
    /\ wmode \in {"none", "batch", "abort"} \cup StopModes
    /\ wtask \in Tasks \cup {NoTask}
    /\ wret \in {"loop", "poll", "reap", "drops", "handles"}
    /\ batch \subseteq Tasks
    /\ handles \subseteq Tasks
    /\ drops \subseteq Tasks
    /\ tpc \in [Threads -> ThreadPc]
    /\ ttask \in [Threads -> Tasks \cup {NoTask}]

-----------------------------------------------------------------------------
\* acquire_worker has created the scheduler and its first lease.
Init ==
    /\ phase = "Running"
    /\ queue = {} /\ cancellations = {} /\ quarantined = {}
    /\ liveTasks = 0
    /\ processing = FALSE
    /\ notification = TRUE
    /\ pending = FALSE
    /\ datagrams = 0
    /\ controls = {}
    /\ status = [t \in Tasks |-> "None"]
    /\ posted = FALSE
    /\ tasks = {} /\ completed = {}
    /\ leases = 1
    /\ scheduled = {} /\ closed = {}
    /\ running = NoTask
    /\ future = [t \in Tasks |-> "unborn"]
    /\ wpc = "loop" /\ wmode = "none" /\ wtask = NoTask /\ wret = "loop"
    /\ batch = {} /\ handles = {} /\ drops = {}
    /\ tpc = [th \in Threads |-> "idle"]
    /\ ttask = [th \in Threads |-> NoTask]

-----------------------------------------------------------------------------
(***************************************************************************)
(* TaskControl: the status machine.  Each operator gives the status a      *)
(* compare-exchange loop leaves behind.                                    *)
(***************************************************************************)
\* Mutant: a requested cancellation does not decide the verdict.
FinishDesired(s, desired) ==
    IF s \in {"Active", "CancelRequested"} THEN desired ELSE s

Finish(s, desired) ==
    IF s = "Active" THEN desired
    ELSE IF s = "CancelRequested" THEN "Canceled" ELSE s

FailScheduler(s) ==
    IF s \in {"Active", "CancelRequested"} THEN "SchedulerFailed" ELSE s

FailLiveTasks ==
    status' = [t \in Tasks |->
                  IF t \in controls THEN FailScheduler(status[t]) ELSE status[t]]

-----------------------------------------------------------------------------
(***************************************************************************)
(* The end of a future, always on the worker: the runner's destructor      *)
(* settles the status, reports completion and gives up its lifetime.       *)
(***************************************************************************)
DropFuture(t) ==
    /\ future' = [future EXCEPT ![t] = "dropped"]
    /\ closed' = closed \cup {t}
    /\ scheduled' = scheduled \ {t}
    /\ liveTasks' = liveTasks - 1
    /\ status' = [status EXCEPT ![t] = Finish(@, "Canceled")]
    /\ completed' = completed \cup {t}

-----------------------------------------------------------------------------
(***************************************************************************)
(* Code of a module on the worker thread: an event handler, a poll, or the *)
(* destructor of a future.                                                 *)
(***************************************************************************)
UserCode ==
    \/ wpc \in {"loop", "poll", "reap", "drops"}
    \/ wpc = "handles" /\ phase # "Running"

\* Waker::wake on the worker.  A running task is only marked; the runnable of
\* an idle one goes through Scheduler::schedule.
LocalWake(t) ==
    /\ UserCode
    /\ future[t] = "live" /\ t \notin closed /\ t \notin scheduled
    /\ \/ /\ t = running
          /\ scheduled' = scheduled \cup {t}
          /\ UNCHANGED <<queue, posted, future, closed, liveTasks, status,
                         completed>>
       \/ /\ t # running /\ phase = "Running"
          /\ scheduled' = scheduled \cup {t}
          /\ queue' = queue \cup {t}
          /\ posted' = (posted \/ ~processing)
          /\ UNCHANGED <<future, closed, liveTasks, status, completed>>
       \/ /\ t # running /\ phase # "Running"
          /\ DropFuture(t)
          /\ UNCHANGED <<queue, posted>>
    /\ UNCHANGED <<phase, cancellations, quarantined, processing, channel,
                   controls, tasks, leases, running, worker, thread>>

\* task::spawn: current_scheduler() succeeds.
Spawn(t) ==
    /\ UserCode
    /\ phase = "Running" /\ leases > 0
    /\ status[t] = "None" /\ future[t] = "unborn"
    /\ wpc' = "spawn_register" /\ wret' = wpc /\ wtask' = t
    /\ UNCHANGED <<inner, channel, controls, status, local, raw, wmode, batch,
                   handles, drops, thread>>

\* The rest of spawn up to register_task: the task now exists, scheduled.
SpawnRegister ==
    /\ wpc = "spawn_register"
    /\ status' = [status EXCEPT ![wtask] = "Active"]
    /\ future' = [future EXCEPT ![wtask] = "live"]
    /\ liveTasks' = liveTasks + 1
    /\ scheduled' = scheduled \cup {wtask}
    /\ tasks' = tasks \cup {wtask}
    /\ controls' = controls \cup {wtask}
    /\ wpc' = "spawn_schedule"
    /\ UNCHANGED <<phase, queue, cancellations, quarantined, processing,
                   channel, posted, completed, leases, closed, running, wmode,
                   wtask, wret, batch, handles, drops, thread>>

\* schedule_initial; when it is rejected, the runnable is dropped and the
\* handle is taken back out of the worker.
SpawnSchedule ==
    /\ wpc = "spawn_schedule"
    /\ \/ /\ phase = "Running"
          /\ queue' = queue \cup {wtask}
          /\ posted' = (posted \/ ~processing)
          /\ UNCHANGED <<future, closed, scheduled, liveTasks, status,
                         completed, tasks, controls>>
       \/ /\ phase # "Running"
          /\ DropFuture(wtask)
          /\ tasks' = tasks \ {wtask}
          /\ controls' = controls \ {wtask}
          /\ UNCHANGED <<queue, posted>>
    /\ wpc' = wret /\ wret' = "loop" /\ wtask' = NoTask
    /\ UNCHANGED <<phase, cancellations, quarantined, processing, channel,
                   leases, running, wmode, batch, handles, drops, thread>>

\* TaskControl::request_cancel on the worker: the compare-exchange ...
LocalCancel(t) ==
    /\ UserCode
    /\ status[t] = "Active"
    /\ status' = [status EXCEPT ![t] = "CancelRequested"]
    /\ wpc' = "request_cancel" /\ wret' = wpc /\ wtask' = t
    /\ UNCHANGED <<inner, channel, controls, local, raw, wmode, batch,
                   handles, drops, thread>>

\* ... and Scheduler::request_cancel.
LocalRequestCancel ==
    /\ wpc = "request_cancel"
    /\ \/ /\ phase = "Running"
          /\ cancellations' = cancellations \cup {wtask}
          /\ posted' = (posted \/ ~processing)
       \/ /\ phase # "Running"
          /\ UNCHANGED <<cancellations, posted>>
    /\ wpc' = wret /\ wret' = "loop" /\ wtask' = NoTask
    /\ UNCHANGED <<phase, queue, quarantined, liveTasks, processing, channel,
                   controls, status, tasks, completed, leases, raw, wmode,
                   batch, handles, drops, thread>>

-----------------------------------------------------------------------------
(***************************************************************************)
(* The event loop's two ways into the scheduler.                           *)
(***************************************************************************)
\* nginx takes the event off the posted queue and calls
\* posted_scheduler_handler.
DispatchPosted ==
    /\ wpc = "loop" /\ posted
    /\ posted' = FALSE
    /\ wpc' = "process"
    /\ UNCHANGED <<inner, channel, controls, status, tasks, completed, leases,
                   raw, wmode, wtask, wret, batch, handles, drops, thread>>

\* notification_channel_handler up to drain_notification, which fails on an
\* error or on an end of file.
DrainNotification ==
    /\ wpc = "loop" /\ datagrams > 0
    /\ \/ datagrams' = 0 /\ wpc' = "clear"
       \/ datagrams' \in {0, datagrams} /\ wpc' = "clear_failed"
    /\ UNCHANGED <<inner, notification, pending, controls, status, local, raw,
                   wmode, wtask, wret, batch, handles, drops, thread>>

\* Mutant: only the error path resets notification_pending.
ClearPendingOnFailure ==
    /\ wpc \in {"clear", "clear_failed"}
    /\ pending' = (wpc = "clear" /\ pending)
    /\ wpc' = IF wpc = "clear" THEN "process" ELSE "stop"
    /\ UNCHANGED <<inner, notification, datagrams, controls, status, local,
                   raw, wmode, wtask, wret, batch, handles, drops, thread>>

ClearPending ==
    /\ wpc \in {"clear", "clear_failed"}
    /\ pending' = FALSE
    /\ wpc' = IF wpc = "clear" THEN "process" ELSE "stop"
    /\ UNCHANGED <<inner, notification, datagrams, controls, status, local,
                   raw, wmode, wtask, wret, batch, handles, drops, thread>>

-----------------------------------------------------------------------------
(***************************************************************************)
(* Scheduler::process.                                                     *)
(***************************************************************************)
\* The entry: take the queue and the cancellations in one critical section,
\* then take the canceled tasks' handles out of the worker.
Process ==
    /\ wpc = "process"
    /\ \/ /\ phase = "Running" /\ ~processing
          /\ processing' = TRUE
          /\ batch' = queue /\ queue' = {}
          /\ cancellations' = {}
          /\ handles' = tasks \cap cancellations
          /\ tasks' = tasks \ cancellations
          /\ controls' = controls \ (tasks \cap cancellations)
          /\ wpc' = "handles" /\ wmode' = "batch"
       \/ /\ phase # "Running" \/ processing
          /\ wpc' = "check"
          /\ UNCHANGED <<processing, batch, queue, cancellations, handles,
                         tasks, controls, wmode>>
    /\ UNCHANGED <<phase, quarantined, liveTasks, channel, status, posted,
                   completed, leases, raw, wtask, wret, drops, thread>>

\* Dropping a task handle closes the task.  An idle task is scheduled once
\* more, so that its future is dropped by whoever owns its runnable.
DropHandle(t) ==
    /\ wpc = "handles" /\ t \in handles
    /\ handles' = handles \ {t}
    /\ \/ /\ t \in closed \/ t \in scheduled
          /\ closed' = closed \cup {t}
          /\ UNCHANGED <<scheduled, queue, posted, future, liveTasks, status,
                         completed>>
       \/ /\ t \notin closed /\ t \notin scheduled /\ phase = "Running"
          /\ closed' = closed \cup {t}
          /\ scheduled' = scheduled \cup {t}
          /\ queue' = queue \cup {t}
          /\ posted' = (posted \/ ~processing)
          /\ UNCHANGED <<future, liveTasks, status, completed>>
       \/ /\ t \notin closed /\ t \notin scheduled /\ phase # "Running"
          /\ DropFuture(t)
          /\ UNCHANGED <<queue, posted>>
    /\ UNCHANGED <<phase, cancellations, quarantined, processing, channel,
                   controls, tasks, leases, running, wpc, wmode, wtask, wret,
                   batch, drops, thread>>

HandlesDropped ==
    /\ wpc = "handles" /\ handles = {}
    /\ \/ wmode = "batch" /\ wpc' = "batch"
       \/ wmode = "abort" /\ wpc' = "finish"
       \/ wmode \in {"stop", "release"} /\ wpc' = "drops"
    /\ UNCHANGED <<inner, channel, controls, status, local, raw, wmode, wtask,
                   wret, batch, handles, drops, thread>>

\* Runnable::run on a closed task drops the future.
RunClosed(t) ==
    /\ wpc = "batch" /\ t \in batch /\ t \in closed
    /\ DropFuture(t)
    /\ batch' = batch \ {t}
    /\ wpc' = "reap"
    /\ UNCHANGED <<phase, queue, cancellations, quarantined, processing,
                   channel, controls, posted, tasks, leases, running, wmode,
                   wtask, wret, handles, drops, thread>>

\* Runnable::run on an open task polls the future ...
RunPoll(t) ==
    /\ wpc = "batch" /\ t \in batch /\ t \notin closed
    /\ scheduled' = scheduled \ {t}
    /\ running' = t
    /\ batch' = batch \ {t}
    /\ wpc' = "poll"
    /\ UNCHANGED <<inner, channel, controls, status, local, closed, future,
                   wmode, wtask, wret, handles, drops, thread>>

\* ... which is ready: finish_ready, then the future is dropped ...
PollReady ==
    /\ wpc = "poll"
    /\ status' = [status EXCEPT ![running] = Finish(@, "Ready")]
    /\ future' = [future EXCEPT ![running] = "dropped"]
    /\ closed' = closed \cup {running}
    /\ scheduled' = scheduled \ {running}
    /\ liveTasks' = liveTasks - 1
    /\ completed' = completed \cup {running}
    /\ running' = NoTask
    /\ wpc' = "reap"
    /\ UNCHANGED <<phase, queue, cancellations, quarantined, processing,
                   channel, controls, posted, tasks, leases, wmode, wtask,
                   wret, batch, handles, drops, thread>>

\* ... or pending: a task woken during its poll is scheduled again.
PollPending ==
    /\ wpc = "poll"
    /\ running' = NoTask
    /\ wpc' = "reap"
    /\ \/ /\ running \notin scheduled
          /\ UNCHANGED <<queue, posted, future, closed, scheduled, liveTasks,
                         status, completed>>
       \/ /\ running \in scheduled /\ phase = "Running"
          /\ queue' = queue \cup {running}
          /\ posted' = (posted \/ ~processing)
          /\ UNCHANGED <<future, closed, scheduled, liveTasks, status,
                         completed>>
       \/ /\ running \in scheduled /\ phase # "Running"
          /\ DropFuture(running)
          /\ UNCHANGED <<queue, posted>>
    /\ UNCHANGED <<phase, cancellations, quarantined, processing, channel,
                   controls, tasks, leases, wmode, wtask, wret, batch,
                   handles, drops, thread>>

ReapCompletedTasks ==
    /\ tasks' = tasks \ completed
    /\ controls' = controls \ (tasks \cap completed)
    /\ completed' = {}

\* After every run: reap, and give the batch up when the scheduler failed.
Reap ==
    /\ wpc = "reap"
    /\ ReapCompletedTasks
    /\ \/ /\ phase = "Running"
          /\ wpc' = "batch"
          /\ UNCHANGED <<wmode, batch, drops>>
       \/ /\ phase # "Running"
          /\ wpc' = "drops" /\ wmode' = "abort"
          /\ drops' = batch /\ batch' = {}
    /\ UNCHANGED <<inner, channel, status, posted, leases, raw, wtask, wret,
                   handles, thread>>

\* Mutant: cancellations that arrived meanwhile are not reposted.
HasWorkQueued == queue # {}

\* Mutant: runnables that arrived meanwhile are not reposted.
HasWorkCanceled == cancellations # {}

HasWork == queue # {} \/ cancellations # {}

\* The last reap, finish_processing and the repost its answer asks for.
FinishProcessing ==
    /\ wpc = "finish" \/ (wpc = "batch" /\ batch = {})
    /\ ReapCompletedTasks
    /\ processing' = FALSE
    /\ wmode' = "none"
    /\ IF phase = "Running" /\ HasWork
       THEN posted' = TRUE /\ wpc' = "loop"
       ELSE posted' = posted /\ wpc' = "check"
    /\ UNCHANGED <<phase, queue, cancellations, quarantined, liveTasks,
                   channel, status, leases, raw, wtask, wret, batch, handles,
                   drops, thread>>

\* is_stopping_on_current_worker.
Check ==
    /\ wpc = "check"
    /\ wpc' = IF phase = "Stopping" THEN "stop" ELSE "loop"
    /\ UNCHANGED <<inner, channel, controls, status, local, raw, wmode, wtask,
                   wret, batch, handles, drops, thread>>

-----------------------------------------------------------------------------
(***************************************************************************)
(* stop_and_drop and the final release_worker_lease.                       *)
(***************************************************************************)
\* stop_and_drop: fail_live_tasks ...
Stop ==
    /\ wpc = "stop"
    /\ FailLiveTasks
    /\ wpc' = "stop_drain" /\ wmode' = "stop"
    /\ UNCHANGED <<inner, channel, controls, local, raw, wtask, wret, batch,
                   handles, drops, thread>>

DrainForShutdown ==
    /\ phase' = IF phase = "Running" THEN "Stopping" ELSE phase
    /\ cancellations' = {}
    /\ drops' = queue \cup quarantined
    /\ queue' = {} /\ quarantined' = {}

\* ... and drain_for_shutdown.
StopDrain ==
    /\ wpc = "stop_drain"
    /\ DrainForShutdown
    /\ wpc' = "cancel_all"
    /\ UNCHANGED <<liveTasks, processing, channel, controls, status, local,
                   raw, wmode, wtask, wret, batch, handles, thread>>

\* acquire_worker on a worker whose scheduler is running.
AcquireLease ==
    /\ wpc = "loop" /\ phase = "Running" /\ leases \in 1..(MaxLeases - 1)
    /\ leases' = leases + 1
    /\ UNCHANGED <<inner, channel, controls, status, posted, tasks, completed,
                   raw, worker, thread>>

\* release_worker_lease outside process(); the last one starts the shutdown.
ReleaseLease ==
    /\ wpc = "loop" /\ leases > 0
    /\ leases' = leases - 1
    /\ \/ /\ leases > 1
          /\ UNCHANGED <<phase, cancellations, queue, quarantined, drops, wpc,
                         wmode>>
       \/ /\ leases = 1
          /\ DrainForShutdown
          /\ wpc' = "close_socket" /\ wmode' = "release"
    /\ UNCHANGED <<liveTasks, processing, channel, controls, status, posted,
                   tasks, completed, raw, wtask, wret, batch, handles, thread>>

\* The notification mutex is free: no thread is between a failed send and
\* its reset of notification_pending.
NotificationUnlocked == \A th \in Threads : tpc[th] # "clear"

\* WorkerScheduler::shutdown: the posted event is withdrawn, the sender taken ...
CloseSocket ==
    /\ wpc = "close_socket"
    /\ NotificationUnlocked
    /\ posted' = FALSE
    /\ notification' = FALSE
    /\ wpc' = "close_pending"
    /\ UNCHANGED <<inner, pending, datagrams, controls, status, tasks,
                   completed, leases, raw, wmode, wtask, wret, batch, handles,
                   drops, thread>>

\* ... and both ends of the channel closed.
ClosePending ==
    /\ wpc = "close_pending"
    /\ pending' = FALSE
    /\ datagrams' = 0
    /\ wpc' = "cancel_all"
    /\ UNCHANGED <<inner, notification, controls, status, local, raw, wmode,
                   wtask, wret, batch, handles, drops, thread>>

\* cancel_all_registered_tasks, up to the drop of the handles.
CancelAll ==
    /\ wpc = "cancel_all"
    /\ handles' = tasks /\ tasks' = {} /\ completed' = {}
    /\ status' = [t \in Tasks |->
                     IF t \in tasks THEN Finish(status[t], "Canceled")
                                    ELSE status[t]]
    /\ controls' = controls \ tasks
    /\ wpc' = "handles"
    /\ UNCHANGED <<inner, channel, posted, leases, raw, wmode, wtask, wret,
                   batch, drops, thread>>

\* Runnable::drop closes the task and drops its future.
DropRunnable(t) ==
    /\ wpc = "drops" /\ t \in drops
    /\ DropFuture(t)
    /\ drops' = drops \ {t}
    /\ UNCHANGED <<phase, queue, cancellations, quarantined, processing,
                   channel, controls, posted, tasks, leases, running, wpc,
                   wmode, wtask, wret, batch, handles, thread>>

RunnablesDropped ==
    /\ wpc = "drops" /\ drops = {}
    /\ \/ wmode = "abort" /\ wpc' = "cancel_all"
       \/ wmode \in {"stop", "release"} /\ wpc' = "handoff"
       \/ wmode \in {"stop_last", "release_last"} /\ wpc' = "shutdown"
    /\ UNCHANGED <<inner, channel, controls, status, local, raw, wmode, wtask,
                   wret, batch, handles, drops, thread>>

\* Mutant: shutdown does not wait for live tasks.
DrainTaskHandoffsOnce ==
    /\ wpc = "handoff"
    /\ drops' = queue \cup quarantined
    /\ queue' = {} /\ quarantined' = {}
    /\ wpc' = "drops"
    /\ \/ wmode = "stop" /\ wmode' = "stop_last"
       \/ wmode = "release" /\ wmode' = "release_last"
    /\ UNCHANGED <<phase, cancellations, liveTasks, processing, channel,
                   controls, status, local, raw, wtask, wret, batch, handles,
                   thread>>

\* Mutant: the round that finds no live task is not the last one.
DrainTaskHandoffsAgain ==
    /\ wpc = "handoff"
    /\ liveTasks = 0 \/ queue # {} \/ quarantined # {}
    /\ drops' = queue \cup quarantined
    /\ queue' = {} /\ quarantined' = {}
    /\ wpc' = "drops"
    /\ UNCHANGED <<phase, cancellations, liveTasks, processing, channel,
                   controls, status, local, raw, wmode, wtask, wret, batch,
                   handles, thread>>

\* One round of drain_task_handoffs; the guard is its condvar wait.
DrainTaskHandoffs ==
    /\ wpc = "handoff"
    /\ liveTasks = 0 \/ queue # {} \/ quarantined # {}
    /\ drops' = queue \cup quarantined
    /\ queue' = {} /\ quarantined' = {}
    /\ wpc' = "drops"
    /\ \/ liveTasks # 0 /\ wmode' = wmode
       \/ liveTasks = 0 /\ wmode = "stop" /\ wmode' = "stop_last"
       \/ liveTasks = 0 /\ wmode = "release" /\ wmode' = "release_last"
    /\ UNCHANGED <<phase, cancellations, liveTasks, processing, channel,
                   controls, status, local, raw, wtask, wret, batch, handles,
                   thread>>

\* The end: finish_shutdown (of a release) and the last reap.
FinishShutdown ==
    /\ wpc = "shutdown"
    /\ phase' = IF wmode = "release_last" /\ phase = "Stopping"
                THEN "Stopped" ELSE phase
    /\ ReapCompletedTasks
    /\ wpc' = "loop" /\ wmode' = "none"
    /\ UNCHANGED <<queue, cancellations, quarantined, liveTasks, processing,
                   channel, status, posted, leases, raw, wtask, wret, batch,
                   handles, drops, thread>>

-----------------------------------------------------------------------------
(***************************************************************************)
(* A foreign thread.                                                       *)
(***************************************************************************)
Goto(th, pc, t) ==
    /\ tpc' = [tpc EXCEPT ![th] = pc]
    /\ ttask' = [ttask EXCEPT ![th] = t]

\* Waker::wake: the thread that sets the bit of an idle task owns a runnable.
ForeignWake(th, t) ==
    /\ tpc[th] = "idle"
    /\ future[t] = "live" /\ t \notin closed /\ t \notin scheduled
    /\ scheduled' = scheduled \cup {t}
    /\ IF t = running THEN UNCHANGED thread ELSE Goto(th, "queue", t)
    /\ UNCHANGED <<inner, channel, controls, status, local, closed, running,
                   future, worker>>

\* Scheduler::queue.
ForeignQueue(th) ==
    /\ tpc[th] = "queue"
    /\ \/ /\ phase = "Running"
          /\ queue' = queue \cup {ttask[th]}
          /\ Goto(th, IF processing THEN "idle" ELSE "swap", NoTask)
       \/ /\ phase # "Running"
          /\ queue' = queue
          /\ Goto(th, "quarantine", ttask[th])
    /\ UNCHANGED <<phase, cancellations, quarantined, liveTasks, processing,
                   channel, controls, status, local, raw, worker>>

Quarantine(th) ==
    /\ tpc[th] = "quarantine"
    /\ quarantined' = quarantined \cup {ttask[th]}
    /\ Goto(th, "idle", NoTask)
    /\ UNCHANGED <<phase, queue, cancellations, liveTasks, processing, channel,
                   controls, status, local, raw, worker>>

\* CancellationHandle::cancel, once spawn has returned the task: the
\* compare-exchange ...
ForeignCancel(th, t) ==
    /\ tpc[th] = "idle"
    /\ status[t] = "Active" /\ t # wtask
    /\ status' = [status EXCEPT ![t] = "CancelRequested"]
    /\ Goto(th, "request_cancel", t)
    /\ UNCHANGED <<inner, channel, controls, local, raw, worker>>

\* ... and Scheduler::request_cancel.
ForeignRequestCancel(th) ==
    /\ tpc[th] = "request_cancel"
    /\ \/ /\ phase = "Running"
          /\ cancellations' = cancellations \cup {ttask[th]}
          /\ Goto(th, IF processing THEN "idle" ELSE "swap", NoTask)
       \/ /\ phase # "Running"
          /\ cancellations' = cancellations
          /\ Goto(th, "idle", NoTask)
    /\ UNCHANGED <<phase, queue, quarantined, liveTasks, processing, channel,
                   controls, status, local, raw, worker>>

\* notify_worker: the swap of notification_pending ...
NotifySwap(th) ==
    /\ tpc[th] = "swap"
    /\ pending' = TRUE
    /\ Goto(th, IF pending THEN "idle" ELSE "send", NoTask)
    /\ UNCHANGED <<inner, notification, datagrams, controls, status, local,
                   raw, worker>>

\* ... the send under the notification mutex (a full channel counts as
\* sent), which may fail ...
NotifySend(th) ==
    /\ tpc[th] = "send"
    /\ NotificationUnlocked
    /\ \/ /\ notification
          /\ \/ datagrams' = datagrams + 1
             \/ datagrams > 0 /\ datagrams' = datagrams
          /\ Goto(th, "idle", NoTask)
       \/ /\ datagrams' = datagrams
          /\ Goto(th, "clear", NoTask)
    /\ UNCHANGED <<inner, notification, pending, controls, status, local, raw,
                   worker>>

\* ... and then resets the flag.
NotifyClear(th) ==
    /\ tpc[th] = "clear"
    /\ pending' = FALSE
    /\ Goto(th, "fail", NoTask)
    /\ UNCHANGED <<inner, notification, datagrams, controls, status, local,
                   raw, worker>>

\* fail_from_foreign_thread: the critical section ...
FailFromForeignThread(th) ==
    /\ tpc[th] = "fail"
    /\ phase' = IF phase = "Running" THEN "Stopping" ELSE phase
    /\ quarantined' = quarantined \cup queue
    /\ queue' = {}
    /\ Goto(th, "fail_live", NoTask)
    /\ UNCHANGED <<cancellations, liveTasks, processing, channel, controls,
                   status, local, raw, worker>>

\* ... and fail_live_tasks.
ForeignFailLive(th) ==
    /\ tpc[th] = "fail_live"
    /\ FailLiveTasks
    /\ Goto(th, "idle", NoTask)
    /\ UNCHANGED <<inner, channel, controls, local, raw, worker>>

-----------------------------------------------------------------------------
WorkerStep ==
    \/ SpawnRegister \/ SpawnSchedule \/ LocalRequestCancel
    \/ ClearPending
    \/ Process \/ HandlesDropped \/ PollReady \/ PollPending \/ Reap
    \/ FinishProcessing \/ Check
    \/ Stop \/ StopDrain \/ CloseSocket \/ ClosePending \/ CancelAll
    \/ RunnablesDropped \/ DrainTaskHandoffs \/ FinishShutdown
    \/ \E t \in Tasks :
          DropHandle(t) \/ RunClosed(t) \/ RunPoll(t) \/ DropRunnable(t)

WorkerCall ==
    \/ AcquireLease \/ ReleaseLease
    \/ \E t \in Tasks : LocalWake(t) \/ Spawn(t) \/ LocalCancel(t)

ThreadStep(th) ==
    \/ ForeignQueue(th) \/ Quarantine(th) \/ ForeignRequestCancel(th)
    \/ NotifySwap(th) \/ NotifySend(th) \/ NotifyClear(th)
    \/ FailFromForeignThread(th) \/ ForeignFailLive(th)

ThreadCall(th) == \E t \in Tasks : ForeignWake(th, t) \/ ForeignCancel(th, t)

\* The scheduler is shut down and nobody is inside it.
Terminated ==
    /\ phase = "Stopped" /\ wpc = "loop"
    /\ \A th \in Threads : tpc[th] = "idle"
    /\ UNCHANGED vars

Next ==
    \/ WorkerStep \/ WorkerCall \/ DispatchPosted \/ DrainNotification
    \/ \E th \in Threads : ThreadStep(th) \/ ThreadCall(th)
    \/ Terminated

Spec == Init /\ [][Next]_vars

(***************************************************************************)
(* Fairness: a thread inside the scheduler keeps running (polls and        *)
(* destructors return), and the event loop serves both its posted queue    *)
(* and its readable connections in every iteration.                        *)
(***************************************************************************)
Fairness ==
    /\ WF_vars(WorkerStep)
    /\ SF_vars(DispatchPosted)
    /\ SF_vars(DrainNotification)
    /\ \A th \in Threads : WF_vars(ThreadStep(th))

FairSpec == Spec /\ Fairness

-----------------------------------------------------------------------------
(***************************************************************************)
(* Safety.                                                                 *)
(***************************************************************************)
\* The worker is between taking a datagram or a posted event and process(),
\* or on its way into stop_and_drop.
WorkerWillLook ==
    wpc \in {"clear", "clear_failed", "process", "stop", "stop_drain"}

\* No wakeup is lost.  While the scheduler runs and nobody is inside
\* process(), queued runnables and cancellations have an announcement under
\* way: the posted event, an unread datagram, a foreign thread that is still
\* in notify_worker or about to fail the scheduler, or the worker itself.
WorkIsAnnounced ==
    phase = "Running" /\ ~processing /\ (queue # {} \/ cancellations # {})
        => \/ posted
           \/ datagrams > 0
           \/ WorkerWillLook
           \/ \E th \in Threads : tpc[th] \in {"swap", "send", "clear", "fail"}

\* Where a runnable can be: in the worker's hand while it spawns, or in the
\* hand of a foreign thread on its way to queue() or quarantine().
Spawning == IF wpc = "spawn_schedule" THEN {wtask} ELSE {}
Carriers == {th \in Threads : tpc[th] \in {"queue", "quarantine"}}
Carried == {ttask[th] : th \in Carriers}
Runnables == queue \cup quarantined \cup batch \cup drops \cup Spawning \cup Carried

Live == {t \in Tasks : future[t] = "live"}

\* A task has a runnable exactly while its SCHEDULED bit is set outside its own
\* poll, and that runnable is in one place only.
OneRunnable ==
    /\ scheduled \ {running} = Runnables
    /\ queue \cap quarantined = {}
    /\ batch \cap drops = {}
    /\ Spawning \cap (batch \cup drops) = {}
    /\ (queue \cup quarantined) \cap (batch \cup drops \cup Spawning) = {}
    /\ Carried \cap (queue \cup quarantined \cup batch \cup drops \cup Spawning) = {}
    /\ \A th1, th2 \in Carriers : ttask[th1] = ttask[th2] => th1 = th2

\* live_tasks counts the futures that exist, so release_task_lifetime never
\* underflows and zero means that none is left.
LiveTasksExact == liveTasks = Cardinality(Live)

\* drain_task_handoffs cannot wait forever: while it waits, some foreign
\* thread still carries a runnable that it will put into quarantine.
HandoffsArrive ==
    wpc = "handoff" /\ liveTasks # 0 /\ queue = {} /\ quarantined = {}
        => Carriers # {}

\* After shutdown no future is left for another thread to drop with the
\* scheduler, neither queued, nor quarantined, nor in a foreign hand, and
\* every task that was ever spawned has its verdict.
StoppedIsEmpty ==
    phase = "Stopped" =>
        /\ Live = {} /\ Runnables = {} /\ tasks = {} /\ controls = {}
        /\ \A t \in Tasks : status[t] \in Terminal \cup {"None"}

\* A task that finished keeps its verdict: a terminal status never changes,
\* and a task whose cancellation was requested never becomes ready.
VerdictStep ==
    \A t \in Tasks :
        /\ status[t] \in Terminal => status'[t] = status[t]
        /\ status[t] = "CancelRequested" => status'[t] # "Ready"

VerdictIsFinal == [][VerdictStep]_vars

(***************************************************************************)
(* Why those hold: the ownership of futures, the inductive invariant behind *)
(* them.                                                                   *)
(***************************************************************************)
\* The worker's place in its routines; a call of a module into spawn or cancel
\* returns to wret.
CallPc == {"spawn_register", "spawn_schedule", "request_cancel"}
At == IF wpc \in CallPc THEN wret ELSE wpc

\* What the state of a future says about its task.  A closed task is never
\* idle, and an open one has a handle that will be dropped.
FutureInv ==
    \A t \in Tasks :
        /\ t \in completed => t \in closed
        /\ future[t] = "unborn" =>
              /\ status[t] = "None"
              /\ t \notin scheduled /\ t \notin closed
              /\ t \notin tasks /\ t \notin handles
        /\ future[t] = "live" =>
              /\ status[t] # "None"
              /\ IF t \in closed THEN t \in scheduled
                                 ELSE t \in tasks \/ t \in handles
        /\ future[t] = "dropped" =>
              /\ status[t] \in Terminal
              /\ t \in closed /\ t \notin scheduled

\* What the worker has in hand at each place.
ControlInv ==
    /\ controls = tasks
    /\ IF At = "poll" THEN running \in Live \ closed ELSE running = NoTask
    /\ wpc = "spawn_register" => future[wtask] = "unborn"
    /\ wpc \in {"spawn_register", "spawn_schedule"} =>
          phase # "Stopped" /\ wret \in {"loop", "poll", "reap"}
    /\ At # "handles" => handles = {}
    /\ batch # {} => At \in {"handles", "batch", "poll", "reap"} /\ wmode = "batch"
    /\ drops # {} => At \in {"close_socket", "close_pending", "cancel_all",
                             "handles", "drops"}
    /\ At \in {"batch", "poll", "reap"} => wmode = "batch"
    /\ At = "handles" => wmode \in {"batch", "abort", "stop", "release"}
    /\ At = "handles" /\ wmode \in {"batch", "abort"} => drops = {}
    /\ At = "cancel_all" =>
          (wmode = "abort" /\ drops = {}) \/ wmode \in {"stop", "release"}
    /\ At \in {"stop_drain", "close_socket", "close_pending"} => wmode \in {"stop", "release"}
    /\ At = "drops" => wmode \in {"abort"} \cup StopModes
    /\ At = "handoff" => wmode \in {"stop", "release"}
    /\ At = "shutdown" => wmode \in {"stop_last", "release_last"}

\* stop_and_drop and release leave no registered task behind them, and they
\* end only when no future is left.
StopInv ==
    /\ At \in {"close_socket", "close_pending", "cancel_all", "drops",
               "handoff", "shutdown"} => phase # "Running"
    /\ At = "handles" /\ wmode # "batch" => phase # "Running"
    /\ At \in {"handles", "drops", "handoff", "shutdown"} /\ wmode \in StopModes
          => tasks = {}
    /\ wmode \in {"stop_last", "release_last"} => At \in {"drops", "shutdown"} /\ Live = {}
    /\ phase = "Stopped" => Live = {} /\ tasks = {}

OwnershipInv ==
    OneRunnable /\ LiveTasksExact /\ FutureInv /\ ControlInv /\ StopInv

(***************************************************************************)
(* Liveness.                                                               *)
(***************************************************************************)
\* A woken task is run (or its future dropped), or the scheduler stops.
WokenTaskRuns ==
    \A t \in Tasks :
        t \in scheduled /\ phase = "Running"
            ~> t \notin scheduled \/ phase # "Running"

\* A cancellation request is answered by a verdict, unless the scheduler
\* stops first (then the release of the last lease answers it).
CancelSettles ==
    \A t \in Tasks :
        status[t] = "CancelRequested"
            ~> status[t] \in Terminal \/ phase = "Stopping"

\* What the tests notification_failure_is_a_task_terminal_state and
\* scheduler_failure_wakes_an_awaiting_local_task say of a failed
\* notification: every task that was still going gets a verdict, without
\* waiting for the leases to be released.
FailureIsTerminal ==
    \A t \in Tasks :
        phase = "Stopping" /\ status[t] \in {"Active", "CancelRequested"}
            ~> status[t] \in Terminal

\* The release of the last lease ends in a stopped scheduler.
ReleaseFinishes == leases = 0 ~> phase = "Stopped"
=============================================================================
