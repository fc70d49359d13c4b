------------------------- MODULE SchedulerOwnership -------------------------
(***************************************************************************)
(* The ownership of futures for any finite set of tasks and any set of     *)
(* threads, and what follows from it: the wait for handoffs ends, a        *)
(* stopped scheduler is empty, verdicts are final.                         *)
(***************************************************************************)
EXTENDS SchedulerProofs, FiniteSetTheorems

USE DEF inner, channel, local, raw, worker, thread

\* There are finitely many live futures.
LEMMA LiveFinite == TypeInv => IsFiniteSet(Live) /\ Cardinality(Live) \in Nat
  <1> HAVE TypeInv
  <1>1. Live \in SUBSET Tasks
    BY DEF Live
  <1>2. IsFiniteSet(Live)
    BY <1>1, TasksAssumption, FS_Subset
  <1> QED
    BY <1>2, FS_CardinalityType

\* live_tasks = 0 means that no future is left, as the comment on
\* SchedulerInner::live_tasks says.
LEMMA NoneLive == OwnInv => (liveTasks = 0 <=> Live = {})
BY LiveFinite, FS_EmptySet DEF OwnInv, OwnershipInv, LiveTasksExact

\* StopInv is about these variables.
LEMMA StopStays ==
    ASSUME OwnInv,
           UNCHANGED <<phase, future, tasks, wpc, wmode, wret>>
    PROVE  StopInv'
BY DEF OwnInv, OwnershipInv, StopInv, At, Live

\* Every action keeps StopInv: shutdown empties the registry first, and passes
\* drain_task_handoffs only when no future is left.
LEMMA StopStep == OwnInv /\ [Next]_vars => StopInv'
<1> SUFFICES ASSUME OwnInv, [Next]_vars PROVE StopInv'
  OBVIOUS
<1>1. /\ StopInv /\ ControlInv
      /\ wret \in {"loop", "poll", "reap", "drops", "handles"}
      /\ future \in [Tasks -> {"unborn", "live", "dropped"}]
  BY DEF OwnInv, OwnershipInv, TypeInv, TypeOK
<1> USE <1>1 DEF CallPc, At, ControlInv, StopInv, Live, StopModes
<1>2. CASE \/ SpawnRegister \/ SpawnSchedule \/ LocalRequestCancel
  BY <1>2
  DEF SpawnRegister, SpawnSchedule, LocalRequestCancel, DropFuture, Finish
<1>3. CASE \/ ClearPending \/ Process \/ HandlesDropped
  BY <1>3 DEF ClearPending, Process, HandlesDropped
<1>4. CASE \/ PollReady \/ PollPending
  BY <1>4 DEF PollReady, PollPending, Finish, DropFuture
<1>5. CASE \/ Reap \/ FinishProcessing \/ Check
  BY <1>5 DEF Reap, FinishProcessing, Check, ReapCompletedTasks
<1>6. CASE \/ Stop \/ StopDrain
  BY <1>6 DEF Stop, StopDrain, FailLiveTasks, FailScheduler, DrainForShutdown
<1>7. CASE \/ CloseSocket \/ ClosePending \/ CancelAll
  BY <1>7 DEF CloseSocket, ClosePending, CancelAll, Finish
<1>8. CASE RunnablesDropped
  BY <1>8 DEF RunnablesDropped
<1>9. CASE DrainTaskHandoffs
  <2>1. CASE liveTasks # 0
    BY <1>9, <2>1 DEF DrainTaskHandoffs
  <2>2. CASE liveTasks = 0
    <3>1. Live = {}
      BY <2>2, NoneLive
    <3> QED
      BY <1>9, <2>2, <3>1 DEF DrainTaskHandoffs
  <2> QED
    BY <2>1, <2>2
<1>10. CASE FinishShutdown
  BY <1>10 DEF FinishShutdown, ReapCompletedTasks
<1>11. CASE \/ ReleaseLease \/ DispatchPosted \/ DrainNotification
  BY <1>11
  DEF ReleaseLease, DispatchPosted, DrainNotification, DrainForShutdown
<1>12. ASSUME NEW t \in Tasks,
              \/ DropHandle(t) \/ RunClosed(t)
       PROVE  StopInv'
  BY <1>12 DEF DropHandle, RunClosed, DropFuture, Finish
<1>13. ASSUME NEW t \in Tasks,
              \/ RunPoll(t) \/ DropRunnable(t)
       PROVE  StopInv'
  BY <1>13 DEF RunPoll, DropRunnable, DropFuture, Finish
<1>14. ASSUME NEW t \in Tasks,
              \/ LocalWake(t) \/ Spawn(t) \/ LocalCancel(t)
       PROVE  StopInv'
  BY <1>14 DEF LocalWake, Spawn, LocalCancel, DropFuture, Finish, UserCode
<1>15. ASSUME NEW th \in Threads, FailFromForeignThread(th) PROVE StopInv'
  BY <1>15 DEF FailFromForeignThread, Goto
<1> HIDE <1>1 DEF CallPc, At, ControlInv, StopInv, Live, StopModes
<1>16. CASE AcquireLease
  BY ZenonT(30), StopStays, <1>16 DEF AcquireLease
<1>17. ASSUME NEW th \in Threads,
              \/ ForeignQueue(th) \/ Quarantine(th)
              \/ ForeignRequestCancel(th) \/ NotifySwap(th) \/ NotifySend(th)
              \/ NotifyClear(th) \/ ForeignFailLive(th)
       PROVE  StopInv'
  BY ZenonT(30), StopStays, <1>17
  DEF ForeignQueue, Quarantine, ForeignRequestCancel, NotifySwap, NotifySend,
      NotifyClear, ForeignFailLive
<1>18. ASSUME NEW th \in Threads, NEW t \in Tasks,
              \/ ForeignWake(th, t) \/ ForeignCancel(th, t)
       PROVE  StopInv'
  BY ZenonT(30), StopStays, <1>18 DEF ForeignWake, ForeignCancel
<1>19. CASE UNCHANGED vars
  BY ZenonT(30), StopStays, <1>19 DEF vars
<1> QED
  BY <1>2, <1>3, <1>4, <1>5, <1>6, <1>7, <1>8, <1>9, <1>10, <1>11, <1>12,
     <1>13, <1>14, <1>15, <1>16, <1>17, <1>18, <1>19
  DEF Next, WorkerStep, WorkerCall, ThreadStep, ThreadCall, Terminated

\* OneRunnable is about these variables, and about a spawn in progress.
LEMMA RunnableStays ==
    ASSUME OwnInv,
           UNCHANGED <<scheduled, running, queue, quarantined, batch, drops,
                       tpc, ttask>>,
           Spawning' = Spawning
    PROVE  OneRunnable'
BY DEF OwnInv, OwnershipInv, OneRunnable, Runnables, Spawning, Carriers, Carried

\* Each step of the worker moves a runnable, or makes or ends one, and never
\* copies or loses it; what foreign threads carry stays as it is.
LEMMA WorkerRunnables ==
    ASSUME OwnInv, UNCHANGED <<tpc, ttask>>,
           \/ SpawnRegister \/ SpawnSchedule \/ Process \/ PollReady
           \/ PollPending \/ Reap \/ StopDrain \/ DrainTaskHandoffs
           \/ ReleaseLease
           \/ \E t \in Tasks : \/ DropHandle(t) \/ RunClosed(t) \/ RunPoll(t)
                               \/ DropRunnable(t) \/ LocalWake(t)
    PROVE  OneRunnable'
<1>1. Carried' = Carried /\ Carriers' = Carriers
  BY DEF Carried, Carriers
<1>2. OneRunnable /\ NoTask \notin scheduled
  BY TasksAssumption DEF OwnInv, OwnershipInv, TypeInv, TypeOK
<1>3. /\ At # "poll" => running = NoTask
      /\ At \notin {"handles", "batch", "poll", "reap"} => batch = {}
      /\ At \in {"loop", "reap", "stop_drain", "handoff"} => drops = {}
  BY DEF OwnInv, OwnershipInv, ControlInv
<1>4. wret # "spawn_schedule"
  BY DEF OwnInv, TypeInv, TypeOK
<1>5. wpc = "spawn_register" => wtask \notin Runnables /\ wtask # running
  <2>1. wpc = "spawn_register" =>
           wtask \in Tasks /\ future[wtask] = "unborn"
    BY DEF OwnInv, OwnershipInv, ControlInv, TypeInv, TaskSlots, CallPc
  <2>2. At = "poll" => future[running] = "live"
    BY DEF OwnInv, OwnershipInv, ControlInv, Live
  <2>3. \A t \in Runnables : future[t] = "live"
    BY Zenon, RunnableIsLive
  <2> QED
    BY <1>3, <2>1, <2>2, <2>3, TasksAssumption
<1> USE <1>1, <1>2 DEF OneRunnable, Runnables, Spawning
<1>6. CASE SpawnRegister
  BY <1>5, <1>6 DEF SpawnRegister
<1>7. CASE SpawnSchedule
  BY <1>4, <1>7 DEF SpawnSchedule, DropFuture
<1>8. CASE Process
  BY <1>3, <1>8 DEF Process, At, CallPc
<1>9. CASE Reap
  BY <1>3, <1>9 DEF Reap, ReapCompletedTasks, At, CallPc
<1>10. CASE StopDrain
  BY <1>3, <1>10 DEF StopDrain, DrainForShutdown, At, CallPc
<1>11. CASE DrainTaskHandoffs
  BY <1>3, <1>11 DEF DrainTaskHandoffs, At, CallPc
<1>12. CASE ReleaseLease
  BY <1>3, <1>12 DEF ReleaseLease, DrainForShutdown, At, CallPc
<1>13. CASE PollReady
  BY <1>13 DEF PollReady, DropFuture
<1>14. CASE PollPending
  BY <1>14 DEF PollPending, DropFuture
<1>15. ASSUME NEW t \in Tasks, DropHandle(t) PROVE OneRunnable'
  BY <1>3, <1>15, TasksAssumption DEF DropHandle, At, CallPc, DropFuture
<1>16. ASSUME NEW t \in Tasks, RunClosed(t) \/ DropRunnable(t)
       PROVE  OneRunnable'
  BY <1>3, <1>16 DEF RunClosed, DropRunnable, At, CallPc, DropFuture
<1>17. ASSUME NEW t \in Tasks, RunPoll(t) PROVE OneRunnable'
  BY <1>3, <1>17 DEF RunPoll, At, CallPc
<1>18. ASSUME NEW t \in Tasks, LocalWake(t) PROVE OneRunnable'
  BY <1>18 DEF LocalWake, DropFuture, UserCode
<1> HIDE <1>1, <1>2 DEF OneRunnable, Runnables, Spawning
<1> QED
  BY <1>6, <1>7, <1>8, <1>9, <1>10, <1>11, <1>12, <1>13, <1>14, <1>15, <1>16,
     <1>17, <1>18

\* A foreign thread that wakes an idle task makes the one runnable of it, and
\* carries it to queue() or to the quarantine.
LEMMA ThreadRunnables ==
    ASSUME OwnInv, NEW th \in Threads, ThreadStep(th) \/ ThreadCall(th)
    PROVE  OneRunnable'
<1>1. OneRunnable /\ tpc \in [Threads -> ThreadPc]
      /\ ttask \in [Threads -> Tasks \cup {NoTask}]
  BY DEF OwnInv, OwnershipInv, TypeInv, TypeOK
<1> USE <1>1 DEF OneRunnable, Runnables, Carried, Carriers, Spawning, Goto
<1>2. CASE ForeignQueue(th) \/ Quarantine(th)
  BY <1>2 DEF ForeignQueue, Quarantine
<1>3. CASE \/ ForeignRequestCancel(th) \/ NotifySwap(th) \/ NotifySend(th)
           \/ NotifyClear(th)
  BY <1>3 DEF ForeignRequestCancel, NotifySwap, NotifySend, NotifyClear
<1>4. CASE FailFromForeignThread(th) \/ ForeignFailLive(th)
  BY <1>4 DEF FailFromForeignThread, ForeignFailLive
<1>5. ASSUME NEW t \in Tasks, ForeignWake(th, t) \/ ForeignCancel(th, t)
      PROVE  OneRunnable'
  BY <1>5 DEF ForeignWake, ForeignCancel
<1> HIDE <1>1
      DEF OneRunnable, Runnables, Carried, Carriers, Spawning, Goto
<1> QED
  BY <1>2, <1>3, <1>4, <1>5 DEF ThreadStep, ThreadCall

\* Every action moves a runnable, or makes or ends one, and never copies or
\* loses it.
LEMMA RunnableStep == OwnInv /\ [Next]_vars => OneRunnable'
<1> SUFFICES ASSUME OwnInv, [Next]_vars PROVE OneRunnable'
  OBVIOUS
<1>1. CASE \/ SpawnRegister \/ SpawnSchedule \/ Process \/ PollReady
           \/ PollPending \/ Reap \/ StopDrain \/ DrainTaskHandoffs
           \/ ReleaseLease
  <2>1. UNCHANGED <<tpc, ttask>>
    BY Zenon, <1>1
    DEF SpawnRegister, SpawnSchedule, Process, PollReady, PollPending, Reap,
        StopDrain, DrainTaskHandoffs, ReleaseLease
  <2> QED
    BY WorkerRunnables, <1>1, <2>1
<1>2. ASSUME NEW t \in Tasks,
             \/ DropHandle(t) \/ RunClosed(t) \/ RunPoll(t)
             \/ DropRunnable(t) \/ LocalWake(t)
      PROVE  OneRunnable'
  <2>1. UNCHANGED <<tpc, ttask>>
    BY Zenon, <1>2
    DEF DropHandle, RunClosed, RunPoll, DropRunnable, LocalWake
  <2> QED
    BY WorkerRunnables, <1>2, <2>1
<1>3. ASSUME NEW th \in Threads, ThreadStep(th) \/ ThreadCall(th)
      PROVE  OneRunnable'
  BY ThreadRunnables, <1>3
<1>4. CASE \/ ClearPending \/ HandlesDropped \/ FinishProcessing \/ Check
           \/ Stop \/ CloseSocket
  BY RunnableStays, <1>4
  DEF ClearPending, HandlesDropped, FinishProcessing, Check, Stop,
      CloseSocket, Spawning
<1>5. CASE \/ ClosePending \/ CancelAll \/ RunnablesDropped \/ FinishShutdown
           \/ DispatchPosted \/ DrainNotification \/ AcquireLease
  BY RunnableStays, <1>5
  DEF ClosePending, CancelAll, RunnablesDropped, FinishShutdown,
      DispatchPosted, DrainNotification, AcquireLease, Spawning
<1>6. CASE LocalRequestCancel
  <2>1. wret # "spawn_schedule"
    BY DEF OwnInv, TypeInv, TypeOK
  <2> QED
    BY RunnableStays, <1>6, <2>1 DEF LocalRequestCancel, Spawning
<1>7. ASSUME NEW t \in Tasks, Spawn(t) \/ LocalCancel(t)
      PROVE  OneRunnable'
  BY Zenon, RunnableStays, <1>7 DEF Spawn, LocalCancel, UserCode, Spawning
<1>8. CASE UNCHANGED vars
  BY RunnableStays, <1>8 DEF vars, Spawning
<1> QED
  BY <1>1, <1>2, <1>3, <1>4, <1>5, <1>6, <1>7, <1>8
  DEF Next, WorkerStep, WorkerCall, Terminated

\* spawn adds one future and one to live_tasks.
LEMMA LiveGrows ==
    ASSUME OwnInv, NEW t \in Tasks, future[t] = "unborn",
           future' = [future EXCEPT ![t] = "live"], liveTasks' = liveTasks + 1
    PROVE  LiveTasksExact'
<1>1. Live' = Live \cup {t} /\ t \notin Live
  BY DEF Live, OwnInv, TypeInv, TypeOK
<1>2. IsFiniteSet(Live)
  BY LiveFinite DEF OwnInv
<1>3. Cardinality(Live \cup {t}) = Cardinality(Live) + 1
  BY <1>1, <1>2, FS_AddElement
<1>4. liveTasks = Cardinality(Live)
  BY DEF LiveTasksExact, OwnInv, OwnershipInv
<1> QED
  BY <1>1, <1>3, <1>4 DEF LiveTasksExact

\* The destructor of a task runner removes one future and takes one from
\* live_tasks.
LEMMA LiveShrinks ==
    ASSUME OwnInv, NEW t \in Tasks, future[t] = "live",
           future' = [future EXCEPT ![t] = "dropped"], liveTasks' = liveTasks - 1
    PROVE  LiveTasksExact'
<1>1. Live' = Live \ {t} /\ t \in Live
  BY DEF Live, OwnInv, TypeInv, TypeOK
<1>2. IsFiniteSet(Live)
  BY LiveFinite DEF OwnInv
<1>3. Cardinality(Live \ {t}) = Cardinality(Live) - 1
  BY <1>1, <1>2, FS_RemoveElement
<1>4. liveTasks = Cardinality(Live)
  BY DEF LiveTasksExact, OwnInv, OwnershipInv
<1> QED
  BY <1>1, <1>3, <1>4 DEF LiveTasksExact

\* Every action keeps live_tasks equal to the number of live futures.
LEMMA LiveStep == OwnInv /\ [Next]_vars => LiveTasksExact'
<1> SUFFICES ASSUME OwnInv, [Next]_vars PROVE LiveTasksExact'
  OBVIOUS
<1>1. CASE UNCHANGED <<future, liveTasks>>
  BY <1>1 DEF OwnInv, OwnershipInv, LiveTasksExact, Live
<1>2. CASE SpawnRegister
  <2>1. wtask \in Tasks /\ future[wtask] = "unborn"
    BY <1>2 DEF SpawnRegister, OwnInv, OwnershipInv, ControlInv, TypeInv,
       TaskSlots, CallPc
  <2> QED
    BY ZenonT(30), <1>2, <2>1, LiveGrows DEF SpawnRegister
<1>3. CASE SpawnSchedule
  <2>1. wtask \in Tasks /\ future[wtask] = "live"
    BY <1>3, RunnableIsLive DEF SpawnSchedule, Runnables, Spawning
  <2>2. CASE phase = "Running"
    BY Zenon, <1>1, <1>3, <2>2 DEF SpawnSchedule
  <2>3. CASE phase # "Running"
    BY Zenon, <1>3, <2>1, <2>3, LiveShrinks DEF SpawnSchedule, DropFuture
  <2> QED
    BY <2>2, <2>3
<1>4. CASE PollReady \/ PollPending
  <2>1. running \in Tasks /\ future[running] = "live"
    BY <1>4 DEF PollReady, PollPending, OwnInv, OwnershipInv, ControlInv, At,
       CallPc, Live
  <2> QED
    BY <1>1, <1>4, <2>1, LiveShrinks DEF PollReady, PollPending, DropFuture
<1>5. ASSUME NEW t \in Tasks, RunClosed(t) \/ DropRunnable(t)
      PROVE  LiveTasksExact'
  <2>1. future[t] = "live"
    BY Zenon, <1>5, RunnableIsLive DEF RunClosed, DropRunnable, Runnables
  <2> QED
    BY <1>5, <2>1, LiveShrinks DEF RunClosed, DropRunnable, DropFuture
<1>6. ASSUME NEW t \in Tasks, DropHandle(t)
      PROVE  LiveTasksExact'
  <2>1. t \in closed \/ future[t] = "live"
    BY <1>6 DEF DropHandle, OwnInv, OwnershipInv, FutureInv, TypeInv, TypeOK
  <2> QED
    BY <1>1, <1>6, <2>1, LiveShrinks DEF DropHandle, DropFuture
<1>7. ASSUME NEW t \in Tasks, LocalWake(t)
      PROVE  LiveTasksExact'
  BY <1>1, <1>7, LiveShrinks DEF LocalWake, DropFuture
<1>8. CASE \/ LocalRequestCancel \/ ClearPending \/ Process \/ HandlesDropped
           \/ Reap \/ FinishProcessing \/ Check \/ Stop \/ StopDrain
           \/ CloseSocket \/ ClosePending \/ CancelAll \/ RunnablesDropped
           \/ DrainTaskHandoffs \/ FinishShutdown \/ AcquireLease
           \/ ReleaseLease \/ DispatchPosted \/ DrainNotification
  BY ZenonT(30), <1>1, <1>8
  DEF LocalRequestCancel, ClearPending, Process, HandlesDropped, Reap,
      FinishProcessing, Check, Stop, StopDrain, CloseSocket, ClosePending,
      CancelAll, RunnablesDropped, DrainTaskHandoffs, FinishShutdown,
      AcquireLease, ReleaseLease, DispatchPosted, DrainNotification
<1>9. ASSUME NEW t \in Tasks, RunPoll(t) \/ Spawn(t) \/ LocalCancel(t)
      PROVE  LiveTasksExact'
  BY <1>1, <1>9 DEF RunPoll, Spawn, LocalCancel
<1>10. ASSUME NEW th \in Threads, ThreadStep(th) \/ ThreadCall(th)
       PROVE  LiveTasksExact'
  BY ZenonT(30), <1>1, <1>10 DEF ThreadStep, ThreadCall, ForeignQueue, Quarantine,
     ForeignRequestCancel, NotifySwap, NotifySend, NotifyClear,
     FailFromForeignThread, ForeignFailLive, ForeignWake, ForeignCancel
<1>11. CASE UNCHANGED vars
  BY <1>1, <1>11 DEF vars
<1> QED
  BY <1>2, <1>3, <1>4, <1>5, <1>6, <1>7, <1>8, <1>9, <1>10, <1>11
  DEF Next, WorkerStep, WorkerCall, Terminated

\* A new scheduler owns nothing.
LEMMA OwnershipInit == Init => OwnershipInv
<1> SUFFICES ASSUME Init PROVE OwnershipInv
  OBVIOUS
<1> USE DEF Init
<1>1. Live = {}
  BY DEF Live
<1>2. OneRunnable
  BY DEF OneRunnable, Runnables, Spawning, Carriers, Carried
<1>3. LiveTasksExact
  BY <1>1, FS_EmptySet DEF LiveTasksExact
<1>4. FutureInv
  BY DEF FutureInv
<1>5. ControlInv /\ StopInv
  BY <1>1 DEF ControlInv, StopInv, At, CallPc, StopModes
<1> QED
  BY <1>2, <1>3, <1>4, <1>5 DEF OwnershipInv

\* The ownership invariant holds for any tasks and any foreign threads: every
\* future has one owner, every closed future one runnable, and live_tasks
\* counts them.
THEOREM Ownership == Spec => []OwnershipInv
<1>1. OwnInv /\ [Next]_vars => OwnInv'
  BY TypeStep, FutureStep, ControlStep, StopStep, RunnableStep, LiveStep
  DEF OwnInv, OwnershipInv
<1>2. Init => OwnInv
  BY TypeInit, OwnershipInit DEF OwnInv
<1>3. OwnInv => OwnershipInv
  BY DEF OwnInv
<1> QED
  BY <1>1, <1>2, <1>3, PTL DEF Spec

\* OwnInv is invariant.
LEMMA OwnInvariant == Spec => []OwnInv
BY TypeInvariant, Ownership, PTL DEF OwnInv

\* A future that waits to run has one runnable: in the queue, in a batch, with
\* a thread, or in quarantine (schedule, quarantine, process).
THEOREM OneRunnablePerTask == Spec => []OneRunnable
<1>1. OwnInv => OneRunnable
  BY DEF OwnInv, OwnershipInv
<1> QED
  BY <1>1, OwnInvariant, PTL

\* live_tasks is the number of futures that exist (spawn, LiveTask::drop), for
\* any number of tasks.
THEOREM LiveTasksAlwaysExact == Spec => []LiveTasksExact
<1>1. OwnInv => LiveTasksExact
  BY SMTT(30) DEF OwnInv, OwnershipInv
<1> QED
  BY <1>1, OwnInvariant, PTL

\* drain_task_handoffs waits only while a foreign thread still carries a
\* runnable to quarantine(): it cannot wait for a future that nobody will hand
\* over.
THEOREM HandoffsAlwaysArrive == Spec => []HandoffsArrive
<1>1. OwnInv => HandoffsArrive
  <2> SUFFICES ASSUME OwnInv, wpc = "handoff", liveTasks # 0,
                      queue = {}, quarantined = {}
               PROVE  Carriers # {}
    BY SMTT(30) DEF HandoffsArrive
  <2> USE DEF OwnInv, OwnershipInv, ControlInv, StopInv, At, CallPc
  <2>1. PICK t \in Live : TRUE
    BY NoneLive
  <2>2. tasks = {} /\ handles = {} /\ running = NoTask
    BY SMTT(30) DEF StopModes
  <2>3. t \in scheduled /\ t # NoTask
    BY <2>1, <2>2, TasksAssumption DEF FutureInv, Live
  <2>4. batch = {} /\ drops = {} /\ Spawning = {}
    BY DEF Spawning
  <2> QED
    BY <2>2, <2>3, <2>4 DEF OneRunnable, Runnables, Carried
<1> QED
  BY <1>1, OwnInvariant, PTL

\* A scheduler that finish_shutdown has stopped holds no future, no runnable
\* and no registered task, and every task has its verdict.
THEOREM StoppedAlwaysEmpty == Spec => []StoppedIsEmpty
<1>1. OwnInv => StoppedIsEmpty
  <2> SUFFICES ASSUME OwnInv, phase = "Stopped"
               PROVE  /\ Live = {} /\ Runnables = {} /\ tasks = {} /\ controls = {}
                      /\ \A t \in Tasks : status[t] \in Terminal \cup {"None"}
    BY DEF StoppedIsEmpty
  <2>1. Live = {} /\ tasks = {} /\ controls = {}
    BY DEF OwnInv, OwnershipInv, StopInv, ControlInv
  <2>2. Runnables = {}
    BY <2>1, RunnableIsLive DEF Live
  <2>3. \A t \in Tasks : status[t] \in Terminal \cup {"None"}
    BY <2>1 DEF OwnInv, OwnershipInv, FutureInv, Live, TypeInv, TypeOK
  <2> QED
    BY <2>1, <2>2, <2>3
<1> QED
  BY <1>1, OwnInvariant, PTL

\* finish, fail_scheduler and request_cancel never overwrite a verdict.
LEMMA VerdictKept == OwnInv /\ [Next]_vars => VerdictStep
<1> SUFFICES ASSUME OwnInv, [Next]_vars PROVE VerdictStep
  OBVIOUS
<1> USE DEF VerdictStep, Finish, FailScheduler, Terminal
<1>1. status \in [Tasks -> Statuses]
  BY DEF OwnInv, TypeInv, TypeOK
<1>2. CASE status' = status
  BY <1>2
<1>3. ASSUME NEW t \in Tasks, DropFuture(t) PROVE VerdictStep
  BY <1>1, <1>3 DEF DropFuture
<1>4. CASE SpawnRegister
  <2>1. wtask \in Tasks /\ status[wtask] = "None"
    BY <1>4 DEF SpawnRegister, OwnInv, OwnershipInv, ControlInv, FutureInv,
       TypeInv, TaskSlots, CallPc
  <2> QED
    BY <1>1, <1>4, <2>1 DEF SpawnRegister
<1>5. CASE SpawnSchedule
  <2>1. wtask \in Tasks
    BY ZenonT(30), <1>5 DEF SpawnSchedule, OwnInv, TypeInv, TaskSlots, CallPc
  <2> QED
    BY Zenon, <1>2, <1>3, <1>5, <2>1 DEF SpawnSchedule
<1>6. CASE PollReady \/ PollPending
  <2>1. running \in Tasks
    BY ZenonT(30), <1>6 DEF PollReady, PollPending, OwnInv, TypeInv, TaskSlots
  <2> QED
    BY <1>1, <1>2, <1>6, <2>1 DEF PollReady, PollPending, DropFuture
<1>7. CASE Stop \/ CancelAll
  BY <1>1, <1>7 DEF Stop, FailLiveTasks, CancelAll
<1>8. ASSUME NEW t \in Tasks,
             \/ RunClosed(t) \/ DropRunnable(t) \/ DropHandle(t)
             \/ LocalWake(t)
      PROVE  VerdictStep
  BY Zenon, <1>2, <1>3, <1>8 DEF RunClosed, DropRunnable, DropHandle, LocalWake
<1>9. ASSUME NEW t \in Tasks, LocalCancel(t) PROVE VerdictStep
  BY <1>1, <1>9 DEF LocalCancel
<1>10. ASSUME NEW th \in Threads, ForeignFailLive(th)
      PROVE  VerdictStep
  BY <1>1, <1>10 DEF ForeignFailLive, FailLiveTasks
<1>11. ASSUME NEW th \in Threads, NEW t \in Tasks, ForeignCancel(th, t)
      PROVE  VerdictStep
  BY <1>1, <1>11 DEF ForeignCancel
<1>12. CASE \/ LocalRequestCancel \/ ClearPending \/ Process \/ HandlesDropped
           \/ Reap \/ FinishProcessing \/ Check \/ StopDrain
           \/ CloseSocket \/ ClosePending \/ RunnablesDropped
           \/ DrainTaskHandoffs \/ FinishShutdown \/ AcquireLease
           \/ ReleaseLease \/ DispatchPosted \/ DrainNotification
  BY ZenonT(30), <1>2, <1>12
  DEF LocalRequestCancel, ClearPending, Process, HandlesDropped, Reap,
      FinishProcessing, Check, StopDrain, CloseSocket, ClosePending,
      RunnablesDropped, DrainTaskHandoffs, FinishShutdown, AcquireLease,
      ReleaseLease, DispatchPosted, DrainNotification
<1>13. ASSUME NEW t \in Tasks, RunPoll(t) \/ Spawn(t)
       PROVE  VerdictStep
  BY ZenonT(30), <1>2, <1>13 DEF RunPoll, Spawn
<1>14. ASSUME NEW th \in Threads,
              \/ ForeignQueue(th) \/ Quarantine(th) \/ ForeignRequestCancel(th)
              \/ NotifySwap(th) \/ NotifySend(th) \/ NotifyClear(th)
              \/ FailFromForeignThread(th)
              \/ \E t \in Tasks : ForeignWake(th, t)
       PROVE  VerdictStep
  BY ZenonT(30), <1>2, <1>14
  DEF ForeignQueue, Quarantine, ForeignRequestCancel, NotifySwap, NotifySend,
      NotifyClear, FailFromForeignThread, ForeignWake
<1>15. CASE UNCHANGED vars
  BY <1>2, <1>15 DEF vars
<1> HIDE DEF VerdictStep, Finish, FailScheduler, Terminal
<1> QED
  BY ZenonT(30), <1>4, <1>5, <1>6, <1>7, <1>8, <1>9, <1>10, <1>11, <1>12,
     <1>13, <1>14, <1>15
  DEF Next, WorkerStep, WorkerCall, ThreadStep, ThreadCall, Terminated

\* A terminal TaskStatus never changes and a requested cancellation never
\* turns into Ready, whatever finish, fail_scheduler and request_cancel race.
THEOREM VerdictsAreFinal == Spec => VerdictIsFinal
BY OwnInvariant, VerdictKept, PTL DEF Spec, VerdictIsFinal
=============================================================================
