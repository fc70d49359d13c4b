--------------------------- MODULE SchedulerProofs ---------------------------
(***************************************************************************)
(* What holds of Scheduler for any finite set of tasks, any set of threads *)
(* and any number of leases: type correctness, and that no wakeup is lost. *)
(* (SchedulerOwnership has the rest of the ownership invariant.)           *)
(* An action that sets a Boolean variable has a step of its own for it.    *)
(***************************************************************************)
EXTENDS Scheduler, TLAPS

\* Where the code holds a task, the slot of the model that stands for it is
\* filled.
TaskSlots ==
    /\ wpc \in CallPc => wtask \in Tasks
    /\ wpc = "poll" \/ (wpc \in CallPc /\ wret = "poll") => running \in Tasks
    /\ \A th \in Threads :
          tpc[th] \in {"queue", "quarantine", "request_cancel"} =>
              ttask[th] \in Tasks

\* The inductive form of TypeOK.
TypeInv == TypeOK /\ TaskSlots

USE DEF inner, channel, local, raw, worker, thread

\* The scheduler that acquire_worker creates is well typed.
LEMMA TypeInit == Init => TypeInv
<1> SUFFICES ASSUME Init PROVE TypeInv
  OBVIOUS
<1> USE DEF Init
<1>1. /\ status \in [Tasks -> Statuses]
      /\ future \in [Tasks -> {"unborn", "live", "dropped"}]
      /\ tpc \in [Threads -> ThreadPc]
      /\ ttask \in [Threads -> Tasks \cup {NoTask}]
  BY DEF Statuses, ThreadPc
<1>2. leases \in 0..MaxLeases
  BY LeasesAssumption
<1>3. wpc \in WorkerPc
  BY DEF WorkerPc
<1>4. TaskSlots
  BY DEF TaskSlots, CallPc
<1>5. /\ processing \in BOOLEAN
      /\ notification \in BOOLEAN
      /\ pending \in BOOLEAN
      /\ posted \in BOOLEAN
  BY Zenon
<1> QED
  BY <1>1, <1>2, <1>3, <1>4, <1>5 DEF TypeInv, TypeOK

\* The four flags.
Flags ==
    /\ processing \in BOOLEAN
    /\ notification \in BOOLEAN
    /\ pending \in BOOLEAN
    /\ posted \in BOOLEAN

\* Every action leaves a flag alone, sets it, clears it or, as schedule() does
\* with the posted event, sets it unless process() is running.
LEMMA FlagsStep == Flags /\ [Next]_vars => Flags'
<1> SUFFICES ASSUME Flags, [Next]_vars PROVE Flags'
  OBVIOUS
<1> USE DEF Flags
<1>1. CASE \/ SpawnRegister \/ SpawnSchedule \/ LocalRequestCancel
           \/ ClearPending \/ Process \/ HandlesDropped
  BY Zenon, <1>1
  DEF SpawnRegister, SpawnSchedule, LocalRequestCancel, ClearPending, Process,
      HandlesDropped
<1>2. CASE \/ PollReady \/ PollPending \/ Reap \/ FinishProcessing \/ Check
  BY Zenon, <1>2 DEF PollReady, PollPending, Reap, FinishProcessing, Check
<1>3. CASE \/ Stop \/ StopDrain \/ CloseSocket \/ ClosePending \/ CancelAll
           \/ RunnablesDropped \/ DrainTaskHandoffs \/ FinishShutdown
  BY Zenon, <1>3
  DEF Stop, StopDrain, CloseSocket, ClosePending, CancelAll, RunnablesDropped,
      DrainTaskHandoffs, FinishShutdown
<1>4. CASE \/ AcquireLease \/ ReleaseLease \/ DispatchPosted
           \/ DrainNotification
  BY Zenon, <1>4
  DEF AcquireLease, ReleaseLease, DispatchPosted, DrainNotification
<1>5. ASSUME NEW t \in Tasks,
             \/ DropHandle(t) \/ RunClosed(t) \/ RunPoll(t) \/ DropRunnable(t)
      PROVE  Flags'
  BY Zenon, <1>5 DEF DropHandle, RunClosed, RunPoll, DropRunnable
<1>6. ASSUME NEW t \in Tasks,
             \/ LocalWake(t) \/ Spawn(t) \/ LocalCancel(t)
      PROVE  Flags'
  BY Zenon, <1>6 DEF LocalWake, Spawn, LocalCancel
<1>7. ASSUME NEW th \in Threads,
             \/ ForeignQueue(th) \/ Quarantine(th) \/ ForeignRequestCancel(th)
             \/ NotifySwap(th) \/ NotifySend(th) \/ NotifyClear(th)
             \/ FailFromForeignThread(th) \/ ForeignFailLive(th)
      PROVE  Flags'
  BY Zenon, <1>7
  DEF ForeignQueue, Quarantine, ForeignRequestCancel, NotifySwap, NotifySend,
      NotifyClear, FailFromForeignThread, ForeignFailLive
<1>8. ASSUME NEW th \in Threads, NEW t \in Tasks,
             \/ ForeignWake(th, t) \/ ForeignCancel(th, t)
      PROVE  Flags'
  BY Zenon, <1>8 DEF ForeignWake, ForeignCancel
<1>9. CASE UNCHANGED vars
  BY <1>9 DEF vars
<1> HIDE DEF Flags
<1> QED
  BY <1>1, <1>2, <1>3, <1>4, <1>5, <1>6, <1>7, <1>8, <1>9
  DEF Next, WorkerStep, WorkerCall, ThreadStep, ThreadCall, Terminated

\* Every action of the worker and of the foreign threads keeps the types.
LEMMA TypeStep == TypeInv /\ [Next]_vars => TypeInv'
<1> SUFFICES ASSUME TypeInv, Flags', [Next]_vars PROVE TypeInv'
  BY FlagsStep DEF Flags, TypeInv, TypeOK
<1> USE DEF Flags, TypeInv, TypeOK, TaskSlots, CallPc, WorkerPc, ThreadPc,
      Statuses, Terminal
<1>1. CASE \/ SpawnRegister \/ SpawnSchedule \/ LocalRequestCancel
  BY <1>1
  DEF SpawnRegister, SpawnSchedule, LocalRequestCancel, DropFuture, Finish
<1>2. CASE \/ ClearPending \/ Process \/ HandlesDropped
  BY <1>2 DEF ClearPending, Process, HandlesDropped
<1>3. CASE \/ PollReady \/ PollPending \/ Reap \/ FinishProcessing \/ Check
  BY <1>3
  DEF PollReady, PollPending, Reap, FinishProcessing, Check, Finish,
      DropFuture, ReapCompletedTasks
<1>4. CASE \/ Stop \/ StopDrain \/ CloseSocket \/ ClosePending
  BY <1>4
  DEF Stop, StopDrain, CloseSocket, ClosePending, FailLiveTasks,
      FailScheduler, StopModes, DrainForShutdown
<1>5. CASE \/ CancelAll \/ RunnablesDropped \/ DrainTaskHandoffs
           \/ FinishShutdown
  BY <1>5
  DEF CancelAll, RunnablesDropped, DrainTaskHandoffs, FinishShutdown, Finish,
      StopModes, ReapCompletedTasks
<1>6. CASE \/ AcquireLease \/ ReleaseLease \/ DispatchPosted
           \/ DrainNotification
  BY LeasesAssumption, <1>6
  DEF AcquireLease, ReleaseLease, DispatchPosted, DrainNotification,
      DrainForShutdown, StopModes
<1>7. ASSUME NEW t \in Tasks,
             \/ DropHandle(t) \/ RunClosed(t) \/ RunPoll(t) \/ DropRunnable(t)
      PROVE  TypeInv'
  BY <1>7
  DEF DropHandle, RunClosed, RunPoll, DropRunnable, DropFuture, Finish
<1>8. ASSUME NEW t \in Tasks,
             \/ LocalWake(t) \/ Spawn(t) \/ LocalCancel(t)
      PROVE  TypeInv'
  BY <1>8 DEF LocalWake, Spawn, LocalCancel, DropFuture, Finish, UserCode
<1>9. ASSUME NEW th \in Threads,
             \/ ForeignQueue(th) \/ Quarantine(th) \/ ForeignRequestCancel(th)
             \/ NotifySwap(th)
      PROVE  TypeInv'
  BY <1>9
  DEF ForeignQueue, Quarantine, ForeignRequestCancel, NotifySwap, Goto
<1>10. ASSUME NEW th \in Threads,
              \/ NotifySend(th) \/ NotifyClear(th)
              \/ FailFromForeignThread(th) \/ ForeignFailLive(th)
       PROVE  TypeInv'
  BY <1>10
  DEF NotifySend, NotifyClear, FailFromForeignThread, ForeignFailLive, Goto,
      FailLiveTasks, FailScheduler
<1>11. ASSUME NEW th \in Threads, NEW t \in Tasks,
              \/ ForeignWake(th, t) \/ ForeignCancel(th, t)
       PROVE  TypeInv'
  BY <1>11 DEF ForeignWake, ForeignCancel, Goto
<1>12. CASE UNCHANGED vars
  BY <1>12 DEF vars
<1> HIDE DEF Flags, TypeInv, TypeOK, TaskSlots, CallPc, WorkerPc, ThreadPc,
      Statuses, Terminal
<1> QED
  BY <1>1, <1>2, <1>3, <1>4, <1>5, <1>6, <1>7, <1>8, <1>9, <1>10, <1>11, <1>12
  DEF Next, WorkerStep, WorkerCall, ThreadStep, ThreadCall, Terminated

\* The inductive form of WorkIsAnnounced: a set notification_pending stands
\* for a datagram that is unread, being read or being sent.
AnnounceInv ==
    /\ phase = "Running" /\ pending =>
          \/ datagrams > 0
          \/ wpc \in {"clear", "clear_failed"}
          \/ \E th \in Threads : tpc[th] \in {"send", "clear"}
    /\ wpc \in {"close_socket", "close_pending"} => phase # "Running"
    /\ WorkIsAnnounced

\* Every action keeps work announced. The interesting ones: ClearPending runs
\* before process() takes the queue, NotifySwap relies on the datagram of
\* another thread, FinishProcessing reposts what arrived meanwhile.
LEMMA AnnounceStep == TypeInv /\ AnnounceInv /\ [Next]_vars => AnnounceInv'
<1> SUFFICES ASSUME TypeOK, AnnounceInv, [Next]_vars PROVE AnnounceInv'
  BY DEF TypeInv
<1> USE DEF TypeOK, ThreadPc, AnnounceInv, WorkIsAnnounced, WorkerWillLook
<1>1. CASE \/ SpawnRegister \/ HandlesDropped \/ PollReady \/ Reap \/ Check
  BY <1>1
  DEF SpawnRegister, HandlesDropped, PollReady, Reap, Check,
      ReapCompletedTasks
<1>2. ASSUME SpawnSchedule PROVE AnnounceInv'
  BY Zenon, <1>2 DEF SpawnSchedule, DropFuture
<1>3. ASSUME LocalRequestCancel PROVE AnnounceInv'
  BY Zenon, <1>3 DEF LocalRequestCancel
<1>4. CASE \/ ClearPending \/ Process
  BY <1>4 DEF ClearPending, Process
<1>5. ASSUME PollPending PROVE AnnounceInv'
  BY Zenon, <1>5 DEF PollPending, DropFuture
<1>6. CASE FinishProcessing
  BY <1>6 DEF FinishProcessing, ReapCompletedTasks, HasWork
<1>7. CASE \/ Stop \/ StopDrain \/ CloseSocket \/ ClosePending \/ CancelAll
  BY <1>7
  DEF Stop, StopDrain, CloseSocket, ClosePending, CancelAll, FailLiveTasks,
      DrainForShutdown
<1>8. CASE \/ RunnablesDropped \/ DrainTaskHandoffs \/ FinishShutdown
  BY <1>8
  DEF RunnablesDropped, DrainTaskHandoffs, FinishShutdown, ReapCompletedTasks
<1>9. CASE \/ AcquireLease \/ ReleaseLease \/ DispatchPosted
           \/ DrainNotification
  BY <1>9
  DEF AcquireLease, ReleaseLease, DispatchPosted, DrainNotification,
      DrainForShutdown
<1>10. ASSUME NEW t \in Tasks, DropHandle(t) PROVE AnnounceInv'
  <2>1. CASE phase # "Running"
    BY <1>10, <2>1 DEF DropHandle
  <2>2. CASE phase = "Running" /\ queue' = queue /\ posted' = posted
    BY <1>10, <2>2 DEF DropHandle
  <2>3. CASE phase = "Running" /\ posted' = (posted \/ ~processing)
    BY Zenon, <1>10, <2>3 DEF DropHandle
  <2> QED
    BY <1>10, <2>1, <2>2, <2>3 DEF DropHandle
<1>11. ASSUME NEW t \in Tasks, LocalWake(t) PROVE AnnounceInv'
  <2>1. CASE phase # "Running"
    BY <1>11, <2>1 DEF LocalWake
  <2>2. CASE phase = "Running" /\ queue' = queue /\ posted' = posted
    BY <1>11, <2>2 DEF LocalWake
  <2>3. CASE phase = "Running" /\ posted' = (posted \/ ~processing)
    BY Zenon, <1>11, <2>3 DEF LocalWake
  <2> QED
    BY <1>11, <2>1, <2>2, <2>3 DEF LocalWake
<1>12. ASSUME NEW t \in Tasks,
              \/ RunClosed(t) \/ RunPoll(t) \/ DropRunnable(t) \/ Spawn(t)
              \/ LocalCancel(t)
       PROVE  AnnounceInv'
  BY <1>12
  DEF RunClosed, RunPoll, DropRunnable, Spawn, LocalCancel, DropFuture,
      UserCode
<1>13. ASSUME NEW th \in Threads,
              \/ ForeignQueue(th) \/ Quarantine(th)
              \/ ForeignRequestCancel(th)
       PROVE  AnnounceInv'
  BY <1>13 DEF ForeignQueue, Quarantine, ForeignRequestCancel, Goto
<1>14. ASSUME NEW th \in Threads,
              \/ NotifySwap(th) \/ NotifySend(th) \/ NotifyClear(th)
       PROVE  AnnounceInv'
  BY <1>14 DEF NotifySwap, NotifySend, NotifyClear, Goto
<1>15. ASSUME NEW th \in Threads,
              \/ FailFromForeignThread(th) \/ ForeignFailLive(th)
       PROVE  AnnounceInv'
  BY <1>15 DEF FailFromForeignThread, ForeignFailLive, Goto, FailLiveTasks
<1>16. ASSUME NEW th \in Threads, NEW t \in Tasks,
              \/ ForeignWake(th, t) \/ ForeignCancel(th, t)
       PROVE  AnnounceInv'
  BY <1>16 DEF ForeignWake, ForeignCancel, Goto
<1>17. CASE UNCHANGED vars
  BY <1>17 DEF vars
<1> HIDE DEF TypeOK, ThreadPc, AnnounceInv, WorkIsAnnounced, WorkerWillLook
<1> QED
  BY <1>1, <1>2, <1>3, <1>4, <1>5, <1>6, <1>7, <1>8, <1>9, <1>10, <1>11,
     <1>12, <1>13, <1>14, <1>15, <1>16, <1>17
  DEF Next, WorkerStep, WorkerCall, ThreadStep, ThreadCall, Terminated

\* TypeInv is invariant.
LEMMA TypeInvariant == Spec => []TypeInv
BY TypeInit, TypeStep, PTL DEF Spec

\* Every variable of the scheduler keeps its type, for every instance.
THEOREM TypeCorrect == Spec => []TypeOK
<1>1. TypeInv => TypeOK
  BY DEF TypeInv
<1> QED
  BY <1>1, TypeInvariant, PTL

\* No wakeup and no cancellation is lost between queue(), notify_worker, the
\* coalescing flag and process(), for any number of tasks and threads.
THEOREM NoLostWakeup == Spec => []WorkIsAnnounced
<1>1. Init => AnnounceInv
  BY DEF Init, AnnounceInv, WorkIsAnnounced
<1>2. AnnounceInv => WorkIsAnnounced
  BY DEF AnnounceInv
<1> QED
  BY <1>1, <1>2, AnnounceStep, TypeInvariant, PTL DEF Spec

-----------------------------------------------------------------------------
(***************************************************************************)
(* Towards OwnershipInv: the conjuncts about the state of a single future  *)
(* (FutureInv) and about what the worker has in hand (ControlInv) are      *)
(* preserved.                                                              *)
(***************************************************************************)
\* The inductive invariant.
OwnInv == TypeInv /\ OwnershipInv

\* A task whose runnable exists has a live future and is not being polled.
LEMMA RunnableIsLive ==
    ASSUME OwnInv, NEW t \in Runnables
    PROVE  t \in Tasks /\ future[t] = "live" /\ t \in scheduled /\ t # running
BY DEF OwnInv, OwnershipInv, OneRunnable, FutureInv, TypeInv, TypeOK

\* FutureInv is about these variables.
LEMMA FutureStays ==
    ASSUME OwnInv,
           UNCHANGED <<future, status, scheduled, closed, tasks, handles,
                       completed>>
    PROVE  FutureInv'
BY DEF OwnInv, OwnershipInv, FutureInv

\* Every action keeps FutureInv: a closed future still has a runnable and an
\* open one still has a registered handle.
LEMMA FutureStep == OwnInv /\ [Next]_vars => FutureInv'
<1> SUFFICES ASSUME OwnInv, [Next]_vars PROVE FutureInv'
  OBVIOUS
<1>1. /\ FutureInv
      /\ future \in [Tasks -> {"unborn", "live", "dropped"}]
      /\ status \in [Tasks -> Statuses]
  BY DEF OwnInv, OwnershipInv, TypeInv, TypeOK
<1>2. /\ wpc \in CallPc => wtask \in Tasks
      /\ wpc = "spawn_register" => future[wtask] = "unborn"
      /\ At = "poll" => running \in Live \ closed
      /\ At # "handles" => handles = {}
  BY DEF OwnInv, OwnershipInv, ControlInv, TypeInv, TaskSlots
<1>3. \A t \in Runnables : t \in scheduled /\ future[t] = "live"
  BY Zenon, RunnableIsLive
<1> USE <1>1, <1>2 DEF CallPc, At, FutureInv, Live, Terminal, Statuses
<1>4. CASE SpawnRegister
  BY <1>4 DEF SpawnRegister
<1>5. CASE SpawnSchedule
  <2>1. future[wtask] = "live"
    BY Zenon, <1>3, <1>5 DEF SpawnSchedule, Runnables, Spawning
  <2>2. CASE phase = "Running"
    BY <1>5, <2>2 DEF SpawnSchedule
  <2>3. CASE phase # "Running"
    BY <1>5, <2>1, <2>3 DEF SpawnSchedule, DropFuture, Finish
  <2> QED
    BY <2>2, <2>3
<1>6. CASE Process
  BY <1>6 DEF Process
<1>7. CASE \/ PollReady \/ PollPending
  BY <1>7 DEF PollReady, PollPending, Finish, DropFuture
<1>8. CASE \/ Reap \/ FinishProcessing
  BY <1>8 DEF Reap, FinishProcessing, ReapCompletedTasks
<1>9. CASE \/ Stop \/ CancelAll \/ FinishShutdown
  BY <1>9
  DEF Stop, CancelAll, FinishShutdown, FailLiveTasks, FailScheduler, Finish,
      ReapCompletedTasks
<1>10. ASSUME NEW t \in Tasks,
             \/ DropHandle(t) \/ RunClosed(t)
      PROVE  FutureInv'
  BY <1>10 DEF DropHandle, RunClosed, DropFuture, Finish
<1>11. ASSUME NEW t \in Tasks,
             \/ RunPoll(t) \/ DropRunnable(t)
      PROVE  FutureInv'
  <2>1. t \in scheduled /\ future[t] = "live"
    BY Zenon, <1>3, <1>11 DEF RunPoll, DropRunnable, Runnables
  <2> QED
    BY <1>11, <2>1 DEF RunPoll, DropRunnable, DropFuture, Finish
<1>12. ASSUME NEW t \in Tasks,
             \/ LocalWake(t) \/ LocalCancel(t)
      PROVE  FutureInv'
  BY <1>12 DEF LocalWake, LocalCancel, DropFuture, Finish, UserCode
<1>13. ASSUME NEW th \in Threads, ForeignFailLive(th) PROVE FutureInv'
  BY <1>13 DEF ForeignFailLive, FailLiveTasks, FailScheduler, Goto
<1>14. ASSUME NEW th \in Threads, NEW t \in Tasks,
              \/ ForeignWake(th, t) \/ ForeignCancel(th, t)
       PROVE  FutureInv'
  BY <1>14 DEF ForeignWake, ForeignCancel, Goto
<1> HIDE <1>1, <1>2 DEF CallPc, At, FutureInv, Live, Terminal, Statuses
<1>15. CASE \/ LocalRequestCancel \/ ClearPending \/ HandlesDropped \/ Check
            \/ StopDrain \/ CloseSocket \/ ClosePending \/ RunnablesDropped
            \/ DrainTaskHandoffs \/ AcquireLease \/ ReleaseLease
            \/ DispatchPosted \/ DrainNotification
  BY ZenonT(30), FutureStays, <1>15
  DEF LocalRequestCancel, ClearPending, HandlesDropped, Check, StopDrain,
      CloseSocket, ClosePending, RunnablesDropped, DrainTaskHandoffs,
      AcquireLease, ReleaseLease, DispatchPosted, DrainNotification
<1>16. ASSUME NEW t \in Tasks, Spawn(t) PROVE FutureInv'
  BY ZenonT(30), FutureStays, <1>16 DEF Spawn
<1>17. ASSUME NEW th \in Threads,
              \/ ForeignQueue(th) \/ Quarantine(th)
              \/ ForeignRequestCancel(th) \/ NotifySwap(th) \/ NotifySend(th)
              \/ NotifyClear(th) \/ FailFromForeignThread(th)
       PROVE  FutureInv'
  BY ZenonT(30), FutureStays, <1>17
  DEF ForeignQueue, Quarantine, ForeignRequestCancel, NotifySwap, NotifySend,
      NotifyClear, FailFromForeignThread
<1>18. CASE UNCHANGED vars
  BY ZenonT(30), FutureStays, <1>18 DEF vars
<1> QED
  BY <1>4, <1>5, <1>6, <1>7, <1>8, <1>9, <1>10, <1>11, <1>12, <1>13, <1>14,
     <1>15, <1>16, <1>17, <1>18
  DEF Next, WorkerStep, WorkerCall, ThreadStep, ThreadCall, Terminated

\* ControlInv is about these variables.
LEMMA ControlStays ==
    ASSUME OwnInv,
           UNCHANGED <<phase, controls, running, closed, future, tasks, wpc,
                       wmode, wtask, wret, batch, handles, drops>>
    PROVE  ControlInv'
BY DEF OwnInv, OwnershipInv, ControlInv, At, Live

\* Every action keeps ControlInv: each routine of the worker enters the next
\* one with the sets that one expects.
LEMMA ControlStep == OwnInv /\ [Next]_vars => ControlInv'
<1> SUFFICES ASSUME OwnInv, [Next]_vars PROVE ControlInv'
  OBVIOUS
<1>1. /\ ControlInv /\ TaskSlots
      /\ wret \in {"loop", "poll", "reap", "drops", "handles"}
      /\ future \in [Tasks -> {"unborn", "live", "dropped"}]
  BY DEF OwnInv, OwnershipInv, TypeInv, TypeOK
<1>2. UserCode /\ phase = "Running" => wpc \in {"loop", "poll", "reap"}
  BY DEF OwnInv, OwnershipInv, StopInv, UserCode, At, CallPc
<1> USE <1>1 DEF ControlInv, TaskSlots, CallPc, At, Live, StopModes
<1>3. CASE SpawnRegister
  BY <1>3 DEF SpawnRegister
<1>4. CASE SpawnSchedule /\ phase = "Running"
  BY <1>4 DEF SpawnSchedule
<1>5. CASE SpawnSchedule /\ phase # "Running"
  <2>1. wtask # running
    BY Zenon, <1>5, RunnableIsLive DEF SpawnSchedule, Runnables, Spawning
  <2> QED
    BY ZenonT(30), <1>5, <2>1 DEF SpawnSchedule, DropFuture
<1>6. CASE LocalRequestCancel
  BY <1>6 DEF LocalRequestCancel
<1>7. CASE \/ ClearPending \/ HandlesDropped
  BY <1>7 DEF ClearPending, HandlesDropped
<1>8. CASE Process
  BY ZenonT(30), <1>8 DEF Process
<1>9. CASE \/ PollReady \/ PollPending
  BY <1>9 DEF PollReady, PollPending, Finish, DropFuture
<1>10. CASE Reap
  BY <1>10 DEF Reap, ReapCompletedTasks
<1>11. CASE FinishProcessing
  BY <1>11 DEF FinishProcessing, ReapCompletedTasks
<1>12. CASE Check
  BY <1>12 DEF Check
<1>13. CASE \/ Stop \/ StopDrain
  BY <1>13
  DEF Stop, StopDrain, FailLiveTasks, FailScheduler, DrainForShutdown
<1>14. CASE CloseSocket
  BY <1>14 DEF CloseSocket
<1>15. CASE ClosePending
  BY <1>15 DEF ClosePending
<1>16. CASE CancelAll
  BY <1>16 DEF CancelAll, Finish
<1>17. CASE RunnablesDropped
  BY <1>17 DEF RunnablesDropped
<1>18. CASE DrainTaskHandoffs
  BY <1>18 DEF DrainTaskHandoffs
<1>19. CASE FinishShutdown
  BY <1>19 DEF FinishShutdown, ReapCompletedTasks
<1>20. CASE \/ ReleaseLease \/ DispatchPosted \/ DrainNotification
  BY <1>20
  DEF ReleaseLease, DispatchPosted, DrainNotification, DrainForShutdown
<1>21. ASSUME NEW t \in Tasks, DropHandle(t) PROVE ControlInv'
  BY <1>21 DEF DropHandle, DropFuture
<1>22. ASSUME NEW t \in Tasks, RunClosed(t) \/ DropRunnable(t)
       PROVE  ControlInv'
  BY <1>22 DEF RunClosed, DropRunnable, DropFuture
<1>23. ASSUME NEW t \in Tasks, RunPoll(t) PROVE ControlInv'
  <2>1. t \in Live \ closed
    BY ZenonT(30), <1>23, RunnableIsLive DEF RunPoll, Runnables
  <2> QED
    BY <1>23, <2>1 DEF RunPoll
<1>24. ASSUME NEW t \in Tasks, LocalWake(t) PROVE ControlInv'
  BY <1>24 DEF LocalWake, DropFuture
<1>25. ASSUME NEW t \in Tasks, Spawn(t) \/ LocalCancel(t) PROVE ControlInv'
  BY <1>2, <1>25 DEF Spawn, LocalCancel, UserCode
<1>26. ASSUME NEW th \in Threads, FailFromForeignThread(th) PROVE ControlInv'
  BY <1>26 DEF FailFromForeignThread, Goto
<1> HIDE <1>1 DEF ControlInv, TaskSlots, CallPc, At, Live, StopModes
<1>27. CASE AcquireLease
  BY ZenonT(30), ControlStays, <1>27 DEF AcquireLease
<1>28. ASSUME NEW th \in Threads,
              \/ ForeignQueue(th) \/ Quarantine(th)
              \/ ForeignRequestCancel(th) \/ NotifySwap(th) \/ NotifySend(th)
              \/ NotifyClear(th) \/ ForeignFailLive(th)
       PROVE  ControlInv'
  BY ZenonT(30), ControlStays, <1>28
  DEF ForeignQueue, Quarantine, ForeignRequestCancel, NotifySwap, NotifySend,
      NotifyClear, ForeignFailLive
<1>29. ASSUME NEW th \in Threads, NEW t \in Tasks,
              \/ ForeignWake(th, t) \/ ForeignCancel(th, t)
       PROVE  ControlInv'
  BY ZenonT(30), ControlStays, <1>29 DEF ForeignWake, ForeignCancel
<1>30. CASE UNCHANGED vars
  BY ZenonT(30), ControlStays, <1>30 DEF vars
<1> QED
  BY <1>3, <1>4, <1>5, <1>6, <1>7, <1>8, <1>9, <1>10, <1>11, <1>12, <1>13,
     <1>14, <1>15, <1>16, <1>17, <1>18, <1>19, <1>20, <1>21, <1>22, <1>23, <1>24,
     <1>25, <1>26, <1>27, <1>28, <1>29, <1>30
  DEF Next, WorkerStep, WorkerCall, ThreadStep, ThreadCall, Terminated
=============================================================================
