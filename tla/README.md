# A TLA+ model of ngx-rust

ngx-rust lets nginx modules be written in Rust. Much of the crate is a typed view
of nginx's C structures; what has behaviour over time is the asynchronous runtime
(tasks, timers, events and request continuations on nginx's event loop), the
state a request and a module keep across nginx's callbacks, the memory that
worker processes share, and the build that prepares nginx's sources. This
directory models those parts, checks them with TLC on small instances, and proves
the central properties with TLAPS for instances of any size.

`PROJECT.json` lists every part of the repository with what is modelled of it, the
source lines of every definition, the runs, the hazards of the code with the
properties that cover them, and the theorems. A range of source lines includes the
documentation and attributes of the item it names.

## Modules

| module | models | checked by | proofs |
|---|---|---|---|
| `Scheduler` | `async_/spawn/{scheduler,task,notification}.rs` | `scheduler_*` | `SchedulerProofs`, `SchedulerOwnership` |
| `WorkerLease` | leases and successive schedulers, `scheduler.rs` | `tasks` | `TaskProofs` |
| `RwLock`, `RwLockSpec` | `sync.rs`, and what `lock_api` expects of it | `memory` | `SharedProofs` |
| `PostedEvent`, `OwnedCallback` | `event/posted.rs`, and what an owned event promises | `events`, `posted_reentrant` | `EventProofs` |
| `Timer` | `event/timer.rs` | `events` | `EventProofs` |
| `Readiness` | `event/readiness.rs` | `events` | |
| `EventPeer` | `event/peer/{builder,connection,keepalive}.rs` | `events` | `EventProofs` |
| `LocalTask` | the handle of a task, `async_/spawn/task.rs` | `tasks` | `TaskProofs` |
| `Sleep` | `async_/sleep.rs` on nginx's timers and clock | `tasks` | `FutureProofs` |
| `Resolver` | `async_/resolver.rs` | `tasks` | `FutureProofs` |
| `AsyncRequest` | `http/async_request.rs` | `tasks` | `RequestHoldProofs` |
| `Subrequest` | `http/subrequest.rs` | `tasks` | `FutureProofs` |
| `RequestHold` | `http/request/continuation.rs` | `requests`, `request_holds_of_others` | `RequestHoldProofs` |
| `RequestContext` | `http/request/context.rs`, redirects, client-body reads | `requests` | |
| `RequestBody` | `http/request/{body,headers}.rs`, input headers | `requests`, `body_replaced_atomically` | |
| `TempFile` | `http/request/temp_file.rs` | `requests` | |
| `UpstreamPeer` | `http/upstream/peer.rs` | `requests` | `SourcePeerProofs` |
| `Slab` | `core/slab.rs` | `memory` | `SharedProofs` |
| `SlabQueue` | `collections/{slab_queue,queue}.rs` | `memory` | |
| `RbTree` | `collections/{rbtree,slab_rbtree}.rs` | `memory` | |
| `SharedDict`, `SharedDictSpec` | `examples/shared_dict.rs`, and the map it is | `memory` | |
| `PoolAllocator` | `core/pool.rs`, `allocator.rs` | `memory` | |
| `BufferView` | `core/buffer.rs` | `memory` | |
| `NativeList` | `collections/list.rs` | `memory` | |
| `ModuleConfiguration` | `{http,stream}/{conf,module}.rs` | `modules` | |
| `HttpVariables` | `http/variable.rs` | `modules` | |
| `StreamSession` | `stream/{session,variable}.rs` | `modules` | |
| `UpstreamInit` | `http/upstream/{callback,init,peer_init}.rs` | `modules` | |
| `ProxyProtocol` | `core/connection/{proxy_protocol,address}.rs` | `modules` | |
| `SourceCache` | `nginx-src/src/download.rs` | `modules` | `SourcePeerProofs` |
| `BuildFlags` | `nginx-sys/build/{main,link,test_link}.rs` | `modules` | |

### Suites

`MCEvents`, `MCRequests`, `MCTasks`, `MCMemory` and `MCModules` instantiate
several components each, with the constants of the instance written beside the
`INSTANCE`. A variable `part`, chosen at first and never changed, says which
component moves; the others stay in an initial state. A suite's behaviours are
thus the behaviours of its components, not their product, and one run answers one
question about each of them. Where component variables have the same name, the
suite renames them. A property of a suite is a conjunction of the component's
properties, guarded by `part`; the component's module states each of them with
what it means. Fairness of a component that would force steps of a part that is
not selected is stated in the suite, with `part` in the action.

The components interact where one module has another's effect as its
environment: `Scheduler` is what `LocalTask` assumes of the scheduler,
`WorkerLease` treats one `Scheduler` as a phase, `AsyncRequest` composes a task, a
posted event, a context and a hold, `SharedDict` composes the slab, its tree and
its queue.

## The scheduler

One worker thread, the owner, runs nginx's event loop. It alone may poll or
destroy the future of a task. Foreign threads hold wakers and cancellation
handles and use them at any moment. They reach the worker through a shared
queue, a flag that coalesces notifications and a private datagram channel.

| variables | code |
|---|---|
| `phase queue cancellations quarantined liveTasks processing` | `SchedulerInner`, one mutex |
| `notification pending datagrams` | sender socket, `notification_pending`, unread datagrams |
| `controls`, `status` | tracked `TaskControl`s and their status |
| `posted tasks completed leases` | `WorkerScheduler` |
| `scheduled closed running future` | the `async_task` state of a task, and its `TaskRunner` |
| `wpc wmode wtask wret batch handles drops` | where the worker thread is, and its local variables |
| `tpc ttask` | where every foreign thread is |

A step is one critical section of `SchedulerInner`, one access to an atomic, or
one piece of worker-local code between two of them. So a foreign thread can run
between the worker's read of a datagram and its reset of the flag, between the
failure of a send and the failure of the scheduler, between a task's SCHEDULED
bit and the queueing of its runnable. Module code on the worker (`UserCode`) may
wake, spawn and cancel inside polls and inside destructors.

* `DispatchPosted`, or `DrainNotification` and `ClearPending`, lead to `Process`;
* `Process`, `DropHandle`, `RunClosed`/`RunPoll`, `PollReady`/`PollPending`,
  `Reap`, `FinishProcessing` are `Scheduler::process`;
* `Stop`, `StopDrain`, `CancelAll`, `DropHandle`, `DropRunnable`,
  `DrainTaskHandoffs`, `FinishShutdown` are `stop_and_drop`;
* `ReleaseLease`, `CloseSocket`, `ClosePending` and the same tail are the final
  `release_worker_lease`.

Abstractions: `async_task` is external, and its CLOSED and COMPLETED bits are one
(`closed`); waking a running task only marks it, and dropping the handle of an
idle task schedules it once more. Queues are sets: a task has at most one
runnable (`OneRunnable`), and no property depends on the order. The waker that
`finish` and `fail_scheduler` call wakes some task, which `LocalWake` and
`ForeignWake` cover. `fail_live_tasks` is one step: its loop only changes
statuses, each by a compare-exchange. Each task is spawned once. Left out: a
failing post on the worker (only the shutdown closes the posted event, and then
nobody posts), calls from a wrong thread, and a scheduler that is gone when a
cancellation arrives.

Runs. `scheduler_safety` (two tasks, two foreign threads, two leases; 1,418,635
states): `WorkIsAnnounced`, no wakeup and no cancellation is lost, since
queued work always has a posted event, a datagram, a thread on its way to send
one, or the worker about to look; `StoppedIsEmpty`, a stopped scheduler has no
future left that a foreign thread could destroy; `VerdictIsFinal`, terminal
statuses never change and a canceled task never becomes ready.
`scheduler_liveness` (one foreign thread, one lease; 62,351 states): a woken task
runs, a cancellation is answered, and the release of the last lease finishes.

Two tasks allow one to be spawned, woken or canceled while the other is polled or
destroyed. Two threads allow one to rely on the other's datagram, to fail while
the other carries a runnable, and to cancel while the other wakes. Two leases
tell the last release from another one. Liveness needs one thread less, since a
thread's path never waits for another thread's next call. Fairness: a thread
inside the scheduler keeps running (`WF`; polls and destructors return), and the
event loop serves its posted queue and its readable connections again and again
(`SF`, since module code may run in between). Nothing is assumed about how often
anybody wakes, cancels, spawns or releases.

`scheduler_failure` is expected to fail, see Findings.

`WorkerLease` is the life of schedulers: the modules of a worker share one and hold
a lease each, the last release stops it while user code may acquire and release
again inside, and a lease dropped inside `process()` is refused and stays counted.
It is a part of the run `tasks` (two threads, three leases, three schedulers; 2,979
of its states), which checks that a scheduler is not stopped under a lease
(`LeaseKeepsScheduler`) and that one whose leases were all released stops being the
active one (`ReleasedIsReplaced`, with releases that go on once begun).

## The reader-writer lock

`RwLock` has one step per atomic access to the word: the load and the
compare-exchange of `try_lock_shared`, the compare-exchange of
`try_lock_exclusive`, the subtraction and the store of the unlocks. `lock_*`
tries again after a failure, `try_*` gives up. `WLOCK` is `usize::MAX`.

The lock is a part of the run `memory` (three processes, `WLOCK = 4`, so that the
three readers and the mark of a writer are distinct; 30,170 of the run's states).
`ImplementsRwLock`: every step is a step of `RwLockSpec`; `SomeoneGetsIn`: somebody
gets in while somebody waits. A single process is promised nothing: a writer can
starve. Fairness: a process inside the lock keeps running, and guards are dropped.

The memory orderings order the data the lock protects, which is not modelled. A
process that dies with a guard blocks everyone forever; the code has no recovery.
The code does not check for an overflow of the reader count, so that "fewer
processes than the word can count" is an assumption.

## Events: `MCEvents`

920,006 states. Behaviours may stop when every owner has been dropped.

* `PostedEvent`, `Timer`: while the handler runs, state and callback are on its
  stack, the callback acts on a copy of the event's flags, and the copy and the
  action it asked for are applied when it returns. The callback is module code
  and may use or drop the owner of every event. Actions: one per method of the
  owner and of the callback, `Drop`, the entry of the handler (`Dispatch`,
  `Expire`) and its tail (`Return`). Two events and two timers, so that a
  callback can act on its own and on another one. Both implement `OwnedCallback`:
  a dropped event is never called, and its values survive the callback and are
  destroyed once (`ImplementsOwnedCallback`, `TimersExact`). With callbacks that
  do not use their own timer's owner except to drop it (`part = "plain"`), the
  timed-out flag stands for one unobserved expiry.
* `Readiness`: a wait borrows the handler of a native event, is found through the
  thread's list of waiters, and gives the handler back however it ends. Two waits
  over two events, each activated once, with a timeout of 3 ms over timer steps of
  2 ms, so that a wait is replaced, dropped and timed out while the other one or
  an activation is pending. `WaitsExact`: no activation is lost, the module's
  handler is back after the last wait, and a wait reports a timeout only when its
  own timers have measured the full duration or its event had timed out before,
  by a timer of nginx's, whose bit the wait reads.
* `EventPeer`: owners select a peer with nginx's `get`, connect, use the
  connection, hand it to keepalive and back, and release the selection with
  `free`, which may retain the connection. Two owners, two connections, two
  selections each, allocations that fail. `PeersExact`: an open socket has one
  owner that will close it, an idle one calls into no request and logs where its
  owner does (or, while it is attached and still idle, where it did before), a
  selection is released once.

## Requests: `MCRequests`

1,881,558 states. Behaviours stop when the request is gone.

* `RequestHold`: contexts keep a request alive by a hold, turned into a
  continuation for one terminal operation; all of it, and nginx's references, is
  one 16-bit count. `Documented` restricts the two operations that give their
  reference up before they enter nginx to where the documentation allows them.
  Two holders on the main request and one on a subrequest, a count up to 5 with a
  reserve of 2. `CountExact`: each reference has one owner; `HeldRequestLives`: a
  request is not freed under a hold unless it was terminated.
* `RequestContext`: module contexts, the registry that finds contexts whose slot
  nginx cleared, callbacks that nest, redirects, and client-body reads told apart
  by a generation. Three contexts, two slots, one redirect, depth two.
  `ContextsExact`: no slot shows a destroyed context, one live context per slot,
  each destroyed once and before the registry, a body handler runs for the request
  that started the read.
* `RequestBody`: an `ngx_list_t` is modelled with its inline part and its `last`
  pointer, since copying the structure is where lists go wrong. Three header
  names, lengths 0, 12 and 20 against a largest `usize` of 31 and `off_t` of 15,
  so that both limits are met. `FramingMatchesBody`: the framing headers spell the
  length of the body, or there are none, which happens only after a commit whose
  push failed (`torn`, see Findings); and a subrequest reads its parent's headers
  without changing them.
* `TempFile`: handles, pool generations, descriptors given out lowest first. Two
  handles, two requests of one pool, two pools at one address, offsets up to 3.
  `ReadsBack`: a file
  buffer reads what was written, from a file of its own pool, and each descriptor
  is closed by its one owner.
* `UpstreamPeer`: three handlers wrap one another around nginx's balancer, with a
  generation that wraps after 2. `PeerExact`: none is taken twice, freed twice or
  left behind.

## Tasks: `MCTasks`

52,968 states; here deadlock is checked, and liveness.

* `LocalTask`: the handle of a task against its runner and two foreign threads that
  cancel or fail it; two contexts poll. `NoLostWake`: when the task has ended, the
  waiting context was woken or is about to be. `TaskEnds`: a wait is answered and a
  dropped handle ends its task, except a task that a failed notification missed
  (`FailMissed`, the finding `scheduler_failure`). Fairness: the worker and the
  wakes of foreign threads go on; the scheduler drops the runner of a task that is
  no longer active and polls a woken context (what `scheduler_liveness` shows).
* `Resolver`: nginx's context belongs to an owner in a pool and shares its result
  with a future; answers come inside the call that starts it, later, or never, and
  pool and future each may go first. Two names. `ResolutionsExact`: a context goes
  back once, what nginx may call exists, an awaited resolution ends. Fairness:
  polls, and nginx calls the handler (a resolver context has a timeout).
* `Sleep`: the future on its timer and nginx's wrapping clock, half range 4, so
  that the longer of the durations (all below three seconds of 3 ms) take several
  steps; every clock value at the start; a loop that is late by up to 1 ms; two
  tasks polling. `SleepsExact`: it lasts long enough by nginx's clock, its steps
  fit, and it ends whichever task polled last. Fairness: the clock advances, timers
  expire, the woken task is polled. How late the loop may be must stay below half
  the clock's range, about 24 days with 32 bits.
* `AsyncRequest`: the task stores its output and posts an event, which gives the
  hold up and posts the request; the handler nginx then calls takes the output.
  Dropping the context drops event and hold and only requests the cancellation of
  the task, which may be in the batch the scheduler is running. A main request and
  a subrequest, two runs each, three references, futures that do not end the
  request themselves (`TasksTerminate = FALSE`). `HandlersExact`: event and
  reference end with the context; a future polled after that delivers nothing, and
  none is polled once the pool is gone; the output is on its way until then, the
  run finishes unless its task is lost to a scheduler that stops or fails (it then
  keeps its reference until nginx ends the context). A poll that stays pending
  changes nothing and is left out. Fairness: futures that are not lost complete,
  the loop serves its scheduler, posted events and posted requests.
* `Subrequest`: a handler in a cell of the parent's pool, a guard in the handler
  that answers the future whatever ends it. Two subrequests, two tasks, each
  finalised up to twice. `SubrequestsExact`: the handler is consumed once, its value
  is the future's, nothing runs for a dropped future, every other future is
  answered. Fairness: polls, handlers return, and the parent's pool is destroyed at
  last.

## Memory: `MCMemory`

1,461,656 states, those of the reader-writer lock above included. Behaviours may
stop: a worker dies, a pool is destroyed.

* `Slab`: zones and layouts at and beyond the edges of an address space of sixteen
  bytes, a worker that dies with the mutex. `RegionsExact`: nothing leaks or
  overlaps, the checked range is the one inside the mapping.
* `SlabQueue`: every pointer write of an operation is a state a dying worker may
  leave. Four entries, two deaths. `QueueExact`: it is a queue, and damage is
  neither spread nor iterated wrongly; front and back are the ends of an iteration.
* `RbTree`: the map and the slab tree over trees of any shape (nginx rebalances as
  it likes), with keys that collide. `TreesExact`: find, list and free exactly what
  was inserted, without false alarms.
* `SharedDict`: each operation on tree, queue, zone and count is a step, faults and
  a death fall between them: two faults, so that the step that undoes a failed one
  can fail too. Until a worker dies or such a rollback fails (`broken`) it is
  `SharedDictSpec`'s map; nothing ever dangles, and what is listed is found
  (`ImplementsMap`). One
  worker at a time has the lock, so one worker, replaced when it dies, is enough. A
  worker that dies inside a tree or queue operation of nginx is left to
  `SlabQueue`.
* `PoolAllocator`: bump pointer, resizing in place, large blocks, and the heap.
  `DataKept`: written data stays, at aligned addresses in a chunk of its own.
* `BufferView`: any combination of an `ngx_buf_t`'s fields over small ranges.
  An append trusts the buffer's own pointers, and `capacity` wraps where they are
  not in order. `ContentExact`: it reads as the bytes it was cut and filled with;
  memory and file are consumed in step.
* `NativeList`: any graph of up to three parts. `ListExact`: an accepted list ends
  and is iterated completely.

## Modules and the build: `MCModules`

2,066,180 states.

* `ModuleConfiguration`: three modules over two cycles, the second loaded while the
  first serves and with other indices. `ReadsItsOwn`: a lookup finds the asked
  module's value of the asked cycle or nothing.
* `HttpVariables`: nested evaluation, indices kept over a reload, values at the
  limit of the 28-bit length. `ReadsWhatWasAsked`.
* `StreamSession`: two sessions, two modules, two contexts, variables of one byte.
  `OwnedUntilDropped`: contexts live as long as what reaches them and are dropped
  once, and a value's bytes are in the pool of the session its handler named.
* `UpstreamInit`: two handlers replace the initialisers of two upstreams and call
  what they replaced. `OwnersKept`: chains end at nginx's, act for their upstream,
  and report a peer only when it is ready.
* `ProxyProtocol`: TLVs as bytes, limits scaled down; nginx stores the texts of a
  version 1 header unread, and the endpoints of one with TLVs are of one family.
  `LookupExact`: metadata reads as attached unless such a text is no address, and a
  lookup finds the first entry or reports the truncated one it meets.
* `SourceCache`: two builds with the same process id share the cache, one step per
  system call, which may fail (renames and markers too), a kill anywhere, any first
  content. `SourceExact`: a
  build extracts whole, verified archives only. This needs every build to verify
  (one without gpg publishes what it downloaded), and that the extraction directory
  is one build's own, which cargo's lock gives.
* `BuildFlags`: the Makefile's words, up to four flags and five link words; the
  objects are the dependencies of the binary's rule, the rest is its link command,
  and an object without a source stops the build.
  `ObjectsOnce`: each object and archive is linked once, in nginx's way, with its
  flags.

## What is proved

TLAPS proves the following for every value of the constants that satisfies the
named assumption of the component's module. TLC evaluates the assumptions in the
runs: as an `ASSUME` of the module, or, for a component that a suite instantiates,
as an `ASSUME` of the suite about the constants it gives (the theorem then has the
assumption as a hypothesis).

The scheduler and its tasks:

* `SchedulerProofs` and `SchedulerOwnership` (any finite set of tasks, any threads,
  at least one possible lease). `TypeCorrect`; `NoLostWakeup`, that is
  `WorkIsAnnounced`, which becomes inductive with one fact about the flag
  (`AnnounceInv`): while the scheduler runs, a set `notification_pending` stands for
  a datagram that is unread, being read or being sent. `Ownership`: `OwnershipInv`
  is the conjunction of `OneRunnable`, `LiveTasksExact`, `FutureInv` (a closed
  future has a runnable, an open one a registered handle), `ControlInv` (what the
  worker has in hand at each place) and `StopInv` (shutdown first empties the
  registry). Each needs the others: a future can only be dropped by the owner of its
  runnable, and the count stays exact only if it is dropped once.
  `OneRunnablePerTask`, `LiveTasksAlwaysExact`, `HandoffsAlwaysArrive`,
  `StoppedAlwaysEmpty` and the action property `VerdictsAreFinal` follow.
* `TaskProofs`. `WorkerLease` (any finite set of leases): `CountAlwaysExact`,
  `OneAlwaysRunning`, `LeaseAlwaysKeeps`, `FinalAtMostOnce`. The invariant relates
  the slots, the phases and the active scheduler (`SlotInv`, `PhaseInv`), and says
  that the release of a last lease is of the active scheduler, which has no lease
  then (`ReleaseInv`), so that one thread at most is in one (`ReleasesAlone`).
  `LocalTask` (any contexts and threads): `NoWakeIsLost`, `AnswerAlwaysVerdict`,
  `AnswersAtMostOnce`, `OutputAlwaysKept`. The invariant says what the handle, the
  runner and the stored result are at every place of the worker (`HandleInv`,
  `ResultInv`) and where the wake of a waiter is (`WakeInv`).

The futures a task awaits, in `FutureProofs`:

* `Subrequest` (any subrequests and tasks): `SubrequestsAlwaysSafe`, and the action
  property `NeverWorksForTheDropped`. The invariant has nginx's side of a subrequest
  (`HandlerOK`: the closure is in the cell exactly while the subrequest runs, and is
  dropped exactly once) and the future's (`FutureOK`). What ties them is that a
  pending future has its answer as soon as the closure is gone, and until then its
  waker is its owner's or the owner is about to poll.
* `Sleep` (any range of the clock and of its units): `SleepsAlwaysSafe`. What the
  polls have taken off `remaining` has gone by on the clock, and an armed timer's
  key is, for some number of turns of the clock, an instant that is not before the
  end of the armed step and is less than half the range ahead (`Deadline`). Half a
  range has room for no second turn, so that nginx's signed comparison of the key
  with the clock means what it says (`NoMultipleBetween`, `HasPassed`). Rounding is
  `CeilCovers`.
* `Resolver` (any names): `ResolutionsAlwaysSafe`. nginx has the context exactly
  while the completion is pending, and then the owner is pooled, linked and shared
  with a pending future (`ResOK`).

Events, in `EventProofs`:

* `PostedEvent` (any events): `DroppedAlwaysGone`, `Refinement` of `OwnedCallback`.
  The invariant adds `HandlerInv`: `callback_alive` is set exactly on the event of
  the running handler, and `alive` says whether that event exists; without it the
  destructor could not know who has the values.
* `Timer` (any timers): `TimersAlwaysExact`, the whole of `TimersExact`. The
  invariant adds the same for timers (`TimerHandlerInv`) and, for callbacks that do
  not use their own timer's owner, that the control knows of the expiry what the
  flag will say (`ControlInv`).
* `EventPeer` (any peers and connections): `PeersAlwaysExact`, the whole of
  `PeersExact`. Peers and connections name each other (`OwnerInv`), and the calls of
  `free` and the selections in hand add up to the successful calls of `get`
  (`CallbackInv`; only an inequality where `Reconnects` holds). `OwnerInv` also says
  what an idle connection keeps of its request (at most the log, if it was
  attached).

Memory, requests and the build:

* `SharedProofs`. `RwLock` (fewer processes than the word counts):
  `WordAlwaysExact`, `MutualExclusion`, `Refinement` of `RwLockSpec`. The invariant
  adds that a process about to compare-exchange did not load `WLOCK`. `Slab` (any
  zone, layouts and workers): `RegionsAlwaysExact`, the whole of `RegionsExact`. The
  invariant says who has the mutex and what it is initialising (`Control`), that
  every region passes `check_region` (`Checked`), and that the blocks lie apart and
  each is the block of one region or was lost with a worker that died (`Matched`);
  only the last makes "nothing leaks" inductive.
* `RequestHoldProofs` (finitely many holders, any width of the count, a reserve that
  covers nginx's references): `CountAlwaysExact` and `HeldRequestAlwaysLives` where
  `Documented` holds, `CountAlwaysFits`, `ContinuationAlwaysKeeps`. The invariant is
  that a living request's count covers native references, holds and continuations
  (`Covers`), exactly them unless it was terminated, that a freed one has none, and
  that only an open continuation has a reference (`OpenInv`).
  `AsyncRequest` (any requests of one count, any number of runs):
  `HandlersAlwaysSafe`, with `TasksTerminate` of either value. A run whose context
  exists holds the request until it has posted it, which it does only with its
  output; of any other run a canceled future may be left and nothing else
  (`Sound`); and the run in a slot has its event queued or its request posted once
  there is an output (`Shown`). The count is nginx's own references and one for
  each run that holds, which the proof splits into those of the request that moves
  and those of the others.
* `SourcePeerProofs`. `SourceCache` (any number of builds, with failing file
  operations): `SourceAlwaysExact`, the whole of `SourceExact`. The invariant says
  what a build has staged and unpacked at each of its places (`BuildOK`), that
  staged files are on disk and belong to one build (`HeldOK`), and, if all builds
  verify, that whatever is about to be published, unpacked or marked is the signed
  archive (`TrustOK`). `UpstreamPeer` (any number of handlers, any wrap of the
  generation): `PeerAlwaysExact`, the whole of `PeerExact`. Calls nest as the
  handlers wrap one another: a getter that runs has no selection, and only the
  innermost has called what it replaced (`Nested`); what lies inside a call agrees
  with what the call was told (`Agree`, `Waiting`).

Only model-checked: every liveness property (TLAPS does not prove liveness under
fairness), and the components without an entry in the last column of the table.
`RbTree`, `NativeList`, `ProxyProtocol` and `BuildFlags` compute with recursive
definitions over data, for which the provers have no induction. The others have no
proof yet; their instances are chosen to meet the edges.

## Findings

Four runs are expected to fail. Each states what a document or test says and
shows a behaviour of the code that differs.

* `scheduler_failure` (`FailureIsTerminal`): the tests say that a failed
  notification gives every task a verdict. `process()` took a requested
  cancellation and untracked its task while a foreign thread held the runnable;
  that thread's notification then fails, `fail_live_tasks` does not see the task,
  and it stays `CancelRequested` until the last lease is released.
* `posted_reentrant` (`ShutdownIsPermanent`): a shutdown through the owner, inside
  the callback, is undone by the flags written back after it.
* `request_holds_of_others` (`HeldRequestLives`, `Documented = FALSE`):
  `finalize_after_output` releases early whenever the count exceeds one. When the
  other reference is another context's hold, the request is freed under it.
* `body_replaced_atomically` (`ReplacedAtomically`): the builder is for "atomically
  replacing an HTTP request body and its framing" (`http/request/body.rs:343`). The
  old framing headers are disabled before the new one is pushed (426-427); when the
  push fails, the old body is left without them.

Further disagreements met while modelling; the models contain them, under a
constant or in a variable, and no run is about them:

* a timer whose callback uses its own owner (`Reentrant`): the write-back at
  `event/timer.rs:352` can report an expiry that was observed (documented at 152);
* `EventPeer` connecting again with a selected peer (`Reconnects`):
  `event/peer/connection.rs:268` against 225 and 350; and `into_keepalive`, which
  leaves a connection idle when the preparation fails (`keepalive.rs:169` against
  223);
* a wait without a timeout of its own can report one: the timed-out bit that
  nginx's timer left on the event ends it (`event/readiness.rs:62` against the test
  `event/peer/readiness_tests.rs:823`);
* dropping the context of an asynchronous handler requests the cancellation of its
  task; the future is dropped when the scheduler next processes, which can be after
  the pool is gone (`http/async_request.rs:93`, "before nginx releases the request
  pool"; `TasksTerminate` is the case in which it is polled after that);
* the setter of a stream variable takes bytes of the pool of the session it is
  given, and nothing ties that session to the one being evaluated
  (`stream/variable.rs:186`);
* `capacity` of a buffer whose `end` is null wraps (`core/buffer.rs:149`; such a
  buffer is in the test at 879);
* in the shared dictionary, a rollback that fails leaves tree and queue different
  (`examples/shared_dict.rs:459`, 472, 503; the variable `broken`);
* `ProxyProtocolError::TransportMismatch` is also the answer for Unix sockets
  (`core/connection/proxy_protocol.rs:237` against 29).

## Not modelled

* Borrowed events: views of an event nginx owns; each method is a flag test and a
  call of nginx. Their use by owners with state is in `PostedEvent`, `Timer` and
  `Readiness`.
* Filters: a pair is prepared and installed once, by one thread, while a
  configuration is loaded, with no state afterwards.
* Pool cleanups of values, chains of links and retained file descriptors:
  sequential, in list order, with the state in nginx.
* Arrays, hashes and the owner of a queue of boxes: the state is nginx's; the links
  of that queue are `SlabQueue`'s.
* Connection I/O: one call of the connection's own function and a classification of
  its result. Field accessors and socket addresses likewise.
* Output headers, methods, status values, and the walk from a request to its main
  request: views of nginx's structures.
* In the build: paths inside an archive, the record of the last configuration,
  bindgen, and the C text of test wrappers. gpg, configure and make are external.
* Examples other than the shared dictionary: what they keep between calls is what
  the library's modules model.
* Core values, logging, string conversion, and the inline equivalents of nginx's
  macros in `nginx-sys`, which appear through the models of their callers.
* Inside modelled parts: malformed native structures that the code rejects at once
  (null or misaligned pointers, unknown statuses), calls from a wrong thread,
  allocation failures that leave nothing behind, and in `LocalTask` the branch for a
  scheduler that is gone (its tasks have ended). So too the error of
  `readiness_parts`, which an owned connection never meets, the errors of
  `resume_phase` other than a missing second reference, and the rejected request
  pointer in the completion callback of a subrequest.
