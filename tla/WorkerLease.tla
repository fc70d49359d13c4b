----------------------------- MODULE WorkerLease -----------------------------
(***************************************************************************)
(* Who owns the scheduler of a worker (acquire_worker and                  *)
(* release_worker_lease of src/src/async_/spawn/scheduler.rs).             *)
(*                                                                         *)
(* A process has one active scheduler (ACTIVE_SCHEDULER); every thread has *)
(* a slot for its own (WORKER_SCHEDULER).  The modules of a worker share   *)
(* one scheduler and hold a lease each; the last release stops it, and a   *)
(* later acquire makes a new one, a generation.  The release of the last   *)
(* lease drops tasks, so user code runs inside it: it may acquire and      *)
(* release again before the outer release is over.  Inside process() a     *)
(* release is refused, and a lease dropped there is gone but still         *)
(* counted.  What Scheduler models is one generation here, a phase.        *)
(***************************************************************************)
EXTENDS Integers, FiniteSets

CONSTANTS
    Threads,        \* threads that run an nginx event loop in this process
    Leases,         \* lease objects, each acquired at most once
    MaxGenerations  \* bound on the schedulers made

ASSUME LeaseAssumption == IsFiniteSet(Leases) /\ MaxGenerations \in Nat

VARIABLES
    slot,           \* WORKER_SCHEDULER of every thread: a generation, or 0
    count,          \* WorkerScheduler::leases of the scheduler in the slot
    phase,          \* the phase of every generation made so far
    active,         \* ACTIVE_SCHEDULER: a generation, or 0
    lease,          \* every lease object: its thread, generation and state
    processing,     \* the thread is inside process()
    releasing,      \* where the thread is in the release of a last lease
    finals          \* how often a release of the generation returned Ok(true)

vars == <<slot, count, phase, active, lease, processing, releasing, finals>>

Generations == 1..MaxGenerations
Made == {g \in Generations : phase[g] # "None"}
Unused == [thread |-> 0, gen |-> 0, state |-> "unused"]
NotReleasing == [gen |-> 0, at |-> "no"]

\* Leases the count of generation g stands for.
Counted(g) == {l \in Leases : lease[l].gen = g /\ lease[l].state \in {"held", "leaked"}}

TypeOK ==
    /\ slot \in [Threads -> 0..MaxGenerations]
    /\ count \in [Threads -> 0..Cardinality(Leases)]
    /\ phase \in [Generations -> {"None", "Running", "Stopping", "Stopped"}]
    /\ active \in 0..MaxGenerations
    /\ \A l \in Leases : lease[l].state \in {"unused", "held", "released", "leaked"}
    /\ processing \in [Threads -> BOOLEAN]
    /\ \A th \in Threads : releasing[th].at \in {"no", "drain", "reap"}
    /\ \A g \in Generations : finals[g] \in 0..2
    /\ \A th \in Threads : processing[th] => phase[slot[th]] # "Stopped"

Init ==
    /\ slot = [th \in Threads |-> 0] /\ count = [th \in Threads |-> 0]
    /\ phase = [g \in Generations |-> "None"] /\ active = 0
    /\ lease = [l \in Leases |-> Unused]
    /\ processing = [th \in Threads |-> FALSE]
    /\ releasing = [th \in Threads |-> NotReleasing]
    /\ finals = [g \in Generations |-> 0]

-----------------------------------------------------------------------------
Held(th, l, g) == lease' = [lease EXCEPT ![l] = [thread |-> th, gen |-> g, state |-> "held"]]

\* acquire_worker on a thread whose scheduler accepts tasks (check_spawn).
Share(th, l) ==
    /\ lease[l].state = "unused"
    /\ slot[th] # 0 /\ phase[slot[th]] = "Running"
    /\ count' = [count EXCEPT ![th] = @ + 1]
    /\ Held(th, l, slot[th])
    /\ UNCHANGED <<slot, phase, active, processing, releasing, finals>>

\* The slot may be filled: it is empty, or its scheduler is stopped and has
\* no lease left, and is dropped before anything else can fail.
Vacant(th) == slot[th] # 0 => phase[slot[th]] = "Stopped" /\ count[th] = 0

MayActivate == active = 0

Create(th, l) ==
    \E g \in Generations \ Made :
        /\ g = Cardinality(Made) + 1
        /\ lease[l].state = "unused"
        /\ Vacant(th) /\ MayActivate
        /\ phase' = [phase EXCEPT ![g] = "Running"]
        /\ active' = g
        /\ slot' = [slot EXCEPT ![th] = g]
        /\ count' = [count EXCEPT ![th] = 1]
        /\ Held(th, l, g)
        /\ UNCHANGED <<processing, releasing, finals>>

\* acquire_worker that fails after it took the stopped scheduler out: the
\* process has an active scheduler still, or the channel cannot be opened.
CreateFails(th) ==
    /\ Vacant(th) /\ slot[th] # 0
    /\ slot' = [slot EXCEPT ![th] = 0]
    /\ count' = [count EXCEPT ![th] = 0]
    /\ UNCHANGED <<phase, active, lease, processing, releasing, finals>>

-----------------------------------------------------------------------------
Own(th, l) == lease[l].state = "held" /\ lease[l].thread = th

\* release_worker_lease counts the lease down: its scheduler is the thread's,
\* is not processing, and the count is not 0.  A release that is refused
\* changes nothing.
Refused(th, l) ==
    \/ slot[th] # lease[l].gen
    \/ processing[th]
    \/ count[th] = 0

Stopping(g) == [phase EXCEPT ![g] = IF @ = "Running" THEN "Stopping" ELSE @]

\* Mutation: the first release stops the scheduler.
LastReleaseFirst(th) == count[th] >= 1

LastRelease(th) == count[th] = 1

Release(th, l) ==
    /\ Own(th, l) /\ ~Refused(th, l)
    /\ lease' = [lease EXCEPT ![l].state = "released"]
    /\ count' = [count EXCEPT ![th] = @ - 1]
    /\ IF LastRelease(th)
       THEN /\ phase' = Stopping(slot[th])
            /\ releasing' = [releasing EXCEPT ![th] = [gen |-> slot[th], at |-> "drain"]]
       ELSE UNCHANGED <<phase, releasing>>
    /\ UNCHANGED <<slot, active, processing, finals>>

\* Drop of a lease whose release is refused: the error is ignored.
DropRefused(th, l) ==
    /\ Own(th, l) /\ Refused(th, l)
    /\ lease' = [lease EXCEPT ![l].state = "leaked"]
    /\ UNCHANGED <<slot, count, phase, active, processing, releasing, finals>>

\* The tasks are dropped and handed off, user code included; then
\* finish_shutdown.
FinishShutdown(th) ==
    LET g == releasing[th].gen IN
    /\ releasing[th].at = "drain"
    /\ phase' = [phase EXCEPT ![g] = IF @ = "Stopping" THEN "Stopped" ELSE @]
    /\ releasing' = [releasing EXCEPT ![th].at = "reap"]
    /\ UNCHANGED <<slot, count, active, lease, processing, finals>>

\* Mutation: the scheduler stays the active one of the process.
ClearNothing(g) == active

ClearActiveScheduler(g) == IF active = g THEN 0 ELSE active

\* The completed tasks are reaped, user code included; then the scheduler is
\* no longer the active one and release returns Ok(true).
Reaped(th) ==
    LET g == releasing[th].gen IN
    /\ releasing[th].at = "reap"
    /\ active' = ClearActiveScheduler(g)
    /\ finals' = [finals EXCEPT ![g] = @ + 1]
    /\ releasing' = [releasing EXCEPT ![th] = NotReleasing]
    /\ UNCHANGED <<slot, count, phase, lease, processing>>

-----------------------------------------------------------------------------
\* The event loop runs process(); the scheduler fails (a lost notification).
BeginProcess(th) ==
    /\ slot[th] # 0 /\ releasing[th].at = "no"
    /\ ~processing[th] /\ phase[slot[th]] = "Running"
    /\ processing' = [processing EXCEPT ![th] = TRUE]
    /\ UNCHANGED <<slot, count, phase, active, lease, releasing, finals>>

EndProcess(th) ==
    /\ processing[th]
    /\ processing' = [processing EXCEPT ![th] = FALSE]
    /\ UNCHANGED <<slot, count, phase, active, lease, releasing, finals>>

Fail(g) ==
    /\ phase[g] = "Running"
    /\ phase' = Stopping(g)
    /\ UNCHANGED <<slot, count, active, lease, processing, releasing, finals>>

ReleaseStep(th) == FinishShutdown(th) \/ Reaped(th)

Next ==
    \/ \E th \in Threads :
        \/ \E l \in Leases : Share(th, l) \/ Create(th, l) \/ Release(th, l) \/ DropRefused(th, l)
        \/ CreateFails(th)
        \/ ReleaseStep(th)
        \/ BeginProcess(th) \/ EndProcess(th)
    \/ \E g \in Made : Fail(g)

Spec == Init /\ [][Next]_vars

\* A release that has begun to stop its scheduler goes on to its end.
FairSpec == Spec /\ \A th \in Threads : WF_vars(ReleaseStep(th))

-----------------------------------------------------------------------------
\* The count of a worker's scheduler is the number of its leases that are
\* held, or were dropped inside process() and so can never be released.
CountExact ==
    \A th \in Threads : slot[th] # 0 => count[th] = Cardinality(Counted(slot[th]))

\* A process has at most one scheduler that accepts tasks, whatever threads
\* acquire and release: the active one, owned by the thread whose slot it is.
OneRunning ==
    \A g \in Made : phase[g] = "Running" => active = g /\ \E th \in Threads : slot[th] = g

\* A lease that is held, or was lost inside process(), keeps its scheduler
\* from being stopped, through releases of others and nested acquires.
LeaseKeepsScheduler == \A g \in Made : Counted(g) # {} => phase[g] # "Stopped" /\ active = g

\* "Ok(true) only when this was the final lease and the scheduler was
\* stopped": one release per scheduler says so, and after it none is held.
FinalOnce ==
    \A g \in Made : finals[g] > 0 =>
        finals[g] = 1 /\ phase[g] = "Stopped" /\ Counted(g) = {}

\* When every lease was released the process can have a new scheduler: the
\* old one stops being active.  (A lease lost inside process() prevents it.)
ReleasedIsReplaced ==
    \A g \in Generations : (phase[g] # "None" /\ Counted(g) = {}) ~> active # g
=============================================================================
