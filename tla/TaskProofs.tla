----------------------------- MODULE TaskProofs ------------------------------
(***************************************************************************)
(* Proofs about the owners of a worker's scheduler and of a spawned task.  *)
(*                                                                         *)
(* WorkerLease, for any threads and any finite set of leases: the count is *)
(* exact, a process has one scheduler that runs, a lease keeps its         *)
(* scheduler, and one release is the final one.                            *)
(*                                                                         *)
(* LocalTask, for any contexts and threads: no wakeup is lost, the handle  *)
(* answers once, with the verdict of the task control, and an output is    *)
(* kept until it is taken.                                                 *)
(***************************************************************************)
EXTENDS WorkerLease, FiniteSetTheorems, TLAPS

LeaseStates == {"unused", "held", "released", "leaked"}

\* The types the argument needs.
Types ==
    /\ slot \in [Threads -> 0..MaxGenerations]
    /\ count \in [Threads -> Nat]
    /\ phase \in [Generations -> {"None", "Running", "Stopping", "Stopped"}]
    /\ active \in 0..MaxGenerations
    /\ lease \in [Leases -> [thread : Threads \cup {0}, gen : 0..MaxGenerations, state : LeaseStates]]
    /\ processing \in [Threads -> BOOLEAN]
    /\ releasing \in [Threads -> [gen : 0..MaxGenerations, at : {"no", "drain", "reap"}]]
    /\ finals \in [Generations -> Nat]

\* A scheduler is in one slot, and a counted lease is of the scheduler in the
\* slot of its own thread.
SlotInv ==
    /\ \A th \in Threads : slot[th] # 0 => slot[th] \in Made
    /\ \A th, ot \in Threads : slot[th] = slot[ot] /\ slot[th] # 0 => th = ot
    /\ \A l \in Leases : lease[l].state \in {"held", "leaked"} =>
        lease[l].thread \in Threads /\ lease[l].gen \in Made /\ slot[lease[l].thread] = lease[l].gen

\* A scheduler that runs is leased; a leased one is active and not stopped.
PhaseInv ==
    \A g \in Generations :
        /\ phase[g] = "Running" => Counted(g) # {}
        /\ Counted(g) # {} => phase[g] \in {"Running", "Stopping"} /\ active = g
        /\ finals[g] > 0 => finals[g] = 1 /\ phase[g] = "Stopped" /\ active # g

\* The release of a last lease is the only one in progress: its scheduler is
\* still the active one, without a lease.
ReleaseInv ==
    \A th \in Threads : releasing[th].at # "no" =>
        /\ releasing[th].gen \in Made /\ active = releasing[th].gen
        /\ Counted(releasing[th].gen) = {}
        /\ phase[releasing[th].gen] = IF releasing[th].at = "drain" THEN "Stopping" ELSE "Stopped"

\* At most one thread is in a release: both would be of the active scheduler.
ReleasesAlone ==
    \A th, ot \in Threads : releasing[th].at # "no" /\ releasing[ot].at # "no" => th = ot

IInv == Types /\ SlotInv /\ PhaseInv /\ ReleaseInv /\ ReleasesAlone /\ CountExact

\* The leases a count stands for are finitely many.
LEMMA CountedFinite ==
    \A g : /\ IsFiniteSet(Counted(g)) /\ Cardinality(Counted(g)) \in Nat
           /\ Cardinality(Counted(g)) = 0 <=> Counted(g) = {}
<1>1. \A g : IsFiniteSet(Counted(g))
  BY LeaseAssumption, FS_Subset DEF Counted
<1> QED
  BY <1>1, FS_CardinalityType, FS_EmptySet

\* The empty set has no elements to count.
LEMMA NothingCounted == Cardinality({}) = 0
BY FS_EmptySet

\* A lease that is acquired is counted for its scheduler and for no other.
LEMMA CountedGrows ==
    ASSUME Types, NEW th \in Threads, NEW l \in Leases, NEW g \in Generations,
           lease[l].state = "unused", Held(th, l, g)
    PROVE  /\ \A h \in Generations : Counted(h)' = IF h = g THEN Counted(g) \cup {l} ELSE Counted(h)
           /\ Cardinality(Counted(g)') = Cardinality(Counted(g)) + 1
<1>1. \A h \in Generations : Counted(h)' = IF h = g THEN Counted(g) \cup {l} ELSE Counted(h)
  BY DEF Types, Counted, Held
<1>2. l \notin Counted(g)
  BY DEF Counted
<1> QED
  BY <1>1, <1>2, CountedFinite, FS_AddElement

\* A lease that is released is no longer counted.
LEMMA CountedShrinks ==
    ASSUME Types, NEW l \in Leases, NEW g \in Generations, lease[l].gen = g,
           lease[l].state = "held", lease' = [lease EXCEPT ![l].state = "released"]
    PROVE  /\ \A h \in Generations : Counted(h)' = IF h = g THEN Counted(g) \ {l} ELSE Counted(h)
           /\ l \in Counted(g)
           /\ Cardinality(Counted(g)') = Cardinality(Counted(g)) - 1
           /\ Counted(g)' = {} <=> Cardinality(Counted(g)) = 1
<1>1. \A h \in Generations : Counted(h)' = IF h = g THEN Counted(g) \ {l} ELSE Counted(h)
  BY DEF Types, Counted, LeaseStates
<1>2. l \in Counted(g)
  BY DEF Counted
<1>3. /\ IsFiniteSet(Counted(g) \ {l})
      /\ Cardinality(Counted(g) \ {l}) = Cardinality(Counted(g)) - 1
  BY <1>2, CountedFinite, FS_RemoveElement
<1>4. Counted(g) \ {l} = {} <=> Cardinality(Counted(g)) = 1
  <2>1. Cardinality(Counted(g) \ {l}) = 0 <=> Counted(g) \ {l} = {}
    BY Zenon, <1>3, FS_EmptySet
  <2> QED
    BY <1>3, <2>1, CountedFinite
<1> QED
  BY <1>1, <1>2, <1>3, <1>4

\* The invariant holds of a process without a scheduler.
LEMMA InitHolds == Init => IInv
<1> SUFFICES ASSUME Init PROVE IInv
  OBVIOUS
<1>1. Types
  BY LeaseAssumption DEF Init, Types, Unused, NotReleasing, LeaseStates, Generations
<1>2. \A g : Counted(g) = {}
  BY DEF Init, Counted, Unused
<1> QED
  BY <1>1, <1>2 DEF Init, IInv, SlotInv, PhaseInv, ReleaseInv, ReleasesAlone, CountExact,
     Made, Unused, NotReleasing

\* An action that leaves the leases alone leaves what they count alone.
LEMMA CountedSame == lease' = lease => \A g : Counted(g)' = Counted(g)
BY DEF Counted

\* acquire_worker that shares the scheduler of the thread.
LEMMA ShareHolds ==
    ASSUME IInv, NEW th \in Threads, NEW l \in Leases, Share(th, l) PROVE IInv'
<1> USE LeaseAssumption DEF IInv, Generations
<1>1. slot[th] \in Generations /\ slot[th] \in Made
  BY DEF Share, Types, SlotInv, Made
<1>2. /\ \A h \in Generations : Counted(h)' = IF h = slot[th] THEN Counted(slot[th]) \cup {l} ELSE Counted(h)
      /\ Cardinality(Counted(slot[th])') = Cardinality(Counted(slot[th])) + 1
  BY <1>1, CountedGrows DEF Share
<1>3. Types'
  BY SMTT(30), <1>1 DEF Share, Held, Types, LeaseStates
<1>4. SlotInv'
  BY <1>1 DEF Share, Held, Types, SlotInv, Made, LeaseStates
<1>5. PhaseInv'
  BY ZenonT(30), <1>1, <1>2 DEF Share, Types, PhaseInv
<1>6. ReleaseInv' /\ ReleasesAlone'
  BY ZenonT(30), <1>1, <1>2 DEF Share, Types, ReleaseInv, ReleasesAlone, PhaseInv, Made
<1>7. CountExact'
  BY SMTT(30), <1>1, <1>2 DEF Share, Types, CountExact, SlotInv, Made
<1> QED
  BY <1>3, <1>4, <1>5, <1>6, <1>7

\* acquire_worker that makes a scheduler.
LEMMA CreateHolds ==
    ASSUME IInv, NEW th \in Threads, NEW l \in Leases, Create(th, l) PROVE IInv'
<1> USE LeaseAssumption DEF IInv, Generations
<1> PICK g \in Generations \ Made :
      /\ lease[l].state = "unused" /\ Vacant(th) /\ active = 0
      /\ phase' = [phase EXCEPT ![g] = "Running"]
      /\ active' = g
      /\ slot' = [slot EXCEPT ![th] = g]
      /\ count' = [count EXCEPT ![th] = 1]
      /\ Held(th, l, g)
      /\ UNCHANGED <<processing, releasing, finals>>
  BY Zenon DEF Create, MayActivate
<1>1. \A h \in Generations : Counted(h) = {}
  BY DEF PhaseInv, Types
<1>2. /\ \A h \in Generations : Counted(h)' = IF h = g THEN {l} ELSE {}
      /\ Cardinality(Counted(g)') = 1
  <2>1. Cardinality(Counted(g)) = 0
    BY SMTT(30), <1>1, NothingCounted
  <2>2. /\ \A h \in Generations : Counted(h)' = IF h = g THEN Counted(g) \cup {l} ELSE Counted(h)
        /\ Cardinality(Counted(g)') = Cardinality(Counted(g)) + 1
    BY CountedGrows
  <2> QED
    BY <1>1, <2>1, <2>2
<1>3. phase[g] = "None" /\ g # 0
  BY DEF Made, Types
<1>4. \A ot \in Threads : releasing[ot].at = "no"
  BY DEF ReleaseInv, Types, Made
<1>5. Types'
  BY SMTT(30) DEF Held, Types, LeaseStates
<1>6. SlotInv'
  <2>1. \A k \in Leases : lease[k].state \notin {"held", "leaked"}
    BY <1>1 DEF SlotInv, Made, Counted
  <2>2. \A ot \in Threads : slot[ot] # g
    BY <1>3 DEF SlotInv, Made
  <2> QED
    BY SMTT(30), <1>3, <2>1, <2>2 DEF Held, Types, SlotInv, Made, LeaseStates
<1>7. PhaseInv'
  BY Zenon, <1>1, <1>2, <1>3 DEF Types, PhaseInv
<1>8. ReleaseInv' /\ ReleasesAlone'
  BY <1>4 DEF ReleaseInv, ReleasesAlone
<1>9. CountExact'
  <2>1. \A ot \in Threads : ot # th /\ slot[ot] # 0 => Counted(slot[ot])' = {} /\ count[ot] = 0
    <3> SUFFICES ASSUME NEW ot \in Threads, ot # th, slot[ot] # 0
                 PROVE  Counted(slot[ot])' = {} /\ count[ot] = 0
      OBVIOUS
    <3>1. slot[ot] \in Generations /\ slot[ot] # g /\ slot'[ot] = slot[ot]
      BY <1>3 DEF Types, SlotInv, Made
    <3>2. Counted(slot[ot]) = {} /\ count[ot] = Cardinality(Counted(slot[ot]))
      BY <1>1, <3>1 DEF CountExact
    <3> QED
      BY <1>2, <3>1, <3>2, NothingCounted
  <2> QED
    BY Zenon, <1>2, <2>1, NothingCounted DEF CountExact, Types
<1> QED
  BY <1>5, <1>6, <1>7, <1>8, <1>9

\* release of a lease; the last one begins to stop the scheduler.
LEMMA ReleaseHolds ==
    ASSUME IInv, NEW th \in Threads, NEW l \in Leases, Release(th, l) PROVE IInv'
<1> USE LeaseAssumption DEF IInv, Generations
<1>0. lease[l].gen \in Generations /\ lease[l].state = "held"
  BY DEF Release, Own, SlotInv, Made
<1> PICK g \in Generations : g = lease[l].gen
  BY <1>0
<1>1. /\ lease[l].state = "held" /\ lease[l].thread = th
      /\ slot[th] = g /\ g \in Generations /\ g \in Made /\ g # 0 /\ count[th] # 0
  BY DEF Release, Own, Refused, SlotInv, Made
<1>2. /\ \A h \in Generations : Counted(h)' = IF h = g THEN Counted(g) \ {l} ELSE Counted(h)
      /\ l \in Counted(g)
      /\ Cardinality(Counted(g)') = Cardinality(Counted(g)) - 1
      /\ Counted(g)' = {} <=> Cardinality(Counted(g)) = 1
  <2>1. lease' = [lease EXCEPT ![l].state = "released"]
    BY DEF Release
  <2> QED
    BY Zenon, <1>1, <2>1, CountedShrinks
<1>3. count[th] = Cardinality(Counted(g))
  BY <1>1 DEF CountExact
<1>4. active = g /\ phase[g] \in {"Running", "Stopping"}
  BY <1>1, <1>2 DEF PhaseInv
<1>5. \A ot \in Threads : releasing[ot].at = "no"
  BY <1>2, <1>4 DEF ReleaseInv
<1>6. /\ count' = [count EXCEPT ![th] = @ - 1]
      /\ lease' = [lease EXCEPT ![l].state = "released"]
      /\ UNCHANGED <<slot, active, processing, finals>>
  BY DEF Release
<1>7. CountExact'
  BY <1>1, <1>2, <1>3, <1>6 DEF CountExact, Types, SlotInv, Made
<1>8. Made' = Made
  BY <1>1 DEF Release, Stopping, Types, Made
<1>9. SlotInv'
  BY <1>6, <1>8 DEF SlotInv, Types, LeaseStates
<1>10. Types'
  <2>1. phase' \in [Generations -> {"None", "Running", "Stopping", "Stopped"}]
    BY ZenonT(30) DEF Release, Stopping, Types
  <2>2. releasing' \in [Threads -> [gen : 0..MaxGenerations, at : {"no", "drain", "reap"}]]
    <3>1. slot[th] \in 0..MaxGenerations
      BY DEF Types
    <3>2. \/ UNCHANGED releasing
          \/ releasing' = [releasing EXCEPT ![th] = [gen |-> slot[th], at |-> "drain"]]
      BY DEF Release
    <3>3. releasing \in [Threads -> [gen : 0..MaxGenerations, at : {"no", "drain", "reap"}]]
      BY DEF Types
    <3>4. [gen |-> slot[th], at |-> "drain"] \in [gen : 0..MaxGenerations, at : {"no", "drain", "reap"}]
      BY <3>1
    <3> HIDE DEF IInv
    <3> QED
      BY <3>2, <3>3, <3>4
  <2>3. count' \in [Threads -> Nat]
    BY <1>1, <1>6 DEF Types
  <2>4. lease' \in [Leases -> [thread : Threads \cup {0}, gen : 0..MaxGenerations, state : LeaseStates]]
    BY ZenonT(30), <1>6 DEF Types, LeaseStates
  <2> QED
    BY ZenonT(30), <1>6, <2>1, <2>2, <2>3, <2>4 DEF Types
<1>11. CASE count[th] = 1
  <2>1. /\ phase' = [phase EXCEPT ![g] = "Stopping"]
        /\ releasing' = [releasing EXCEPT ![th] = [gen |-> g, at |-> "drain"]]
    BY <1>1, <1>4, <1>11 DEF Release, LastRelease, Stopping, Types
  <2>2. Counted(g)' = {}
    BY <1>2, <1>3, <1>11
  <2>3. PhaseInv'
    BY <1>1, <1>2, <1>4, <1>6, <2>1, <2>2 DEF PhaseInv, Types
  <2>4. ReleaseInv' /\ ReleasesAlone'
    BY <1>1, <1>4, <1>5, <1>6, <1>8, <2>1, <2>2 DEF ReleaseInv, ReleasesAlone, Types
  <2> QED
    BY <1>7, <1>9, <1>10, <2>3, <2>4
<1>12. CASE count[th] # 1
  <2>1. UNCHANGED <<phase, releasing>>
    BY <1>12 DEF Release, LastRelease
  <2>2. Counted(g)' # {}
    BY <1>2, <1>3, <1>12
  <2>3. PhaseInv'
    BY Zenon, <1>1, <1>2, <1>6, <2>1, <2>2 DEF PhaseInv, Types
  <2>4. ReleaseInv' /\ ReleasesAlone'
    BY <1>5, <2>1 DEF ReleaseInv, ReleasesAlone
  <2> QED
    BY <1>7, <1>9, <1>10, <2>3, <2>4
<1> QED
  BY <1>11, <1>12

\* A lease dropped inside process() stays counted.
LEMMA DropRefusedHolds ==
    ASSUME IInv, NEW th \in Threads, NEW l \in Leases, DropRefused(th, l) PROVE IInv'
<1> USE LeaseAssumption DEF IInv, Generations
<1>1. \A h : Counted(h)' = Counted(h)
  BY DEF DropRefused, Own, Counted, Types
<1>2. Types'
  BY ZenonT(30) DEF DropRefused, Types, LeaseStates
<1>3. SlotInv'
  BY DEF DropRefused, Own, SlotInv, Made, Types, LeaseStates
<1>4. PhaseInv' /\ ReleaseInv' /\ ReleasesAlone'
  BY Zenon, <1>1 DEF DropRefused, PhaseInv, ReleaseInv, ReleasesAlone, Types, Made
<1>5. CountExact'
  BY <1>1 DEF DropRefused, CountExact
<1> QED
  BY <1>2, <1>3, <1>4, <1>5

\* acquire_worker that fails after it took a stopped scheduler out.
LEMMA CreateFailsHolds ==
    ASSUME IInv, NEW th \in Threads, CreateFails(th) PROVE IInv'
<1> USE LeaseAssumption DEF IInv, Generations
<1>1. \A h : Counted(h)' = Counted(h)
  BY CountedSame DEF CreateFails
<1>2. Types'
  BY DEF CreateFails, Types
<1>3. slot[th] \in Generations /\ Counted(slot[th]) = {}
  BY Zenon DEF CreateFails, Vacant, Types, PhaseInv, SlotInv, Made
<1>4. \A l \in Leases : lease[l].state \in {"held", "leaked"} => lease[l].thread # th
  BY <1>3 DEF SlotInv, Counted
<1>5. SlotInv'
  BY <1>4 DEF CreateFails, SlotInv, Made, Types
<1>6. PhaseInv' /\ ReleaseInv' /\ ReleasesAlone'
  BY Zenon, <1>1 DEF CreateFails, PhaseInv, ReleaseInv, ReleasesAlone, Types, Made
<1>7. CountExact'
  BY <1>1 DEF CreateFails, CountExact, Types
<1> QED
  BY <1>2, <1>5, <1>6, <1>7

\* finish_shutdown, inside the release of the last lease.
LEMMA FinishShutdownHolds ==
    ASSUME IInv, NEW th \in Threads, FinishShutdown(th) PROVE IInv'
<1> USE LeaseAssumption DEF IInv, Generations
<1>1. \A h : Counted(h)' = Counted(h)
  BY CountedSame DEF FinishShutdown
<1> PICK g \in Generations : g = releasing[th].gen
  BY DEF FinishShutdown, ReleaseInv, Made
<1>2. /\ active = g /\ Counted(g) = {} /\ phase[g] = "Stopping" /\ g \in Made
      /\ \A ot \in Threads : ot # th => releasing[ot].at = "no"
  BY DEF FinishShutdown, ReleaseInv, ReleasesAlone
<1>3. /\ phase' = [phase EXCEPT ![g] = "Stopped"]
      /\ releasing' = [releasing EXCEPT ![th].at = "reap"]
      /\ UNCHANGED <<slot, count, active, lease, processing, finals>>
  BY <1>2 DEF FinishShutdown, Types
<1>4. Types'
  BY <1>3 DEF Types
<1>5. Made' = Made
  BY <1>2, <1>3 DEF Types, Made
<1>6. SlotInv'
  BY <1>3, <1>5 DEF SlotInv
<1>7. PhaseInv'
  BY Zenon, <1>1, <1>2, <1>3 DEF PhaseInv, Types
<1>8. ReleaseInv' /\ ReleasesAlone'
  BY <1>1, <1>2, <1>3, <1>5 DEF ReleaseInv, ReleasesAlone, Types
<1>9. CountExact'
  BY <1>1, <1>3 DEF CountExact
<1> QED
  BY <1>4, <1>6, <1>7, <1>8, <1>9

\* The end of the release: the scheduler is no longer the active one.
LEMMA ReapedHolds ==
    ASSUME IInv, NEW th \in Threads, Reaped(th) PROVE IInv'
<1> USE LeaseAssumption DEF IInv, Generations
<1>1. \A h : Counted(h)' = Counted(h)
  BY CountedSame DEF Reaped
<1> PICK g \in Generations : g = releasing[th].gen
  BY DEF Reaped, ReleaseInv, Made
<1>2. /\ active = g /\ Counted(g) = {} /\ phase[g] = "Stopped" /\ finals[g] = 0
      /\ \A ot \in Threads : ot # th => releasing[ot].at = "no"
  BY SMTT(30) DEF Reaped, ReleaseInv, ReleasesAlone, PhaseInv, Types
<1>3. /\ active' = 0
      /\ finals' = [finals EXCEPT ![g] = @ + 1]
      /\ releasing' = [releasing EXCEPT ![th] = [gen |-> 0, at |-> "no"]]
      /\ UNCHANGED <<slot, count, phase, lease, processing>>
  BY <1>2 DEF Reaped, ClearActiveScheduler, NotReleasing
<1>4. Types'
  BY <1>3 DEF Types
<1>5. SlotInv'
  BY <1>3 DEF SlotInv, Made
<1>6. \A h \in Generations : Counted(h) = {}
  BY <1>2 DEF PhaseInv
<1>7. PhaseInv'
  BY <1>1, <1>2, <1>3, <1>6 DEF PhaseInv, Types
<1>8. ReleaseInv' /\ ReleasesAlone'
  BY <1>2, <1>3 DEF ReleaseInv, ReleasesAlone, Types
<1>9. CountExact'
  BY <1>1, <1>3 DEF CountExact
<1> QED
  BY <1>4, <1>5, <1>7, <1>8, <1>9

\* The steps outside acquire and release: process() and a failure.
LEMMA OtherHolds ==
    ASSUME IInv,
           \/ \E th \in Threads : BeginProcess(th) \/ EndProcess(th)
           \/ \E g \in Made : Fail(g)
           \/ UNCHANGED vars
    PROVE  IInv'
<1> USE LeaseAssumption DEF IInv, Generations
<1>1. \A h : Counted(h)' = Counted(h)
  BY CountedSame DEF BeginProcess, EndProcess, Fail, vars
<1>2. CASE \E th \in Threads : BeginProcess(th) \/ EndProcess(th)
  <2>1. UNCHANGED <<slot, count, phase, active, lease, releasing, finals>>
    BY <1>2 DEF BeginProcess, EndProcess
  <2>2. processing' \in [Threads -> BOOLEAN]
    BY Zenon, <1>2 DEF BeginProcess, EndProcess, Types
  <2>3. Types'
    BY <2>1, <2>2 DEF Types
  <2>4. SlotInv' /\ ReleasesAlone'
    BY <2>1 DEF SlotInv, ReleasesAlone, Made
  <2>5. PhaseInv' /\ CountExact'
    BY <1>1, <2>1 DEF PhaseInv, CountExact
  <2>6. ReleaseInv'
    BY <1>1, <2>1 DEF ReleaseInv, Made
  <2> QED
    BY <2>3, <2>4, <2>5, <2>6
<1>3. CASE \E g \in Made : Fail(g)
  <2> PICK g \in Made : Fail(g)
    BY <1>3
  <2>1. /\ g \in Generations /\ phase[g] = "Running"
        /\ phase' = [phase EXCEPT ![g] = "Stopping"]
        /\ UNCHANGED <<slot, count, active, lease, processing, releasing, finals>>
    BY DEF Fail, Stopping, Made
  <2>2. Made' = Made
    BY <2>1 DEF Made, Types
  <2>3. Types' /\ SlotInv'
    BY <2>1, <2>2 DEF Types, SlotInv
  <2>4. PhaseInv'
    BY <1>1, <2>1 DEF PhaseInv, Types
  <2>5. ReleaseInv' /\ ReleasesAlone'
    BY <1>1, <2>1, <2>2 DEF PhaseInv, ReleaseInv, ReleasesAlone, Types
  <2>6. CountExact'
    BY <1>1, <2>1 DEF CountExact
  <2> QED
    BY <2>3, <2>4, <2>5, <2>6
<1>4. CASE UNCHANGED vars
  <2>1. UNCHANGED <<slot, count, phase, active, lease, processing, releasing, finals>>
    BY <1>4 DEF vars
  <2>2. Types' /\ SlotInv' /\ ReleasesAlone'
    BY <2>1 DEF Types, SlotInv, ReleasesAlone, Made
  <2>3. PhaseInv' /\ CountExact'
    BY <1>1, <2>1 DEF PhaseInv, CountExact
  <2>4. ReleaseInv'
    BY <1>1, <2>1 DEF ReleaseInv, Made
  <2> QED
    BY <2>2, <2>3, <2>4
<1> QED
  BY <1>2, <1>3, <1>4

\* The invariant holds throughout.
LEMMA Invariant == Spec => []IInv
<1>1. IInv /\ [Next]_vars => IInv'
  BY ShareHolds, CreateHolds, ReleaseHolds, DropRefusedHolds, CreateFailsHolds,
     FinishShutdownHolds, ReapedHolds, OtherHolds DEF Next, ReleaseStep
<1> QED
  BY <1>1, InitHolds, PTL DEF Spec

\* The count of a worker's scheduler is the number of its leases, those lost
\* inside process() included (acquire_worker, release_worker_lease).
THEOREM CountAlwaysExact == Spec => []CountExact
<1>1. IInv => CountExact
  BY DEF IInv
<1> QED
  BY <1>1, Invariant, PTL

\* A process has at most one scheduler that accepts tasks, for any threads and
\* any nesting of acquire and release.
THEOREM OneAlwaysRunning == Spec => []OneRunning
<1>1. IInv => OneRunning
  <2> SUFFICES ASSUME IInv, NEW g \in Made, phase[g] = "Running"
               PROVE  active = g /\ \E th \in Threads : slot[th] = g
    BY DEF OneRunning
  <2>1. Counted(g) # {} /\ active = g
    BY DEF IInv, PhaseInv, Made
  <2>2. PICK l \in Leases : lease[l].gen = g /\ lease[l].state \in {"held", "leaked"}
    BY <2>1 DEF Counted
  <2> QED
    BY <2>1, <2>2 DEF IInv, SlotInv
<1> QED
  BY <1>1, Invariant, PTL

\* A lease keeps its scheduler from being stopped by the release of others.
THEOREM LeaseAlwaysKeeps == Spec => []LeaseKeepsScheduler
<1>1. IInv => LeaseKeepsScheduler
  BY DEF IInv, PhaseInv, LeaseKeepsScheduler, Made
<1> QED
  BY <1>1, Invariant, PTL

\* One release per scheduler returns Ok(true), and it is the final one.
THEOREM FinalAtMostOnce == Spec => []FinalOnce
<1>1. IInv => FinalOnce
  BY DEF IInv, PhaseInv, FinalOnce, Made
<1> QED
  BY <1>1, Invariant, PTL

-----------------------------------------------------------------------------
(***************************************************************************)
(* Local tasks.                                                            *)
(***************************************************************************)
CONSTANTS Contexts, None
VARIABLES status, waker, result, runner, handle, completed, waiting, woken,
          answers, answer, wpc, polling, tpc

Task == INSTANCE LocalTask

Final == Task!Errors \cup {"Ready"}
PollSteps == {"take", "status", "set_waker", "recheck"}

\* A thread has failed the task and is about to invoke the waker.
ThreadWakes == \E th \in Threads : tpc[th] = "wake"

\* The worker is on its way to invoke the waker.
WorkerWakes ==
    \/ wpc \in {"error_wake", "ready_wake"}
    \/ wpc = "resolve" /\ runner = "done" /\ status = "Ready"

\* The handle: an answer completes it, and only an incomplete one is polled.
HandleInv ==
    /\ completed => answers = 1
    /\ ~completed => answers = 0 /\ answer = None
    /\ wpc \in PollSteps => ~completed /\ waiting = None /\ polling \in Contexts

\* A result is the verdict, and the output of a Ready task is there between
\* the resolve of its runner and the poll that takes it.
ResultInv ==
    /\ result # None => status = IF result = "Ok" THEN "Ready" ELSE result
    /\ status = "Ready" /\ ~completed /\ ~(wpc = "resolve" /\ runner = "done") => result = "Ok"
    /\ status = "Ready" => runner # "live"
    /\ runner = "dropped" => status \in Final
    /\ wpc \in {"status", "set_waker", "recheck"} => status # "Ready"
    /\ wpc = "ready_wake" => status = "Ready"
    /\ wpc = "error_wake" => status \in Task!Errors

\* The waker is stored while the task goes on, and once it ended it has been
\* invoked or someone is about to.
WakeInv ==
    /\ ThreadWakes => status = "SchedulerFailed"
    /\ wpc = "recheck" => waker = polling \/ status \in Task!Errors
    /\ waiting # None =>
        /\ status \notin Final => waker = waiting
        /\ status \in Final => waiting \in woken \/ (waker = waiting /\ (WorkerWakes \/ ThreadWakes))

TaskInv == Task!TypeOK /\ HandleInv /\ ResultInv /\ WakeInv /\ Task!AnswerIsVerdict

\* The invariant holds of a task that was just spawned.
LEMMA TaskInitHolds == Task!TaskAssumption /\ Task!Init => TaskInv
<1> SUFFICES ASSUME Task!TaskAssumption, Task!Init PROVE TaskInv
  OBVIOUS
<1>1. completed \in BOOLEAN
  BY Zenon DEF Task!Init
<1> QED
  BY <1>1 DEF Task!TaskAssumption, Task!Init, TaskInv, Task!TypeOK, HandleInv,
     ResultInv, WakeInv, Task!AnswerIsVerdict, Task!Statuses, Task!Errors, Task!Results, Final, PollSteps, ThreadWakes

\* Every step of the handle, the runner and the threads preserves it.
LEMMA TaskStepHolds ==
    Task!TaskAssumption /\ TaskInv /\ [Task!Next]_Task!vars => TaskInv'
<1> SUFFICES ASSUME Task!TaskAssumption, TaskInv, [Task!Next]_Task!vars
             PROVE  TaskInv'
  OBVIOUS
<1> USE DEF Task!TaskAssumption, TaskInv, Task!Statuses, Task!Errors,
            Task!Results, Final, PollSteps
<1>1. ASSUME Task!PollTake PROVE TaskInv'
  <2> USE <1>1 DEF Task!TypeOK, Task!PollTake, Task!Complete, Task!Answer,
      Task!Return, Task!control
  <2>1. Task!TypeOK'
    <3>1. completed' \in BOOLEAN
      OBVIOUS
    <3> QED
      BY <3>1 DEF ResultInv
  <2>2. HandleInv'
    BY DEF HandleInv
  <2>3. ResultInv'
    BY DEF HandleInv, ResultInv
  <2>4. WakeInv'
    BY DEF HandleInv, ResultInv, WakeInv, WorkerWakes, ThreadWakes
  <2>5. Task!AnswerIsVerdict'
    BY DEF HandleInv, ResultInv, Task!AnswerIsVerdict
  <2> QED
    BY <2>1, <2>2, <2>3, <2>4, <2>5
<1>2. ASSUME Task!PollStatus PROVE TaskInv'
  <2> USE <1>2 DEF Task!TypeOK, Task!PollStatus, Task!Complete, Task!Answer,
      Task!Return, Task!control, Task!TaskError
  <2>1. Task!TypeOK'
    <3>1. completed' \in BOOLEAN
      OBVIOUS
    <3> QED
      BY <3>1 DEF ResultInv
  <2>2. HandleInv'
    BY DEF HandleInv
  <2>3. ResultInv'
    BY DEF HandleInv, ResultInv
  <2>4. WakeInv'
    BY DEF HandleInv, ResultInv, WakeInv, WorkerWakes, ThreadWakes
  <2>5. Task!AnswerIsVerdict'
    BY DEF HandleInv, ResultInv, Task!AnswerIsVerdict
  <2> QED
    BY <2>1, <2>2, <2>3, <2>4, <2>5
<1>3. ASSUME Task!SetWaker PROVE TaskInv'
  <2> USE <1>3 DEF Task!TypeOK, Task!SetWaker, Task!Return
  <2>1. Task!TypeOK'
    BY DEF ResultInv
  <2>2. HandleInv'
    BY DEF HandleInv
  <2>3. ResultInv'
    BY DEF HandleInv, ResultInv
  <2>4. WakeInv'
    BY DEF HandleInv, ResultInv, WakeInv, WorkerWakes, ThreadWakes
  <2>5. Task!AnswerIsVerdict'
    BY DEF HandleInv, ResultInv, Task!AnswerIsVerdict
  <2> QED
    BY <2>1, <2>2, <2>3, <2>4, <2>5
<1>4. ASSUME Task!PollRecheck PROVE TaskInv'
  <2> USE <1>4 DEF Task!TypeOK, Task!PollRecheck, Task!Complete, Task!Answer,
      Task!Return, Task!control, Task!TaskError
  <2>1. Task!TypeOK'
    <3>1. completed' \in BOOLEAN
      OBVIOUS
    <3> QED
      BY <3>1 DEF ResultInv
  <2>2. HandleInv'
    BY DEF HandleInv
  <2>3. ResultInv'
    BY DEF HandleInv, ResultInv
  <2>4. WakeInv'
    BY DEF HandleInv, ResultInv, WakeInv, WorkerWakes, ThreadWakes
  <2>5. Task!AnswerIsVerdict'
    BY DEF HandleInv, ResultInv, Task!AnswerIsVerdict
  <2> QED
    BY <2>1, <2>2, <2>3, <2>4, <2>5
<1>5. ASSUME Task!FinishWake PROVE TaskInv'
  <2> USE <1>5 DEF Task!TypeOK, Task!FinishWake, Task!Wake, Task!join
  <2>1. Task!TypeOK'
    BY DEF ResultInv
  <2>2. HandleInv'
    BY DEF HandleInv
  <2>3. ResultInv'
    BY DEF HandleInv, ResultInv
  <2>4. WakeInv'
    BY DEF HandleInv, ResultInv, WakeInv, WorkerWakes, ThreadWakes
  <2>5. Task!AnswerIsVerdict'
    BY DEF HandleInv, ResultInv, Task!AnswerIsVerdict
  <2> QED
    BY <2>1, <2>2, <2>3, <2>4, <2>5
<1>6. ASSUME Task!ResolveFinished PROVE TaskInv'
  <2> USE <1>6 DEF Task!TypeOK, Task!ResolveFinished, Task!Resolve,
      Task!TaskError, Task!control, Task!join
  <2>1. Task!TypeOK'
    BY DEF ResultInv
  <2>2. HandleInv'
    BY DEF HandleInv
  <2>3. ResultInv'
    BY DEF HandleInv, ResultInv
  <2>4. WakeInv'
    BY DEF HandleInv, ResultInv, WakeInv, WorkerWakes, ThreadWakes
  <2>5. Task!AnswerIsVerdict'
    BY DEF HandleInv, ResultInv, Task!AnswerIsVerdict
  <2> QED
    BY <2>1, <2>2, <2>3, <2>4, <2>5
<1>7. ASSUME Task!ReadyWake PROVE TaskInv'
  <2> USE <1>7 DEF Task!TypeOK, Task!ReadyWake, Task!Wake, Task!join
  <2>1. Task!TypeOK'
    BY DEF ResultInv
  <2>2. HandleInv'
    BY DEF HandleInv
  <2>3. ResultInv'
    BY DEF HandleInv, ResultInv
  <2>4. WakeInv'
    BY DEF HandleInv, ResultInv, WakeInv, WorkerWakes, ThreadWakes
  <2>5. Task!AnswerIsVerdict'
    BY DEF HandleInv, ResultInv, Task!AnswerIsVerdict
  <2> QED
    BY <2>1, <2>2, <2>3, <2>4, <2>5
<1>8. ASSUME NEW c \in Contexts, Task!Poll(c) PROVE TaskInv'
  <2> USE <1>8 DEF Task!TypeOK, Task!Poll, Task!control
  <2>1. Task!TypeOK'
    BY DEF ResultInv
  <2>2. HandleInv'
    BY DEF HandleInv
  <2>3. ResultInv'
    BY DEF HandleInv, ResultInv
  <2>4. WakeInv'
    BY DEF HandleInv, ResultInv, WakeInv, WorkerWakes, ThreadWakes
  <2>5. Task!AnswerIsVerdict'
    BY DEF HandleInv, ResultInv, Task!AnswerIsVerdict
  <2> QED
    BY <2>1, <2>2, <2>3, <2>4, <2>5
<1>9. ASSUME Task!Cancel PROVE TaskInv'
  <2> USE <1>9 DEF Task!TypeOK, Task!Cancel, Task!RequestCancel, Task!join
  <2>1. Task!TypeOK'
    BY DEF ResultInv
  <2>2. HandleInv'
    BY DEF HandleInv
  <2>3. ResultInv'
    BY DEF HandleInv, ResultInv
  <2>4. WakeInv'
    BY DEF HandleInv, ResultInv, WakeInv, WorkerWakes, ThreadWakes
  <2>5. Task!AnswerIsVerdict'
    BY DEF HandleInv, ResultInv, Task!AnswerIsVerdict
  <2> QED
    BY <2>1, <2>2, <2>3, <2>4, <2>5
<1>10. ASSUME Task!Detach PROVE TaskInv'
  <2> USE <1>10 DEF Task!TypeOK, Task!Detach, Task!control
  <2>1. Task!TypeOK'
    BY DEF ResultInv
  <2>2. HandleInv'
    BY DEF HandleInv
  <2>3. ResultInv'
    BY DEF HandleInv, ResultInv
  <2>4. WakeInv'
    BY DEF HandleInv, ResultInv, WakeInv, WorkerWakes, ThreadWakes
  <2>5. Task!AnswerIsVerdict'
    BY DEF HandleInv, ResultInv, Task!AnswerIsVerdict
  <2> QED
    BY <2>1, <2>2, <2>3, <2>4, <2>5
<1>11. ASSUME Task!DropHandle PROVE TaskInv'
  <2> USE <1>11 DEF Task!TypeOK, Task!DropHandle, Task!RequestCancel
  <2>1. Task!TypeOK'
    BY DEF ResultInv
  <2>2. HandleInv'
    BY DEF HandleInv
  <2>3. ResultInv'
    BY DEF HandleInv, ResultInv
  <2>4. WakeInv'
    BY DEF HandleInv, ResultInv, WakeInv, WorkerWakes, ThreadWakes
  <2>5. Task!AnswerIsVerdict'
    BY DEF HandleInv, ResultInv, Task!AnswerIsVerdict
  <2> QED
    BY <2>1, <2>2, <2>3, <2>4, <2>5
<1>12. ASSUME Task!FinishReady PROVE TaskInv'
  <2> USE <1>12 DEF Task!TypeOK, Task!FinishReady, Task!AfterFinish,
      Task!Finished, Task!join
  <2>1. Task!TypeOK'
    BY DEF ResultInv
  <2>2. HandleInv'
    BY DEF HandleInv
  <2>3. ResultInv'
    BY DEF HandleInv, ResultInv
  <2>4. WakeInv'
    BY DEF HandleInv, ResultInv, WakeInv, WorkerWakes, ThreadWakes
  <2>5. Task!AnswerIsVerdict'
    BY DEF HandleInv, ResultInv, Task!AnswerIsVerdict
  <2> QED
    BY <2>1, <2>2, <2>3, <2>4, <2>5
<1>13. ASSUME Task!FinishError PROVE TaskInv'
  <2> USE <1>13 DEF Task!TypeOK, Task!FinishError, Task!AfterFinish,
      Task!Finished, Task!join
  <2>1. Task!TypeOK'
    BY DEF ResultInv
  <2>2. HandleInv'
    BY DEF HandleInv
  <2>3. ResultInv'
    BY DEF HandleInv, ResultInv
  <2>4. WakeInv'
    BY DEF HandleInv, ResultInv, WakeInv, WorkerWakes, ThreadWakes
  <2>5. Task!AnswerIsVerdict'
    BY DEF HandleInv, ResultInv, Task!AnswerIsVerdict
  <2> QED
    BY <2>1, <2>2, <2>3, <2>4, <2>5
<1>14. ASSUME NEW th \in Threads, Task!ForeignCancel(th) PROVE TaskInv'
  <2> USE <1>14 DEF Task!TypeOK, Task!ForeignCancel, Task!RequestCancel,
      Task!join
  <2>1. Task!TypeOK'
    BY DEF ResultInv
  <2>2. HandleInv'
    BY DEF HandleInv
  <2>3. ResultInv'
    BY DEF HandleInv, ResultInv
  <2>4. WakeInv'
    BY DEF HandleInv, ResultInv, WakeInv, WorkerWakes, ThreadWakes
  <2>5. Task!AnswerIsVerdict'
    BY DEF HandleInv, ResultInv, Task!AnswerIsVerdict
  <2> QED
    BY <2>1, <2>2, <2>3, <2>4, <2>5
<1>15. ASSUME NEW th \in Threads, Task!FailScheduler(th) PROVE TaskInv'
  <2> USE <1>15 DEF Task!TypeOK, Task!FailScheduler, Task!join
  <2>1. Task!TypeOK'
    BY DEF ResultInv
  <2>2. HandleInv'
    BY DEF HandleInv
  <2>3. ResultInv'
    BY DEF HandleInv, ResultInv
  <2>4. WakeInv'
    BY DEF HandleInv, ResultInv, WakeInv, WorkerWakes, ThreadWakes
  <2>5. Task!AnswerIsVerdict'
    BY DEF HandleInv, ResultInv, Task!AnswerIsVerdict
  <2> QED
    BY <2>1, <2>2, <2>3, <2>4, <2>5
<1>16. ASSUME NEW th \in Threads, Task!FailWake(th) PROVE TaskInv'
  <2> USE <1>16 DEF Task!TypeOK, Task!FailWake, Task!Wake, Task!join
  <2>1. Task!TypeOK'
    BY DEF ResultInv
  <2>2. HandleInv'
    BY DEF HandleInv
  <2>3. ResultInv'
    BY DEF HandleInv, ResultInv
  <2>4. WakeInv'
    BY DEF HandleInv, ResultInv, WakeInv, WorkerWakes, ThreadWakes
  <2>5. Task!AnswerIsVerdict'
    BY DEF HandleInv, ResultInv, Task!AnswerIsVerdict
  <2> QED
    BY <2>1, <2>2, <2>3, <2>4, <2>5
<1>18. ASSUME NEW th \in Threads, Task!FailMissed(th) PROVE TaskInv'
  <2> USE <1>18 DEF Task!TypeOK, Task!FailMissed, Task!control, Task!join
  <2>1. Task!TypeOK'
    BY DEF ResultInv
  <2>2. HandleInv'
    BY DEF HandleInv
  <2>3. ResultInv'
    BY DEF HandleInv, ResultInv
  <2>4. WakeInv'
    BY DEF HandleInv, ResultInv, WakeInv, WorkerWakes, ThreadWakes
  <2>5. Task!AnswerIsVerdict'
    BY DEF HandleInv, ResultInv, Task!AnswerIsVerdict
  <2> QED
    BY <2>1, <2>2, <2>3, <2>4, <2>5
<1>17. CASE UNCHANGED Task!vars
  BY <1>17 DEF Task!vars, Task!control, Task!join, Task!TypeOK, HandleInv, ResultInv, WakeInv, WorkerWakes,
     ThreadWakes, Task!AnswerIsVerdict
<1> QED
  BY <1>1, <1>2, <1>3, <1>4, <1>5, <1>6, <1>7, <1>8, <1>9, <1>10, <1>11, <1>12,
     <1>13, <1>14, <1>15, <1>16, <1>17, <1>18
  DEF Task!Next, Task!WorkerStep, Task!Terminated

\* The invariant holds throughout.
LEMMA TaskInvariant == Task!TaskAssumption => (Task!Spec => []TaskInv)
<1> SUFFICES ASSUME Task!TaskAssumption PROVE Task!Spec => []TaskInv
  OBVIOUS
<1> QED
  BY TaskInitHolds, TaskStepHolds, PTL DEF Task!Spec

\* No wakeup is lost between the poll of the handle and the end of the task
\* (LocalTask::poll, TaskControl::finish and fail_scheduler), whatever threads
\* cancel and fail it meanwhile.
THEOREM NoWakeIsLost == Task!TaskAssumption => (Task!Spec => []Task!NoLostWake)
<1> SUFFICES ASSUME Task!TaskAssumption PROVE Task!Spec => []Task!NoLostWake
  OBVIOUS
<1>1. TaskInv => Task!NoLostWake
  BY DEF Task!TaskAssumption, TaskInv, Task!TypeOK, WakeInv, WorkerWakes,
     ThreadWakes, Task!NoLostWake, Final
<1> QED
  BY <1>1, TaskInvariant, PTL

\* The handle answers with the verdict of the task control.
THEOREM AnswerAlwaysVerdict == Task!TaskAssumption => (Task!Spec => []Task!AnswerIsVerdict)
<1> SUFFICES ASSUME Task!TaskAssumption PROVE Task!Spec => []Task!AnswerIsVerdict
  OBVIOUS
<1>1. TaskInv => Task!AnswerIsVerdict
  BY DEF TaskInv
<1> QED
  BY <1>1, TaskInvariant, PTL

\* The handle answers at most once.
THEOREM AnswersAtMostOnce == Task!TaskAssumption => (Task!Spec => []Task!AnswersOnce)
<1> SUFFICES ASSUME Task!TaskAssumption PROVE Task!Spec => []Task!AnswersOnce
  OBVIOUS
<1>1. TaskInv => Task!AnswersOnce
  BY DEF TaskInv, Task!TypeOK, HandleInv, Task!AnswersOnce
<1> QED
  BY <1>1, TaskInvariant, PTL

\* The output of a Ready task stays until the handle takes it.
THEOREM OutputAlwaysKept == Task!TaskAssumption => (Task!Spec => []Task!OutputKept)
<1> SUFFICES ASSUME Task!TaskAssumption PROVE Task!Spec => []Task!OutputKept
  OBVIOUS
<1>1. TaskInv => Task!OutputKept
  BY DEF TaskInv, ResultInv, Task!OutputKept
<1> QED
  BY <1>1, TaskInvariant, PTL
=============================================================================
