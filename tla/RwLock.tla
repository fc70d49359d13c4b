------------------------------- MODULE RwLock -------------------------------
(***************************************************************************)
(* RawSpinlock (src/src/sync.rs): a reader-writer lock over one machine    *)
(* word in memory that worker processes share.  The word counts the shared *)
(* guards; its largest value, NGX_RWLOCK_WLOCK, marks an exclusive one.    *)
(*                                                                         *)
(* A step is one atomic access to the word.  The C11 acquire and release   *)
(* orderings order the protected data, which is not modelled.              *)
(***************************************************************************)
EXTENDS Naturals, FiniteSets

CONSTANTS
    Procs,  \* the guards that may be requested at once, one per process
    WLOCK   \* NGX_RWLOCK_WLOCK: usize::MAX, the largest value of the word

\* There are fewer guards than the word can count.
ASSUME WordAssumption ==
    WLOCK \in Nat /\ IsFiniteSet(Procs) /\ Cardinality(Procs) < WLOCK

\* fetch_add(1) and fetch_sub(1) of a usize.
Inc(w) == IF w = WLOCK THEN 0 ELSE w + 1
Dec(w) == IF w = 0 THEN WLOCK ELSE w - 1

VARIABLES
    word,   \* the AtomicUsize
    pc,     \* where every process is
    value   \* the value try_lock_shared loaded

vars == <<word, pc, value>>

\* A "try" gives up after one failure, a "lock" tries again.
Pc == {"idle", "lock_shared", "try_shared", "cas_lock_shared",
       "cas_try_shared", "shared", "lock_exclusive", "try_exclusive",
       "exclusive"}

TypeOK ==
    /\ word \in 0..WLOCK
    /\ pc \in [Procs -> Pc]
    /\ value \in [Procs -> 0..WLOCK]

Init ==
    /\ word = 0
    /\ pc = [p \in Procs |-> "idle"]
    /\ value = [p \in Procs |-> 0]

Goto(p, place) == pc' = [pc EXCEPT ![p] = place]

\* A caller asks for a guard.
Request(p) ==
    /\ pc[p] = "idle"
    /\ \E c \in {"lock_shared", "try_shared", "lock_exclusive", "try_exclusive"} :
          Goto(p, c)
    /\ UNCHANGED <<word, value>>

\* After a failed attempt: lock_* spins and tries again, try_* returns false.
Retry(p) ==
    Goto(p, IF pc[p] \in {"lock_shared", "cas_lock_shared"} THEN "lock_shared"
            ELSE IF pc[p] = "lock_exclusive" THEN "lock_exclusive" ELSE "idle")

\* Mutant: the test for a writer is missing.
LoadSharedUntested(p) ==
    /\ pc[p] \in {"lock_shared", "try_shared"}
    /\ value' = [value EXCEPT ![p] = word]
    /\ Goto(p, IF pc[p] = "lock_shared" THEN "cas_lock_shared"
                                       ELSE "cas_try_shared")
    /\ word' = word

\* try_lock_shared: the load and the test for a writer ...
LoadShared(p) ==
    /\ pc[p] \in {"lock_shared", "try_shared"}
    /\ value' = [value EXCEPT ![p] = word]
    /\ IF word = WLOCK
       THEN Retry(p)
       ELSE Goto(p, IF pc[p] = "lock_shared" THEN "cas_lock_shared"
                                            ELSE "cas_try_shared")
    /\ word' = word

\* ... and the compare-exchange of the loaded value.
CasShared(p) ==
    /\ pc[p] \in {"cas_lock_shared", "cas_try_shared"}
    /\ IF word = value[p]
       THEN word' = Inc(word) /\ Goto(p, "shared")
       ELSE word' = word /\ Retry(p)
    /\ value' = value

\* unlock_shared: fetch_sub.
UnlockShared(p) ==
    /\ pc[p] = "shared"
    /\ word' = Dec(word)
    /\ Goto(p, "idle")
    /\ value' = value

\* try_lock_exclusive: one compare-exchange.
CasExclusive(p) ==
    /\ pc[p] \in {"lock_exclusive", "try_exclusive"}
    /\ IF word = 0
       THEN word' = WLOCK /\ Goto(p, "exclusive")
       ELSE word' = word /\ Retry(p)
    /\ value' = value

\* Mutant: no store at all.
UnlockExclusiveKeep(p) ==
    /\ pc[p] = "exclusive"
    /\ Goto(p, "idle")
    /\ UNCHANGED <<word, value>>

\* unlock_exclusive: a plain store.
UnlockExclusive(p) ==
    /\ pc[p] = "exclusive"
    /\ word' = 0
    /\ Goto(p, "idle")
    /\ value' = value

Step(p) ==
    \/ LoadShared(p) \/ CasShared(p) \/ UnlockShared(p)
    \/ CasExclusive(p) \/ UnlockExclusive(p)

Next == \E p \in Procs : Request(p) \/ Step(p)

Spec == Init /\ [][Next]_vars

\* Every process inside the lock keeps running, and every guard is dropped.
Fairness == \A p \in Procs : WF_vars(Step(p))

-----------------------------------------------------------------------------
Readers == {p \in Procs : pc[p] = "shared"}
Writers == {p \in Procs : pc[p] = "exclusive"}

\* The word tells the truth: it counts the shared guards, or says that there
\* is an exclusive one.  In particular the store in unlock_exclusive forgets
\* no reader, and the load and the compare-exchange of try_lock_shared do not
\* let a reader in beside a writer.
WordIsExact ==
    /\ Writers = {} => word = Cardinality(Readers)
    /\ Writers # {} => word = WLOCK

\* An exclusive guard is alone.
Exclusion ==
    \A p \in Writers : Writers = {p} /\ Readers = {}

\* The lock behaves as lock_api expects.
Abstract == INSTANCE RwLockSpec WITH readers <- Readers, writers <- Writers
ImplementsRwLock == Abstract!Spec

\* The processes do not block each other forever: while some process insists
\* on a guard, somebody holds one again and again (no single process is
\* promised a turn: a writer can starve).
Waiting(p) == pc[p] \in {"lock_shared", "cas_lock_shared", "lock_exclusive"}
SomeoneGetsIn ==
    (\E p \in Procs : Waiting(p)) ~> (Readers \cup Writers # {})
=============================================================================
