---------------------------- MODULE SharedProofs ----------------------------
(***************************************************************************)
(* Proofs about memory that worker processes share.  RwLock: RawSpinlock   *)
(* is a reader-writer lock, for any number of processes below the capacity *)
(* of its word.  Slab: the regions that any number of workers, each of     *)
(* which may die in any step, hold in a zone do not overlap, and a block   *)
(* is lost only with a worker.                                             *)
(***************************************************************************)
EXTENDS RwLock, FiniteSetTheorems, TLAPS

\* A process that is about to compare-exchange did not load WLOCK.
LoadedNoWriter ==
    \A p \in Procs :
        pc[p] \in {"cas_lock_shared", "cas_try_shared"} => value[p] # WLOCK

\* The inductive invariant.
IInv == TypeOK /\ LoadedNoWriter /\ WordIsExact /\ Exclusion

\* The readers can be counted, and there are fewer than the word can hold.
LEMMA ReadersFinite ==
    /\ IsFiniteSet(Readers)
    /\ Cardinality(Readers) \in Nat
    /\ Cardinality(Readers) < WLOCK
<1>1. Readers \in SUBSET Procs
  BY DEF Readers
<1>2. /\ IsFiniteSet(Readers)
      /\ Cardinality(Readers) <= Cardinality(Procs)
  BY <1>1, WordAssumption, FS_Subset
<1>3. Cardinality(Readers) \in Nat /\ Cardinality(Procs) \in Nat
  BY <1>2, WordAssumption, FS_CardinalityType
<1> QED
  BY <1>2, <1>3, WordAssumption

\* A step that leaves both kinds of guards and the word alone.
LEMMA SameGuards ==
    ASSUME IInv, TypeOK', LoadedNoWriter',
           word' = word, Readers' = Readers, Writers' = Writers
    PROVE  IInv'
BY DEF IInv, WordIsExact, Exclusion

\* The invariant holds initially: the word of INIT is 0.
LEMMA InitHolds == Init => IInv
<1> SUFFICES ASSUME Init PROVE IInv
  OBVIOUS
<1>1. Readers = {} /\ Writers = {}
  BY DEF Init, Readers, Writers
<1>2. TypeOK /\ LoadedNoWriter
  BY WordAssumption DEF Init, TypeOK, Pc, LoadedNoWriter
<1> QED
  BY <1>1, <1>2, FS_EmptySet DEF Init, IInv, WordIsExact, Exclusion

\* Every atomic access of RawSpinlock preserves it.
LEMMA StepHolds == IInv /\ [Next]_vars => IInv'
<1> SUFFICES ASSUME IInv, [Next]_vars PROVE IInv'
  OBVIOUS
<1> USE WordAssumption DEF IInv, TypeOK, Pc, Goto
<1>1. ASSUME NEW p \in Procs, Request(p) PROVE IInv'
  <2>1. TypeOK' /\ LoadedNoWriter'
    BY <1>1 DEF Request, LoadedNoWriter
  <2>2. Readers' = Readers /\ Writers' = Writers /\ word' = word
    BY <1>1 DEF Request, Readers, Writers
  <2> QED
    BY <2>1, <2>2, SameGuards
<1>2. ASSUME NEW p \in Procs, LoadShared(p) PROVE IInv'
  <2>1. TypeOK' /\ LoadedNoWriter'
    BY <1>2 DEF LoadShared, Retry, LoadedNoWriter
  <2>2. Readers' = Readers /\ Writers' = Writers /\ word' = word
    BY <1>2 DEF LoadShared, Retry, Readers, Writers
  <2> QED
    BY <2>1, <2>2, SameGuards
<1>3. ASSUME NEW p \in Procs, CasShared(p) PROVE IInv'
  <2>1. CASE word = value[p]
    <3>1. word # WLOCK /\ word' = word + 1 /\ pc' = [pc EXCEPT ![p] = "shared"]
      BY <1>3, <2>1 DEF CasShared, LoadedNoWriter, Inc
    <3>2. Readers' = Readers \cup {p} /\ p \notin Readers
      BY <1>3, <3>1 DEF CasShared, Readers
    <3>3. Writers = {} /\ Writers' = {}
      BY <1>3, <3>1 DEF CasShared, Writers, WordIsExact
    <3>4. word' = Cardinality(Readers')
      BY ZenonT(30), <3>1, <3>2, <3>3, ReadersFinite, FS_AddElement DEF WordIsExact
    <3>5. TypeOK' /\ LoadedNoWriter'
      BY <1>3, <3>1 DEF CasShared, LoadedNoWriter
    <3> QED
      BY <3>3, <3>4, <3>5 DEF WordIsExact, Exclusion
  <2>2. CASE word # value[p]
    <3>1. TypeOK' /\ LoadedNoWriter'
      BY <1>3, <2>2 DEF CasShared, Retry, LoadedNoWriter
    <3>2. Readers' = Readers /\ Writers' = Writers /\ word' = word
      BY <1>3, <2>2 DEF CasShared, Retry, Readers, Writers
    <3> QED
      BY <3>1, <3>2, SameGuards
  <2> QED
    BY <2>1, <2>2
<1>4. ASSUME NEW p \in Procs, UnlockShared(p) PROVE IInv'
  <2>1. Readers' = Readers \ {p} /\ p \in Readers
    BY <1>4 DEF UnlockShared, Readers
  <2>2. Writers = {} /\ Writers' = {}
    BY <1>4, <2>1 DEF UnlockShared, Writers, Exclusion
  <2>3. Cardinality(Readers') = Cardinality(Readers) - 1 /\ Cardinality(Readers) # 0
    BY ZenonT(30), <2>1, ReadersFinite, FS_RemoveElement, FS_EmptySet
  <2>4. word' = Cardinality(Readers') /\ word' \in 0..WLOCK
    BY <1>4, <2>2, <2>3, ReadersFinite DEF UnlockShared, WordIsExact, Dec
  <2>5. TypeOK' /\ LoadedNoWriter'
    BY <1>4, <2>4 DEF UnlockShared, LoadedNoWriter
  <2> QED
    BY <2>2, <2>4, <2>5 DEF WordIsExact, Exclusion
<1>5. ASSUME NEW p \in Procs, CasExclusive(p) PROVE IInv'
  <2>1. CASE word = 0
    <3>1. Readers = {} /\ Writers = {}
      BY <2>1, ReadersFinite, FS_EmptySet DEF WordIsExact
    <3>2. Readers' = {} /\ Writers' = {p}
      BY <1>5, <2>1, <3>1 DEF CasExclusive, Readers, Writers
    <3>3. TypeOK' /\ LoadedNoWriter'
      BY <1>5, <2>1 DEF CasExclusive, LoadedNoWriter
    <3> QED
      BY <1>5, <2>1, <3>2, <3>3 DEF CasExclusive, WordIsExact, Exclusion
  <2>2. CASE word # 0
    <3>1. TypeOK' /\ LoadedNoWriter'
      BY <1>5, <2>2 DEF CasExclusive, Retry, LoadedNoWriter
    <3>2. Readers' = Readers /\ Writers' = Writers /\ word' = word
      BY <1>5, <2>2 DEF CasExclusive, Retry, Readers, Writers
    <3> QED
      BY <3>1, <3>2, SameGuards
  <2> QED
    BY <2>1, <2>2
<1>6. ASSUME NEW p \in Procs, UnlockExclusive(p) PROVE IInv'
  <2>1. Writers = {p} /\ Readers = {}
    BY <1>6 DEF UnlockExclusive, Writers, Exclusion
  <2>2. Writers' = {} /\ Readers' = {}
    BY <1>6, <2>1 DEF UnlockExclusive, Writers, Readers
  <2>3. TypeOK' /\ LoadedNoWriter'
    BY <1>6 DEF UnlockExclusive, LoadedNoWriter
  <2> QED
    BY <1>6, <2>2, <2>3, FS_EmptySet DEF UnlockExclusive, WordIsExact, Exclusion
<1>7. CASE UNCHANGED vars
  BY <1>7 DEF vars, LoadedNoWriter, WordIsExact, Exclusion, Readers, Writers
<1> QED
  BY <1>1, <1>2, <1>3, <1>4, <1>5, <1>6, <1>7 DEF Next, Step

\* IInv holds in every state the lock reaches.
LEMMA Invariant == Spec => []IInv
BY InitHolds, StepHolds, PTL DEF Spec

\* For any number of processes the word of RawSpinlock counts the shared
\* guards exactly, and says WLOCK exactly while an exclusive guard exists.
THEOREM WordAlwaysExact == Spec => []WordIsExact
<1>1. IInv => WordIsExact
  BY DEF IInv
<1> QED
  BY <1>1, Invariant, PTL

\* For any number of processes an exclusive guard excludes every other guard.
THEOREM MutualExclusion == Spec => []Exclusion
<1>1. IInv => Exclusion
  BY DEF IInv
<1> QED
  BY <1>1, Invariant, PTL

\* Every step of RawSpinlock is a step of the abstract lock, or changes no
\* guard.
LEMMA StepRefines ==
    IInv /\ [Next]_vars => [Abstract!Next]_<<Readers, Writers>>
<1> SUFFICES ASSUME IInv, [Next]_vars, ~ UNCHANGED <<Readers, Writers>>
             PROVE  Abstract!Next
  OBVIOUS
<1> USE DEF IInv, TypeOK, Goto, Readers, Writers
<1>1. ASSUME NEW p \in Procs, Request(p) PROVE FALSE
  BY <1>1 DEF Request
<1>2. ASSUME NEW p \in Procs, LoadShared(p) PROVE FALSE
  BY <1>2 DEF LoadShared, Retry
<1>3. ASSUME NEW p \in Procs, CasShared(p) PROVE Abstract!LockShared(p)
  <2>1. word = value[p] /\ word # WLOCK
    BY <1>3 DEF CasShared, Retry, LoadedNoWriter
  <2>2. Writers = {}
    BY <2>1 DEF WordIsExact
  <2> QED
    BY <1>3, <2>1, <2>2 DEF CasShared, Abstract!LockShared
<1>4. ASSUME NEW p \in Procs, UnlockShared(p) PROVE Abstract!UnlockShared(p)
  BY <1>4 DEF UnlockShared, Abstract!UnlockShared
<1>5. ASSUME NEW p \in Procs, CasExclusive(p) PROVE Abstract!LockExclusive(p)
  <2>1. word = 0
    BY <1>5 DEF CasExclusive, Retry
  <2> HIDE DEF Readers, Writers
  <2>2. Writers = {} /\ Readers = {}
    BY <2>1, ReadersFinite, FS_EmptySet, WordAssumption DEF WordIsExact
  <2> USE DEF Readers, Writers
  <2> QED
    BY <1>5, <2>1, <2>2 DEF CasExclusive, Abstract!LockExclusive
<1>6. ASSUME NEW p \in Procs, UnlockExclusive(p)
      PROVE  Abstract!UnlockExclusive(p)
  BY <1>6 DEF UnlockExclusive, Abstract!UnlockExclusive
<1>7. CASE UNCHANGED vars
  BY <1>7 DEF vars
<1> QED
  BY <1>1, <1>2, <1>3, <1>4, <1>5, <1>6, <1>7
  DEF Next, Step, Abstract!Next

\* RawSpinlock implements the reader-writer lock that lock_api expects.
THEOREM Refinement == Spec => ImplementsRwLock
<1>1. Init => Abstract!Init
  BY DEF Init, Abstract!Init, Readers, Writers
<1> QED
  BY <1>1, Invariant, StepRefines, PTL DEF Spec, ImplementsRwLock, Abstract!Spec

(***************************************************************************)
(* Slab.                                                                   *)
(***************************************************************************)
CONSTANTS Workers, NoWorker, UsizeMax, Page, Header, Zones, Layouts, MaxDeaths
VARIABLES pool, mutex, guard, blocks, regions, filling, lost, deaths

Slab == INSTANCE Slab

\* The blocks of the pool, and the regions handed out.
BlockType  == [ptr : Nat, size : Nat \ {0}]
RegionType == [ptr : Nat, layout : Layouts, at : Workers \cup {"raw"}]

\* The block a region was cut from.
BlockOf(r) == [ptr |-> r.ptr, size |-> Slab!AllocationSize(r.layout)]

\* Two blocks share no byte.
Apart(b, c) == Slab!Bytes(b) \cap Slab!Bytes(c) = {}

\* The blocks B lie apart, and those not in L are the blocks of the regions O,
\* one each.
Matched(B, L, O) ==
    /\ B \subseteq BlockType /\ L \subseteq B /\ O \subseteq RegionType
    /\ \A b, c \in B : b # c => Apart(b, c)
    /\ \A r \in O : r.layout.size # 0 /\ BlockOf(r) \in B \ L
    /\ \A b \in B \ L : \E r \in O : b = BlockOf(r)
    /\ \A r, s \in O : r.ptr = s.ptr => r = s

\* The mutex and its guard: a zone that was refused is never locked, and at most
\* one region is being initialised, by the worker that holds the guard.
Control ==
    /\ pool.start \in Nat /\ pool.end \in Nat
    /\ pool.status = "ok" => pool.end \in Slab!Address
    /\ mutex \in Workers \cup {NoWorker} /\ deaths \in 0..MaxDeaths
    /\ guard \in {NoWorker, mutex}
    /\ mutex # NoWorker => pool.status = "ok"
    /\ \A r, s \in filling : r = s
    /\ \A r \in filling : r.at = guard

\* check_region accepts the regions S.
Checked(S) == \A r \in S : Slab!CheckRegion(r.ptr, r.layout) = "ok"

\* The inductive invariant: every block belongs to one region or was lost with a
\* worker, and every region passes check_region.
SlabInv ==
    /\ Control
    /\ regions \subseteq RegionType /\ filling \subseteq RegionType
    /\ Checked(regions \cup filling)
    /\ \A r \in filling : r.layout.size # 0 => r \notin regions
    /\ Matched(blocks, lost, Slab!Owned)

\* A block holds its first byte, so blocks that lie apart start apart.
LEMMA SamePtr ==
    ASSUME NEW b \in BlockType, NEW c \in BlockType, Apart(b, c)
    PROVE  b.ptr # c.ptr
BY DEF BlockType, Apart, Slab!Bytes

\* The block of a region is one the allocator can give out.
LEMMA BlockOfType ==
    ASSUME Slab!SlabAssumption, NEW r \in RegionType, r.layout.size # 0
    PROVE  BlockOf(r) \in BlockType /\ BlockOf(r).ptr = r.ptr
BY DEF Slab!SlabAssumption, RegionType, BlockOf, BlockType, Slab!AllocationSize

\* The allocator gives a free block to a region.
LEMMA Grows ==
    ASSUME Slab!SlabAssumption, NEW B, NEW L, NEW O, Matched(B, L, O),
           NEW r \in RegionType, r.layout.size # 0,
           \A c \in B : Apart(BlockOf(r), c)
    PROVE  Matched(B \cup {BlockOf(r)}, L, O \cup {r})
<1> DEFINE b == BlockOf(r)
<1>1. b \in BlockType /\ b.ptr = r.ptr
  BY BlockOfType
<1>2. \A c \in B : c.ptr # r.ptr /\ c # b
  BY <1>1, SamePtr DEF Matched
<1>3. \A c \in B : Apart(c, b)
  BY DEF Apart
<1>4. \A s \in O : s.ptr # r.ptr
  BY ZenonT(30), <1>2 DEF Matched, BlockOf
<1>5. b \notin L
  BY <1>2 DEF Matched
<1> HIDE DEF b
<1>6. \A s \in O \cup {r} : s.layout.size # 0 /\ BlockOf(s) \in (B \cup {b}) \ L
  BY <1>5 DEF Matched, b
<1>7. \A c \in (B \cup {b}) \ L : \E s \in O \cup {r} : c = BlockOf(s)
  BY DEF Matched, b
<1>8. \A c, d \in B \cup {b} : c # d => Apart(c, d)
  BY <1>3 DEF Matched, b
<1>9. \A s, q \in O \cup {r} : s.ptr = q.ptr => s = q
  BY <1>4 DEF Matched
<1> QED
  BY <1>1, <1>6, <1>7, <1>8, <1>9 DEF Matched, b

\* A region gives its block back.
LEMMA Shrinks ==
    ASSUME NEW B, NEW L, NEW O, Matched(B, L, O), NEW r \in O
    PROVE  Matched(Slab!SlabFree(B, r.ptr), L, O \ {r})
<1> DEFINE C == Slab!SlabFree(B, r.ptr)
<1>1. C \subseteq B /\ \A c \in B : c \in C <=> c.ptr # r.ptr
  BY DEF Slab!SlabFree
<1> HIDE DEF C
<1>2. BlockOf(r) \in B \ L /\ BlockOf(r).ptr = r.ptr
  BY DEF Matched, BlockOf
<1>3. \A c \in L : c.ptr # r.ptr
  BY <1>2, SamePtr DEF Matched
<1>4. \A s \in O \ {r} : s.layout.size # 0 /\ BlockOf(s) \in C \ L
  BY <1>1 DEF Matched, BlockOf
<1>5. \A c \in C \ L : \E s \in O \ {r} : c = BlockOf(s)
  BY <1>1, <1>2 DEF Matched
<1> QED
  BY <1>1, <1>3, <1>4, <1>5 DEF Matched, C

\* A region changes hands: only its owner is another.
LEMMA Renamed ==
    ASSUME NEW B, NEW L, NEW O, Matched(B, L, O), NEW r \in O, NEW q \in RegionType,
           q.ptr = r.ptr, q.layout = r.layout
    PROVE  Matched(B, L, (O \ {r}) \cup {q})
<1>1. BlockOf(q) = BlockOf(r)
  BY DEF BlockOf
<1>2. \A b \in B \ L : \E s \in (O \ {r}) \cup {q} : b = BlockOf(s)
  <2> TAKE b \in B \ L
  <2>1. PICK s \in O : b = BlockOf(s)
    BY DEF Matched
  <2> QED
    BY <1>1, <2>1
<1>3. \A s \in (O \ {r}) \cup {q} : s.layout.size # 0 /\ BlockOf(s) \in B \ L
  BY <1>1 DEF Matched
<1>4. \A s, u \in (O \ {r}) \cup {q} : s.ptr = u.ptr => s = u
  BY DEF Matched
<1> QED
  BY <1>2, <1>3, <1>4 DEF Matched

\* The regions D are gone with the worker that had them: their blocks are lost.
LEMMA Lost ==
    ASSUME NEW B, NEW L, NEW O, Matched(B, L, O), NEW D \in SUBSET O, NEW M,
           M = L \cup {b \in B : \E r \in D : r.ptr = b.ptr}
    PROVE  Matched(B, M, O \ D)
<1>1. \A r \in O, b \in B : r.ptr = b.ptr => b = BlockOf(r)
  <2> SUFFICES ASSUME NEW r \in O, NEW b \in B, r.ptr = b.ptr, b # BlockOf(r) PROVE FALSE
    OBVIOUS
  <2>1. BlockOf(r) \in B /\ BlockOf(r).ptr = r.ptr
    BY DEF Matched, BlockOf
  <2> QED
    BY <2>1, SamePtr DEF Matched
<1>2. \A r \in O \ D : r.layout.size # 0 /\ BlockOf(r) \in B \ M
  BY DEF Matched, BlockOf
<1>3. \A b \in B \ M : \E r \in O \ D : b = BlockOf(r)
  <2> TAKE b \in B \ M
  <2>1. PICK r \in O : b = BlockOf(r)
    BY DEF Matched
  <2>2. r \notin D
    BY <2>1 DEF BlockOf
  <2> QED
    BY <2>1, <2>2
<1> QED
  BY <1>2, <1>3 DEF Matched
\* The pool is what from_shm_zone made of the mapping, for good: what the checks
\* say of a pointer does not change.
LEMMA ChecksStay ==
    pool' = pool => \A p, l : Slab!CheckRegion(p, l)' = Slab!CheckRegion(p, l)
BY DEF Slab!CheckRegion, Slab!CheckedBytes

\* The address of a zero-sized region is aligned.
LEMMA DanglingIsFine ==
    ASSUME Slab!SlabAssumption, NEW l \in Layouts, l.size = 0
    PROVE  Slab!Dangling(l) \in Nat /\ Slab!CheckRegion(Slab!Dangling(l), l) = "ok"
<1>1. l.align \in Nat \ {0}
  BY DEF Slab!SlabAssumption
<1>2. \A a \in Nat \ {0} : a % a = 0
  OBVIOUS
<1> QED
  BY <1>1, <1>2 DEF Slab!CheckRegion, Slab!Aligned, Slab!Dangling

\* allocate leaves nothing, or a free block that is what the layout asks for.
LEMMA AllocatedIsFine ==
    ASSUME Slab!SlabAssumption, SlabInv, pool.status = "ok", NEW w \in Workers,
           NEW l \in Layouts, l.size # 0, NEW got \in Slab!Allocated(l), got # {}
    PROVE  \E b : /\ got = {b} /\ Slab!Region(b.ptr, l, w) \in RegionType
                  /\ b = BlockOf(Slab!Region(b.ptr, l, w))
                  /\ Slab!CheckRegion(b.ptr, l) = "ok"
                  /\ \A c \in blocks : Apart(b, c)
<1>1. PICK b \in Slab!SlabAlloc(Slab!AllocationSize(l)) : got = {b} /\ Slab!Accepts(b, l)
  BY DEF Slab!Allocated
<1>2. PICK p \in pool.start + Header .. pool.end - Slab!AllocationSize(l) :
        b = [ptr |-> p, size |-> Slab!AllocationSize(l)]
  BY <1>1 DEF Slab!SlabAlloc
<1>3. p \in Nat
  BY <1>2 DEF Slab!SlabAssumption, SlabInv, Control, Slab!AllocationSize
<1>4. \A c \in blocks : Apart(b, c)
  BY <1>1 DEF Slab!SlabAlloc, Apart
<1>5. Slab!CheckRegion(b.ptr, l) = "ok"
  BY <1>1, <1>2 DEF Slab!Accepts, Slab!CheckRegion
<1>6. Slab!Region(b.ptr, l, w) \in RegionType /\ b = BlockOf(Slab!Region(b.ptr, l, w))
  BY <1>2, <1>3 DEF Slab!Region, RegionType, BlockOf
<1> QED
  BY <1>1, <1>4, <1>5, <1>6

\* A new region [Slab!Region] joins the regions or is being filled.
LEMMA JoinsOwned ==
    ASSUME NEW r, filling = {},
           \/ regions' = regions \cup {r} /\ filling' = filling
           \/ regions' = regions /\ filling' = {r}
    PROVE  Slab!Owned' = IF r.layout.size # 0 THEN Slab!Owned \cup {r} ELSE Slab!Owned
BY DEF Slab!Owned

\* alloc_region and try_calloc_region.
LEMMA AllocHolds ==
    ASSUME Slab!SlabAssumption, SlabInv, NEW w \in Workers, NEW l \in Layouts,
           Slab!AllocRegion(w, l) \/ Slab!TryCallocRegion(w, l)
    PROVE  SlabInv'
<1> USE DEF SlabInv
<1>1. /\ pool' = pool /\ mutex' = mutex /\ guard' = guard /\ lost' = lost
      /\ deaths' = deaths /\ guard = w /\ filling = {} /\ pool.status = "ok"
  BY DEF Slab!AllocRegion, Slab!TryCallocRegion, Slab!Holds, Control, Slab!SlabAssumption
<1>2. ASSUME NEW p \in Nat, NEW r, r = Slab!Region(p, l, w), Slab!CheckRegion(p, l) = "ok",
             \/ regions' = regions \cup {r} /\ filling' = filling
             \/ regions' = regions /\ filling' = {r},
             IF l.size = 0 THEN blocks' = blocks
             ELSE /\ blocks' = blocks \cup {BlockOf(r)}
                  /\ \A c \in blocks : Apart(BlockOf(r), c)
      PROVE  SlabInv'
  <2>1. r \in RegionType /\ r.layout = l /\ r.ptr = p /\ r.at = w
    BY <1>2 DEF Slab!Region, RegionType
  <2>2. Control'
    BY <1>1, <1>2, <2>1 DEF Control, Slab!Address
  <2>3. Checked(regions \cup filling)'
    BY <1>1, <1>2, <2>1, ChecksStay DEF Checked
  <2>4. Matched(blocks, lost, Slab!Owned)'
    <3>1. CASE l.size = 0
      BY <1>1, <1>2, <2>1, <3>1, JoinsOwned
    <3>2. CASE l.size # 0
      BY <1>1, <1>2, <2>1, <3>2, JoinsOwned, Grows
    <3> QED
      BY <3>1, <3>2
  <2>5. \A q \in filling' : q.layout.size # 0 => q \notin regions'
    <3> SUFFICES ASSUME filling' = {r}, regions' = regions, r \in regions, l.size # 0 PROVE FALSE
      BY <1>1, <1>2, <2>1
    <3>1. r \in Slab!Owned
      BY <2>1 DEF Slab!Owned
    <3>2. BlockOf(r) \in blocks
      BY <3>1 DEF Matched
    <3>3. BlockOf(r) \in BlockType /\ Apart(BlockOf(r), BlockOf(r))
      BY <1>2, <2>1, <3>2, BlockOfType
    <3> QED
      BY <3>3, SamePtr
  <2> QED
    BY <1>1, <1>2, <2>1, <2>2, <2>3, <2>4, <2>5
<1>3. ASSUME regions' = regions, filling' = {}, blocks' = blocks PROVE SlabInv'
  <2>1. Slab!Owned' = Slab!Owned
    BY <1>1, <1>3 DEF Slab!Owned
  <2>2. Control' /\ Checked(regions \cup filling)'
    BY <1>1, <1>3, ChecksStay DEF Control, Checked, Slab!Address
  <2> QED
    BY <1>1, <1>3, <2>1, <2>2
<1>4. CASE l.size = 0
  <2>1. \/ regions' = regions \cup {Slab!Region(Slab!Dangling(l), l, w)} /\ filling' = filling
        \/ regions' = regions /\ filling' = {Slab!Region(Slab!Dangling(l), l, w)}
    BY <1>4 DEF Slab!AllocRegion, Slab!TryCallocRegion
  <2>2. blocks' = blocks
    BY <1>4 DEF Slab!AllocRegion, Slab!TryCallocRegion
  <2> QED
    BY <1>2, <1>4, <2>1, <2>2, DanglingIsFine
<1>5. CASE l.size # 0
  <2>1. PICK got \in Slab!Allocated(l) :
          /\ blocks' = blocks \cup got
          /\ \/ /\ regions' = regions \cup {Slab!Region(b.ptr, l, w) : b \in got}
                /\ filling' = filling
             \/ /\ filling' = {Slab!Region(b.ptr, l, w) : b \in got}
                /\ regions' = regions
    BY <1>5 DEF Slab!AllocRegion, Slab!TryCallocRegion
  <2>2. CASE got = {}
    BY <1>1, <1>3, <2>1, <2>2
  <2>3. CASE got # {}
    <3>1. PICK b : /\ got = {b} /\ Slab!Region(b.ptr, l, w) \in RegionType
                   /\ b = BlockOf(Slab!Region(b.ptr, l, w))
                   /\ Slab!CheckRegion(b.ptr, l) = "ok"
                   /\ \A c \in blocks : Apart(b, c)
      BY <1>1, <1>5, <2>3, AllocatedIsFine
    <3>2. {Slab!Region(c.ptr, l, w) : c \in got} = {Slab!Region(b.ptr, l, w)}
      BY <3>1
    <3>3. b.ptr \in Nat
      BY <3>1 DEF RegionType, Slab!Region
    <3> QED
      BY ZenonT(30), <1>2, <1>5, <2>1, <3>1, <3>2, <3>3
  <2> QED
    BY <2>2, <2>3
<1> QED
  BY <1>4, <1>5
\* The initialiser returns, fails or panics: its region joins the others, or its
\* block is free again.
LEMMA InitialiserHolds ==
    ASSUME Slab!SlabAssumption, SlabInv, NEW w \in Workers, NEW r \in filling,
           Slab!Initialized(w, r) \/ Slab!InitFailed(w, r) \/ Slab!InitPanics(w, r)
    PROVE  SlabInv'
<1> USE DEF SlabInv
<1>1. /\ pool' = pool /\ lost' = lost /\ deaths' = deaths
      /\ filling = {r} /\ filling' = {} /\ guard = w /\ r \in RegionType
  BY DEF Slab!Initialized, Slab!InitFailed, Slab!InitPanics, Control
<1>2. CASE Slab!Initialized(w, r)
  <2>1. regions' = regions \cup {r} /\ blocks' = blocks /\ mutex' = mutex /\ guard' = guard
    BY <1>2 DEF Slab!Initialized
  <2>2. Slab!Owned' = Slab!Owned
    BY <1>1, <2>1 DEF Slab!Owned
  <2>3. Control' /\ Checked(regions \cup filling)'
    BY <1>1, <2>1, ChecksStay DEF Control, Checked, Slab!Address
  <2> QED
    BY <1>1, <2>1, <2>2, <2>3
<1>3. CASE Slab!InitFailed(w, r) \/ Slab!InitPanics(w, r)
  <2>1. regions' = regions /\ blocks' = Slab!RolledBack(r)
    BY <1>3 DEF Slab!InitFailed, Slab!InitPanics
  <2>2. Control'
    <3>1. \/ mutex' = mutex /\ guard' = guard
          \/ mutex' = NoWorker /\ guard' = NoWorker
      BY <1>3 DEF Slab!InitFailed, Slab!InitPanics, Slab!UnwoundMutex
    <3> QED
      BY <1>1, <3>1 DEF Control, Slab!Address
  <2>3. Checked(regions \cup filling)'
    BY <1>1, <2>1, ChecksStay DEF Checked
  <2>4. Matched(blocks, lost, Slab!Owned)'
    <3>1. CASE r.layout.size = 0
      <4>1. Slab!Owned' = Slab!Owned /\ blocks' = blocks
        BY <1>1, <2>1, <3>1 DEF Slab!Owned, Slab!RolledBack
      <4> QED
        BY <1>1, <4>1
    <3>2. CASE r.layout.size # 0
      <4>1. Slab!Owned' = Slab!Owned \ {r} /\ r \in Slab!Owned
        BY <1>1, <2>1, <3>2 DEF Slab!Owned
      <4>2. blocks' = Slab!SlabFree(blocks, r.ptr)
        BY <2>1, <3>2 DEF Slab!RolledBack
      <4> QED
        BY <1>1, <4>1, <4>2, Shrinks
    <3> QED
      BY <3>1, <3>2
  <2> QED
    BY <1>1, <2>1, <2>2, <2>3, <2>4
<1> QED
  BY <1>2, <1>3

\* into_raw_parts and region_from_raw: a region changes hands.
LEMMA HandoverHolds ==
    ASSUME Slab!SlabAssumption, SlabInv, NEW w \in Workers, NEW r \in regions,
           Slab!IntoRawParts(w, r) \/ Slab!RegionFromRaw(w, r)
    PROVE  SlabInv'
<1> USE DEF SlabInv
<1>1. /\ pool' = pool /\ mutex' = mutex /\ guard' = guard /\ lost' = lost
      /\ deaths' = deaths /\ filling' = filling /\ blocks' = blocks
  BY DEF Slab!IntoRawParts, Slab!RegionFromRaw, Slab!Holds
<1>2. PICK q \in RegionType : /\ regions' = (regions \ {r}) \cup {q}
                              /\ q.ptr = r.ptr /\ q.layout = r.layout
                              /\ q.at # r.at /\ (filling = {} \/ r.at = w)
  <2>1. r \in RegionType
    OBVIOUS
  <2>2. CASE Slab!IntoRawParts(w, r)
    <3>1. [r EXCEPT !.at = "raw"] \in RegionType
      BY <2>1 DEF RegionType
    <3> QED
      BY <2>1, <2>2, <3>1 DEF Slab!IntoRawParts, RegionType, Slab!SlabAssumption
  <2>3. CASE Slab!RegionFromRaw(w, r)
    <3>1. [r EXCEPT !.at = w] \in RegionType
      BY <2>1 DEF RegionType
    <3> QED
      BY <2>1, <2>3, <3>1 DEF Slab!RegionFromRaw, Slab!Holds, RegionType, Slab!SlabAssumption
  <2> QED
    BY <2>2, <2>3
<1>3. Control'
  BY <1>1 DEF Control, Slab!Address
<1>4. Checked(regions \cup filling)'
  BY <1>1, <1>2, ChecksStay DEF Checked
<1>5. \A s \in filling : s.layout.size # 0 => s # q
  <2> SUFFICES ASSUME NEW s \in filling, s.layout.size # 0, s = q PROVE FALSE
    OBVIOUS
  <2>1. r \in Slab!Owned /\ s \in Slab!Owned /\ r.ptr = s.ptr
    BY <1>2 DEF Slab!Owned
  <2> QED
    BY ZenonT(30), <1>2, <2>1 DEF Matched
<1>6. Matched(blocks, lost, Slab!Owned)'
  <2>1. CASE r.layout.size = 0
    <3>1. Slab!Owned' = Slab!Owned
      BY <1>1, <1>2, <2>1 DEF Slab!Owned
    <3> QED
      BY <1>1, <3>1
  <2>2. CASE r.layout.size # 0
    <3>1. Slab!Owned' = (Slab!Owned \ {r}) \cup {q} /\ r \in Slab!Owned
      BY <1>1, <1>2, <2>2 DEF Slab!Owned
    <3> QED
      BY <1>1, <1>2, <3>1, Renamed
  <2> QED
    BY <2>1, <2>2
<1> QED
  BY <1>1, <1>2, <1>3, <1>4, <1>5, <1>6

\* free_region: the check passes for a region the pool made, so its block is freed.
LEMMA FreeHolds ==
    ASSUME SlabInv, NEW w \in Workers, NEW r \in regions, Slab!FreeRegion(w, r)
    PROVE  SlabInv'
<1> USE DEF SlabInv
<1>1. /\ pool' = pool /\ mutex' = mutex /\ guard' = guard /\ lost' = lost
      /\ deaths' = deaths /\ filling = {} /\ filling' = {} /\ regions' = regions \ {r}
  BY DEF Slab!FreeRegion, Slab!Holds
<1>2. Control' /\ Checked(regions \cup filling)'
  BY <1>1, ChecksStay DEF Control, Checked, Slab!Address
<1>3. CASE r.layout.size = 0
  <2>1. Slab!Owned' = Slab!Owned /\ blocks' = blocks
    BY <1>1, <1>3 DEF Slab!Owned, Slab!FreeRegion
  <2> QED
    BY <1>1, <1>2, <2>1
<1>4. CASE r.layout.size # 0
  <2>1. Slab!FreeStatus(r.ptr, r.layout) = "ok"
    BY <1>4 DEF Slab!FreeStatus, Checked, Slab!CheckRegion
  <2>2. blocks' = Slab!SlabFree(blocks, r.ptr)
    BY <1>4, <2>1 DEF Slab!FreeRegion
  <2>3. Slab!Owned' = Slab!Owned \ {r} /\ r \in Slab!Owned
    BY <1>1, <1>4 DEF Slab!Owned
  <2> QED
    BY <1>1, <1>2, <2>2, <2>3, Shrinks
<1> QED
  BY <1>3, <1>4
\* A worker dies with the mutex: the blocks of its regions are lost, no others.
LEMMA DeathHolds ==
    ASSUME Slab!SlabAssumption, SlabInv, NEW w \in Workers, Slab!Dies(w)
    PROVE  SlabInv'
<1> USE DEF SlabInv
<1> DEFINE D == {r \in Slab!Owned : r.at = w}
<1>1. /\ pool' = pool /\ blocks' = blocks /\ mutex' = NoWorker /\ guard' = NoWorker
      /\ filling' = {} /\ regions' = {r \in regions : r.at # w} /\ guard = w
      /\ deaths < MaxDeaths /\ deaths' = deaths + 1
  BY DEF Slab!Dies
<1>2. Control'
  BY <1>1 DEF Control, Slab!Address, Slab!SlabAssumption
<1>3. Checked(regions \cup filling)'
  BY <1>1, ChecksStay DEF Checked
<1>4. \A r \in filling : r.at = w
  BY <1>1 DEF Control
<1>5. Slab!Owned' = Slab!Owned \ D
  BY <1>1, <1>4 DEF Slab!Owned
<1>6. lost' = lost \cup {b \in blocks : \E r \in D : r.ptr = b.ptr}
  <2>1. \A b : (\E r \in D : r.ptr = b.ptr) <=>
               \/ \E r \in filling : r.layout.size # 0 /\ r.ptr = b.ptr
               \/ \E r \in regions : r.at = w /\ r.layout.size # 0 /\ r.ptr = b.ptr
    BY <1>4 DEF Slab!Owned
  <2> QED
    BY <2>1 DEF Slab!Dies
<1>7. D \in SUBSET Slab!Owned
  OBVIOUS
<1> HIDE DEF D
<1>8. Matched(blocks, lost', Slab!Owned \ D)
  BY <1>6, <1>7, Lost
<1> QED
  BY <1>1, <1>2, <1>3, <1>5, <1>8

\* lock, the drop of a guard, and a step that is not the zone's.
LEMMA GuardHolds ==
    ASSUME Slab!SlabAssumption, SlabInv,
           (\E w \in Workers : Slab!Lock(w) \/ Slab!Unlock(w)) \/ UNCHANGED Slab!vars
    PROVE  SlabInv'
<1> USE DEF SlabInv
<1>1. /\ pool' = pool /\ blocks' = blocks /\ regions' = regions /\ filling' = filling
      /\ lost' = lost /\ deaths' = deaths
  BY DEF Slab!Lock, Slab!Unlock, Slab!vars
<1>2. \/ mutex' = mutex /\ guard' = guard
      \/ mutex' = NoWorker /\ guard' = NoWorker /\ filling = {}
      \/ \E w \in Workers : mutex' = w /\ guard' = w /\ mutex = NoWorker /\ pool.status = "ok"
  BY DEF Slab!Lock, Slab!Unlock, Slab!vars
<1>3. mutex = NoWorker => filling = {}
  BY DEF Control, Slab!SlabAssumption, RegionType
<1>4. Control'
  BY <1>1, <1>2, <1>3 DEF Control, Slab!Address
<1>5. Checked(regions \cup filling)' /\ Slab!Owned' = Slab!Owned
  BY <1>1, ChecksStay DEF Checked, Slab!Owned
<1> QED
  BY <1>1, <1>4, <1>5

\* A zone starts empty, and is usable only if its end is an address.
LEMMA SlabInitHolds == Slab!SlabAssumption /\ Slab!Init => SlabInv
<1> SUFFICES ASSUME Slab!SlabAssumption, Slab!Init PROVE SlabInv
  OBVIOUS
<1>1. PICK z \in Zones : pool = Slab!FromShmZone(z)
  BY DEF Slab!Init
<1>2. z.addr \in Nat /\ z.size \in Nat
  BY DEF Slab!SlabAssumption
<1>3. pool.start \in Nat /\ pool.end \in Nat
  BY <1>1, <1>2 DEF Slab!FromShmZone
<1>4. pool.status = "ok" => pool.end \in Slab!Address
  BY <1>1 DEF Slab!FromShmZone
<1>5. Control
  BY <1>3, <1>4 DEF Control, Slab!Init, Slab!SlabAssumption
<1> QED
  BY <1>5 DEF SlabInv, Slab!Init, Checked, Matched, Slab!Owned

\* The operations of the zone, and a worker's death in any of them, keep it.
LEMMA SlabInvariant == Slab!SlabAssumption => (Slab!Spec => []SlabInv)
<1> SUFFICES ASSUME Slab!SlabAssumption PROVE Slab!Spec => []SlabInv
  OBVIOUS
<1>1. Slab!Init => SlabInv
  BY SlabInitHolds
<1>2. SlabInv /\ [Slab!Next]_Slab!vars => SlabInv'
  BY AllocHolds, InitialiserHolds, HandoverHolds, FreeHolds, DeathHolds, GuardHolds
     DEF Slab!Next
<1> QED
  BY <1>1, <1>2, PTL DEF Slab!Spec

\* What the invariant says of the regions handed out.
LEMMA SlabIsExact == Slab!SlabAssumption /\ SlabInv => Slab!RegionsExact
<1> SUFFICES ASSUME Slab!SlabAssumption, SlabInv PROVE Slab!RegionsExact
  OBVIOUS
<1>1. Slab!TypeOK
  BY DEF SlabInv, Control, Slab!TypeOK
<1>2. Slab!NothingLeaks
  <2>1. \A r \in Slab!Owned : BlockOf(r) \in blocks /\ BlockOf(r).ptr = r.ptr
    BY DEF SlabInv, Matched, BlockOf
  <2>2. {b.ptr : b \in blocks} = {r.ptr : r \in Slab!Owned} \cup {b.ptr : b \in lost}
    BY <2>1 DEF SlabInv, Matched
  <2>3. \A r \in Slab!Owned : \A b \in lost : r.ptr # b.ptr
    BY <2>1, SamePtr DEF SlabInv, Matched
  <2> QED
    BY ZenonT(30), <2>2, <2>3 DEF Slab!NothingLeaks, SlabInv, Matched
<1>3. Slab!RegionsSound
  <2>1. ASSUME NEW r \in Slab!Owned, NEW s \in Slab!Owned, r # s
        PROVE  Slab!Bytes([ptr |-> r.ptr, size |-> r.layout.size])
                 \cap Slab!Bytes([ptr |-> s.ptr, size |-> s.layout.size]) = {}
    <3>1. BlockOf(r) \in blocks /\ BlockOf(s) \in blocks /\ r.ptr # s.ptr
      BY <2>1 DEF SlabInv, Matched
    <3>2. Apart(BlockOf(r), BlockOf(s))
      BY <3>1 DEF SlabInv, Matched, BlockOf
    <3>3. \A q \in Slab!Owned :
            Slab!Bytes([ptr |-> q.ptr, size |-> q.layout.size]) \subseteq Slab!Bytes(BlockOf(q))
      <4> TAKE q \in Slab!Owned
      <4>1. q.ptr \in Nat /\ q.layout.size \in Nat /\ q.layout.align \in Nat
        BY DEF SlabInv, Matched, RegionType, Slab!SlabAssumption
      <4> QED
        BY <4>1 DEF Slab!Bytes, BlockOf, Slab!AllocationSize
    <3> QED
      BY <3>2, <3>3 DEF Apart
  <2>2. \A r \in regions \cup filling : Slab!CheckRegion(r.ptr, r.layout) = "ok"
    BY DEF SlabInv, Checked
  <2> QED
    BY <2>1, <2>2 DEF Slab!RegionsSound
<1>4. Slab!RangeExact
  BY DEF SlabInv, Control, Slab!RangeExact, Slab!CheckedBytes, Slab!Address, Slab!SlabAssumption
<1> QED
  BY <1>1, <1>2, <1>3, <1>4 DEF Slab!RegionsExact

\* Whatever the zone, the layouts and the workers: no block leaks unless a worker
\* dies with it, regions lie in the mapping, are aligned and alias nothing, and
\* checked_bytes accepts exactly the ranges of the mapping.
THEOREM RegionsAlwaysExact == Slab!SlabAssumption => (Slab!Spec => []Slab!RegionsExact)
<1> SUFFICES ASSUME Slab!SlabAssumption PROVE Slab!Spec => []Slab!RegionsExact
  OBVIOUS
<1>1. SlabInv => Slab!RegionsExact
  BY SlabIsExact
<1> QED
  BY <1>1, SlabInvariant, PTL
=============================================================================
