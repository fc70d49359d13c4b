-------------------------------- MODULE Slab --------------------------------
(***************************************************************************)
(* Slab memory in a shared zone (core/slab.rs): workers lock the pool,     *)
(* allocate regions, initialise them in place, publish them as raw parts   *)
(* and free them.  Addresses are the bytes that a usize can name; the      *)
(* slab allocator and the mutex are nginx's.                               *)
(***************************************************************************)
EXTENDS Integers

CONSTANTS Workers, NoWorker,
          UsizeMax,     \* the largest usize
          Page,         \* ngx_pagesize
          Header,       \* size and alignment of ngx_slab_pool_t
          Zones,        \* the zones a module may open: [addr, size]
          Layouts,      \* the layouts it may ask for: [size, align]
          MaxDeaths     \* workers that die with the mutex held

VARIABLES pool,     \* SlabPool: [status, start, end]
          mutex,    \* the worker that locked ngx_slab_pool_t.mutex
          guard,    \* the worker whose SlabGuard is alive
          blocks,   \* what the slab allocator has given out: [ptr, size]
          regions,  \* SlabRegions [ptr, layout, at]: at a worker, or "raw" in the zone
          filling,  \* the region an initialiser is filling under the guard, as a set
          lost,     \* blocks of workers that died while they filled them
          deaths

vars == <<pool, mutex, guard, blocks, regions, filling, lost, deaths>>

SlabAssumption ==
    /\ UsizeMax \in Nat /\ Page \in Nat \ {0} /\ Header \in Nat \ {0}
    /\ Zones \subseteq [addr : Nat, size : Nat]
    /\ Layouts \subseteq [size : Nat, align : Nat \ {0}]
    /\ NoWorker \notin Workers \cup {"raw"} /\ "raw" \notin Workers /\ MaxDeaths \in Nat

Address == 0 .. UsizeMax

Aligned(ptr, align) == ptr % align = 0

(* SlabPool::from_shm_zone.                                                *)
FromShmZone(z) ==
    [start |-> z.addr, end |-> z.addr + z.size,
     status |-> IF z.addr = 0 THEN "NullMapping"
                ELSE IF ~Aligned(z.addr, Header) THEN "MisalignedMapping"
                ELSE IF z.size < Header THEN "MappingTooSmall"
                ELSE IF z.addr + z.size \notin Address THEN "Overflow"
                ELSE "ok"]

(* checked_bytes: start and end of the range against the mapping, the end  *)
(* computed in a usize.                                                    *)
CheckedBytes(ptr, len) ==
    IF ptr < pool.start \/ ptr > pool.end THEN "OutOfRange"
    ELSE IF ptr + len \notin Address THEN "Overflow"
    ELSE IF ptr + len > pool.end THEN "OutOfRange" ELSE "ok"

AllocationSize(layout) ==
    IF layout.size < layout.align THEN layout.align ELSE layout.size

(* check_region and check_typed.                                           *)
CheckRegion(ptr, layout) ==
    IF ~Aligned(ptr, layout.align) THEN "MisalignedPointer"
    ELSE IF layout.size = 0 THEN "ok" ELSE CheckedBytes(ptr, AllocationSize(layout))

Bytes(b) == b.ptr .. b.ptr + b.size - 1

(* ngx_slab_alloc_locked: a free chunk of the mapping after the pool       *)
(* header, aligned to its size class but never to more than a page.        *)
SlabAlloc(size) ==
    {b \in {[ptr |-> p, size |-> size] : p \in pool.start + Header .. pool.end - size} :
        /\ Aligned(b.ptr, IF size < Page THEN size ELSE Page)
        /\ \A c \in blocks : Bytes(b) \cap Bytes(c) = {}}

SlabFree(bs, ptr) == {b \in bs : b.ptr # ptr}

(* dangling_for_layout: the alignment as an address, never dereferenced.   *)
Dangling(layout) == layout.align

Init ==
    /\ \E z \in Zones : pool = FromShmZone(z)
    /\ mutex = NoWorker /\ guard = NoWorker /\ deaths = 0
    /\ blocks = {} /\ regions = {} /\ filling = {} /\ lost = {}

(* SlabPool::lock and SlabGuard::drop.                                     *)
Lock(w) ==
    /\ pool.status = "ok" /\ mutex = NoWorker
    /\ mutex' = w /\ guard' = w /\ UNCHANGED <<pool, blocks, regions, filling, lost, deaths>>

Unlock(w) ==
    /\ guard = w /\ filling = {}
    /\ mutex' = NoWorker /\ guard' = NoWorker /\ UNCHANGED <<pool, blocks, regions, filling, lost, deaths>>

(* A worker does something else with the guard than fill a region.         *)
Holds(w) == guard = w /\ filling = {} /\ UNCHANGED <<pool, mutex, guard, lost, deaths>>

(* allocate keeps a block that is aligned and in the mapping; another is   *)
(* freed before the error is returned.                                     *)
Accepts(b, layout) ==
    Aligned(b.ptr, layout.align) /\ CheckedBytes(b.ptr, b.size) = "ok"

(* allocate: the blocks it may leave allocated, {} on every error.         *)
Allocated(layout) ==
    {{b} : b \in {c \in SlabAlloc(AllocationSize(layout)) : Accepts(c, layout)}} \cup {{}}

Region(ptr, layout, at) == [ptr |-> ptr, layout |-> layout, at |-> at]

(* alloc_region and calloc_region.                                         *)
AllocRegion(w, layout) ==
    /\ Holds(w) /\ UNCHANGED filling
    /\ IF layout.size = 0
         THEN regions' = regions \cup {Region(Dangling(layout), layout, w)} /\ UNCHANGED blocks
         ELSE \E got \in Allocated(layout) :
                /\ blocks' = blocks \cup got
                /\ regions' = regions \cup {Region(b.ptr, layout, w) : b \in got}

(* try_calloc_region up to the call of the initialiser: SlabRegionRollback *)
(* guards the block from here.                                             *)
TryCallocRegion(w, layout) ==
    /\ Holds(w) /\ UNCHANGED regions
    /\ IF layout.size = 0
         THEN filling' = {Region(Dangling(layout), layout, w)} /\ UNCHANGED blocks
         ELSE \E got \in Allocated(layout) :
                /\ blocks' = blocks \cup got
                /\ filling' = {Region(b.ptr, layout, w) : b \in got}

(* SlabRegionRollback: armed only when the region has a block.             *)
RolledBackNever(r) == blocks

RolledBack(r) == IF r.layout.size # 0 THEN SlabFree(blocks, r.ptr) ELSE blocks

(* The initialiser returns Ok: disarm, and the region is the caller's.     *)
Initialized(w, r) ==
    /\ guard = w /\ regions' = regions \cup {r} /\ filling' = {}
    /\ UNCHANGED <<pool, mutex, guard, blocks, lost, deaths>>

(* It returns an error: the rollback frees the block.                      *)
InitFailed(w, r) ==
    /\ guard = w /\ blocks' = RolledBack(r) /\ filling' = {}
    /\ UNCHANGED <<pool, mutex, guard, regions, lost, deaths>>

UnwoundMutex(w) == NoWorker

(* It panics: unwinding frees the block, then drops the guard.             *)
InitPanics(w, r) ==
    /\ guard = w /\ blocks' = RolledBack(r) /\ filling' = {}
    /\ guard' = NoWorker /\ mutex' = UnwoundMutex(w)
    /\ UNCHANGED <<pool, regions, lost, deaths>>

(* into_raw_parts: the region becomes an address and a layout in the zone. *)
IntoRawParts(w, r) ==
    /\ r.at = w /\ regions' = (regions \ {r}) \cup {[r EXCEPT !.at = "raw"]}
    /\ UNCHANGED <<pool, mutex, guard, blocks, filling, lost, deaths>>

(* region_from_raw; the caller owns the raw parts it takes.                *)
RegionFromRaw(w, r) ==
    /\ Holds(w) /\ UNCHANGED <<blocks, filling>>
    /\ r.at = "raw" /\ CheckRegion(r.ptr, r.layout) = "ok"
    /\ regions' = (regions \ {r}) \cup {[r EXCEPT !.at = w]}

(* free: nothing to do for an empty layout, else the pointer is checked.   *)
FreeStatus(ptr, layout) ==
    IF layout.size = 0 THEN "ok"
    ELSE IF ~Aligned(ptr, layout.align) THEN "MisalignedPointer"
    ELSE CheckedBytes(ptr, AllocationSize(layout))

(* free_region consumes the region, whatever free returns.                 *)
FreeRegion(w, r) ==
    /\ Holds(w) /\ UNCHANGED filling
    /\ r.at = w /\ regions' = regions \ {r}
    /\ blocks' = IF r.layout.size # 0 /\ FreeStatus(r.ptr, r.layout) = "ok"
                   THEN SlabFree(blocks, r.ptr) ELSE blocks

(* A worker dies with the mutex: nginx's master forces it open, and what   *)
(* the worker was filling stays allocated.                                 *)
Dies(w) ==
    /\ guard = w /\ deaths < MaxDeaths /\ deaths' = deaths + 1
    /\ mutex' = NoWorker /\ guard' = NoWorker /\ filling' = {}
    /\ lost' = lost \cup {b \in blocks : \E r \in filling : r.layout.size # 0 /\ r.ptr = b.ptr}
                     \cup {b \in blocks : \E r \in regions :
                              r.at = w /\ r.layout.size # 0 /\ r.ptr = b.ptr}
    /\ regions' = {r \in regions : r.at # w} /\ UNCHANGED <<pool, blocks>>

Next == \E w \in Workers :
    \/ Lock(w) \/ Unlock(w) \/ Dies(w)
    \/ \E l \in Layouts : AllocRegion(w, l) \/ TryCallocRegion(w, l)
    \/ \E r \in filling : Initialized(w, r) \/ InitFailed(w, r) \/ InitPanics(w, r)
    \/ \E r \in regions : IntoRawParts(w, r) \/ RegionFromRaw(w, r) \/ FreeRegion(w, r)

(* Initialisers return or panic, and guards are scoped: they are dropped.  *)
Spec == Init /\ [][Next]_vars

(* Only a zone that passed every check of from_shm_zone is locked, and a   *)
(* region is filled only by the worker that holds the mutex.               *)
TypeOK ==
    /\ mutex \in Workers \cup {NoWorker} /\ deaths \in 0..MaxDeaths
    /\ guard \in {NoWorker, mutex}
    /\ mutex # NoWorker => pool.status = "ok" /\ pool.end \in Address
    /\ \A r, s \in filling : r = s
    /\ \A r \in filling : r.at = guard

Owned == {r \in regions \cup filling : r.layout.size # 0}

(* Every allocated block belongs to exactly one region, initialiser or     *)
(* dead worker, whether the initialiser succeeded, failed or panicked; a   *)
(* zero-sized region has no block.                                         *)
NothingLeaks ==
    /\ {b.ptr : b \in blocks} = {r.ptr : r \in Owned} \cup {b.ptr : b \in lost}
    /\ \A r \in Owned : \A b \in lost : r.ptr # b.ptr
    /\ \A r, s \in Owned : r.ptr = s.ptr => r = s

(* A region is aligned as its layout asks, lies in the mapping, and        *)
(* overlaps no other region: the slices handed out alias nothing.          *)
RegionsSound ==
    /\ \A r \in regions \cup filling : CheckRegion(r.ptr, r.layout) = "ok"
    /\ \A r, s \in Owned : r # s =>
         Bytes([ptr |-> r.ptr, size |-> r.layout.size])
           \cap Bytes([ptr |-> s.ptr, size |-> s.layout.size]) = {}

(* For every pointer and length a usize holds, checked_bytes accepts       *)
(* exactly the ranges inside the mapping, ranges that wrap included.       *)
RangeExact == pool.status = "ok" =>
    \A p, n \in Address :
        (CheckedBytes(p, n) = "ok") <=> (pool.start <= p /\ p + n <= pool.end)

(* All of it: what a slab zone promises to the modules of its workers.     *)
RegionsExact == TypeOK /\ NothingLeaks /\ RegionsSound /\ RangeExact
=============================================================================
