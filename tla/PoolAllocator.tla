--------------------------- MODULE PoolAllocator ---------------------------
(***************************************************************************)
(* The two allocators over nginx memory: Pool (core/pool.rs), which bumps  *)
(* a pointer in the pool's first block and resizes its last allocation in  *)
(* place, and NginxAllocator (allocator.rs), which is the heap.  One       *)
(* behaviour uses one of them.  Memory is a function from addresses to the *)
(* owner whose byte was written there last.                                *)
(***************************************************************************)
EXTENDS Integers, FiniteSets, FiniteSetsExt

CONSTANTS Owners,      \* allocations the program may have at once
          Layouts,     \* [size, align] it may ask for
          Alignment,   \* NGX_ALIGNMENT
          BlockEnd,    \* the pool's first block is the bytes 8 .. BlockEnd - 1
          PoolMax,     \* ngx_pool_t.max: more than this is a large allocation
          Chunks       \* addresses of the chunks malloc can give out

VARIABLES via,    \* "pool" or "heap"
          last,   \* pool.d.last
          taken,  \* chunks malloc gave out: large, another block of the pool, or heap
          live,   \* live[o]: [ptr, layout, filled] or None
          mem     \* mem[a]: the owner that wrote byte a last, or 0

vars == <<via, last, taken, live, mem>>

None == [ptr |-> -1]

ChunkSize == 8

Address == 0 .. Max(Chunks) + ChunkSize

AlignUp(p, a) == p + ((a - (p % a)) % a)

Init ==
    /\ via \in {"pool", "heap"} /\ last = 8
    /\ taken = [c \in Chunks |-> "free"]
    /\ live = [o \in Owners |-> None] /\ mem = [a \in Address |-> 0]

Alive(o) == live[o] # None

(* malloc, posix_memalign: a free chunk, or NULL.                          *)
Malloc(kind) == {[ptr |-> c, last |-> last, taken |-> [taken EXCEPT ![c] = kind]] :
                    c \in {x \in Chunks : taken[x] = "free"}}

(* dangling_for_layout: nothing is allocated for an empty layout.          *)
Dangling(l) == [ptr |-> l.align, last |-> last, taken |-> taken]

(* ngx_palloc and ngx_pnalloc: from the first block if it has room, else   *)
(* from another; above max a chunk of its own.                             *)
Palloc(l, align) ==
    LET p == AlignUp(last, align) IN
    IF l.size > PoolMax THEN Malloc("large")
    ELSE IF p + l.size <= BlockEnd
           THEN {[ptr |-> p, last |-> p + l.size, taken |-> taken]}
           ELSE Malloc("block")

(* Pool::allocate: the results it may give; none of them is AllocError.    *)
PoolAllocate(l) ==
    IF l.size = 0 THEN {Dangling(l)}
    ELSE IF l.align = 1 THEN Palloc(l, 1)
    ELSE IF l.align <= Alignment THEN Palloc(l, Alignment)
    ELSE Malloc("large")

(* NginxAllocator::allocate_with.                                          *)
HeapAllocate(l) ==
    IF l.size = 0 THEN {Dangling(l)}
    ELSE IF l.align > Alignment THEN {} ELSE Malloc("heap")

Results(l) == IF via = "pool" THEN PoolAllocate(l) ELSE HeapAllocate(l)

(* Pool::deallocate passes to ngx_pfree what may be a large allocation.    *)
PoolFrees(l) == l.size > 0 /\ (l.size > PoolMax \/ l.align > Alignment)

(* deallocate; ngx_pfree does nothing with what is not a large allocation. *)
Freed(t, ptr, l) ==
    LET frees == IF via = "pool" THEN PoolFrees(l) /\ ptr \in Chunks /\ t[ptr] = "large"
                 ELSE l.size # 0 IN
    IF frees THEN [t EXCEPT ![ptr] = "free"] ELSE t

Allocation(ptr, l, filled) == [ptr |-> ptr, layout |-> l, filled |-> filled]

Allocate(o, l) ==
    /\ ~Alive(o)
    /\ \E r \in Results(l) :
         /\ last' = r.last /\ taken' = r.taken
         /\ live' = [live EXCEPT ![o] = Allocation(r.ptr, l, 0)]
    /\ UNCHANGED <<via, mem>>

(* The memory with n bytes at ptr set by val; what o wrote elsewhere is no *)
(* longer read by anyone.                                                  *)
Write(o, ptr, n, val) ==
    [a \in Address |-> IF a \in ptr .. ptr + n - 1 THEN val[a - ptr]
                       ELSE IF mem[a] = o THEN 0 ELSE mem[a]]

(* The owner writes all the bytes of its allocation.                       *)
Fill(o) ==
    /\ Alive(o) /\ live[o].filled # live[o].layout.size
    /\ live' = [live EXCEPT ![o].filled = live[o].layout.size]
    /\ mem' = Write(o, live[o].ptr, live[o].layout.size, [i \in 0 .. live[o].layout.size - 1 |-> o])
    /\ UNCHANGED <<via, last, taken>>

Deallocate(o) ==
    /\ Alive(o) /\ taken' = Freed(taken, live[o].ptr, live[o].layout)
    /\ live' = [live EXCEPT ![o] = None] /\ mem' = Write(o, 0, 0, <<>>)
    /\ UNCHANGED <<via, last>>

InPlaceAnywhere(ptr, old, new) == ptr + new.size <= BlockEnd /\ ptr % new.align = 0

(* Pool::resize moves the end of the block's last allocation if it fits    *)
(* and its address suits the new alignment.                                *)
InPlace(ptr, old, new) ==
    ptr + old.size = last /\ ptr + new.size <= BlockEnd /\ ptr % new.align = 0

(* The other path of both resizes: allocate, copy, deallocate.             *)
Moved(o, new) ==
    LET old == live[o]
        copied == Min({old.layout.size, new.size, old.filled}) IN
    \E r \in Results(new) :
        /\ last' = r.last /\ taken' = Freed(r.taken, old.ptr, old.layout)
        /\ live' = [live EXCEPT ![o] = Allocation(r.ptr, new, copied)]
        /\ mem' = Write(o, r.ptr, copied, [i \in 0 .. copied - 1 |-> mem[old.ptr + i]])

(* Pool::grow, grow_zeroed and shrink.                                     *)
PoolResize(o, new) ==
    /\ via = "pool" /\ Alive(o) /\ UNCHANGED via
    /\ LET old == live[o] IN
       IF InPlace(old.ptr, old.layout, new)
         THEN LET kept == Min({old.filled, new.size}) IN
              /\ last' = old.ptr + new.size /\ UNCHANGED taken
              /\ live' = [live EXCEPT ![o] = Allocation(old.ptr, new, kept)]
              /\ mem' = Write(o, old.ptr, kept, [i \in 0 .. kept - 1 |-> mem[old.ptr + i]])
         ELSE Moved(o, new)

(* NginxAllocator::grow, grow_zeroed and shrink.                           *)
HeapResize(o, new) ==
    /\ via = "heap" /\ Alive(o) /\ new # live[o].layout /\ UNCHANGED via
    /\ IF new.size = 0
         THEN /\ taken' = Freed(taken, live[o].ptr, live[o].layout)
              /\ live' = [live EXCEPT ![o] = Allocation(new.align, new, 0)]
              /\ mem' = Write(o, 0, 0, <<>>) /\ UNCHANGED last
         ELSE Moved(o, new)

Next == \E o \in Owners :
    \/ Fill(o) \/ Deallocate(o)
    \/ \E l \in Layouts : Allocate(o, l) \/ PoolResize(o, l) \/ HeapResize(o, l)

Spec == Init /\ [][Next]_vars

(* Types; the pool's end pointer stays in its block.                       *)
TypeOK ==
    /\ via \in {"pool", "heap"} /\ last \in 8..BlockEnd
    /\ \A o \in Owners : Alive(o) => live[o].layout \in Layouts

(* What an owner wrote is still there, through every resize of its own and *)
(* every allocation, resize and release of the others.                     *)
DataKept == \A o \in Owners : Alive(o) =>
    \A i \in 0 .. live[o].filled - 1 : mem[live[o].ptr + i] = o

(* A pointer suits the layout it was given out or resized for.             *)
PointersAligned == \A o \in Owners : Alive(o) => live[o].ptr % live[o].layout.align = 0

(* A chunk of its own is freed exactly when its allocation is released or  *)
(* moved: neither too early, nor twice, nor never.                         *)
ChunksOwned ==
    {c \in Chunks : taken[c] \in {"large", "heap"}}
      = {c \in Chunks : taken[c] # "block" /\ \E o \in Owners : Alive(o) /\ live[o].ptr = c}
=============================================================================
