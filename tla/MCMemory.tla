------------------------------ MODULE MCMemory -------------------------------
(***************************************************************************)
(* What holds nginx's memory: slab zones (Slab) with the queues and trees  *)
(* in them (SlabQueue, RbTree), a dictionary built of both (SharedDict),   *)
(* the spinlock in shared memory (RwLock), pools (PoolAllocator), buffers  *)
(* (BufferView) and lists (NativeList).  A behaviour is one of the         *)
(* component `part'; the others stay in their initial state.               *)
(***************************************************************************)
EXTENDS RwLock

CONSTANTS w1, w2, NoWorker, x1, x2, x3, x4   \* workers, queue entries

VARIABLES part,
    pool, mutex, guard, blocks, regions, filling, lost, deaths,
    links, crashes,
    tree, order, entry, clearing, open, slabTree, slabOrder,
    dict, holder, op, saved, answer, faults, dictCrashes, broken,
    via, last, taken, live, mem,
    buf, want, filed, err,
    list, free, view, got

\* A sixteen-byte address space: a good zone, and one for each error; no bytes, a
\* page, and one byte aligned past a page.
Slab == INSTANCE Slab WITH
    Workers <- {w1, w2}, UsizeMax <- 15, Page <- 2, Header <- 2, MaxDeaths <- 1,
    Zones <- {[addr |-> 4, size |-> 8], [addr |-> 0, size |-> 8], [addr |-> 5, size |-> 8],
              [addr |-> 4, size |-> 1], [addr |-> 12, size |-> 8]},
    Layouts <- {[size |-> 0, align |-> 2], [size |-> 2, align |-> 1], [size |-> 1, align |-> 4]}

Queue == INSTANCE SlabQueue WITH Entries <- {x1, x2, x3, x4}, MaxCrashes <- 2

\* Two hash values, so that among three keys some collide.
Trees == INSTANCE RbTree WITH
    Buckets <- 2, MaxNodes <- 5, Blocks <- 1..3, Keys <- 1..4, Values <- {7, 8}, Nodes <- 1..5

Dict == INSTANCE SharedDict WITH
    Workers <- {"w1"}, Keys <- {"a", "b"}, Values <- {"x", "y"}, Slots <- {1, 2},
    MaxFaults <- 2, MaxCrashes <- 1, crashes <- dictCrashes

\* Empty, small, over-aligned and large layouts: each path of allocate.
Pool == INSTANCE PoolAllocator WITH
    Owners <- {1, 2}, Alignment <- 2, BlockEnd <- 14, PoolMax <- 3, Chunks <- {16, 24},
    Layouts <- {[size |-> 0, align |-> 1], [size |-> 1, align |-> 1], [size |-> 2, align |-> 2],
                [size |-> 2, align |-> 4], [size |-> 4, align |-> 2]}

Buffer == INSTANCE BufferView WITH LastAddress <- 4, LastOffset <- 2, IsizeMax <- 2

List == INSTANCE NativeList WITH Parts <- 1..3, MaxAlloc <- 2, UsizeMax <- 5

ASSUME SlabAssumed == Slab!SlabAssumption

slabVars  == <<pool, mutex, guard, blocks, regions, filling, lost, deaths>>
queueVars == <<links, crashes>>
mapVars   == <<tree, order, entry, clearing, open>>
treeVars  == <<slabTree, slabOrder>>
dictVars  == <<dict, holder, op, saved, answer, faults, dictCrashes, broken>>
poolVars  == <<via, last, taken, live, mem>>
bufVars   == <<buf, want, filed, err>>
listVars  == <<list, free, view, got>>
memVars   == <<slabVars, queueVars, mapVars, treeVars, dictVars, poolVars, bufVars, listVars>>

Absent == "absent"

MemoryInit ==
    /\ part \in {"slab", "queue", "map", "tree", "dict", "pool", "buffer", "list", "lock"}
    /\ Init /\ Slab!Init /\ Queue!Init /\ Trees!Init /\ Trees!SlabInit /\ Dict!Init /\ Pool!Init
    /\ part # "slab" => pool.status = "NullMapping"
    /\ part # "pool" => via = "pool"
    /\ IF part = "buffer" THEN Buffer!Init 
       ELSE buf = Absent /\ want = Absent /\ filed = Absent /\ err = Absent
    /\ IF part = "list" THEN List!Init
       ELSE list = Absent /\ free = Absent /\ view = Absent /\ got = Absent

MemoryNext ==
    /\ UNCHANGED part
    /\ \/ part = "lock" /\ Next /\ UNCHANGED memVars
       \/ /\ part = "slab" /\ Slab!Next
          /\ UNCHANGED <<vars, queueVars, mapVars, treeVars, dictVars, poolVars, bufVars, listVars>>
       \/ /\ part = "queue" /\ Queue!Next
          /\ UNCHANGED <<vars, slabVars, mapVars, treeVars, dictVars, poolVars, bufVars, listVars>>
       \/ /\ part = "map" /\ Trees!Next
          /\ UNCHANGED <<vars, slabVars, queueVars, treeVars, dictVars, poolVars, bufVars, listVars>>
       \/ /\ part = "tree" /\ Trees!SlabNext
          /\ UNCHANGED <<vars, slabVars, queueVars, mapVars, dictVars, poolVars, bufVars, listVars>>
       \/ /\ part = "dict" /\ Dict!Next
          /\ UNCHANGED <<vars, slabVars, queueVars, mapVars, treeVars, poolVars, bufVars, listVars>>
       \/ /\ part = "pool" /\ Pool!Next
          /\ UNCHANGED <<vars, slabVars, queueVars, mapVars, treeVars, dictVars, bufVars, listVars>>
       \/ /\ part = "buffer" /\ Buffer!Next
          /\ UNCHANGED <<vars, slabVars, queueVars, mapVars, treeVars, dictVars, poolVars, listVars>>
       \/ /\ part = "list" /\ List!Next
          /\ UNCHANGED <<vars, slabVars, queueVars, mapVars, treeVars, dictVars, poolVars, bufVars>>

\* Fairness is the lock's: in the other parts no process asks for it.
MemorySpec == MemoryInit /\ [][MemoryNext]_<<part, vars, memVars>> /\ Fairness

\* Slab regions neither leak nor overlap, and the checked ranges are those inside
\* the mapping (alloc_region, checked_bytes).
RegionsExact == part = "slab" => Slab!RegionsExact

\* A slab queue is the queue its operations say, and one that a dead worker left
\* is never damaged further nor iterated wrongly (queue_parts, node_links).
QueueExact ==
    /\ [](part = "queue" => Queue!TypeOK /\ Queue!IterationSound)
    /\ [][part = "queue" => Queue!DamageContained /\ Queue!IsQueue]_queueVars

\* A tree finds, lists and frees exactly what was inserted, whatever nginx rotates
\* (RbTreeMap, SlabRbTree).
TreesExact ==
    /\ [](part = "map" => Trees!EntriesLinked /\ Trees!LookupExact /\ Trees!IterationExact)
    /\ [](part = "tree" => Trees!NoFalseAlarm /\ Trees!FindExact /\ Trees!SlabIterationExact)
    /\ [][part = "map" => Trees!IsMap]_mapVars

\* The shared dictionary is one map, and what a dead worker or a failed rollback left
\* of it is neither dangling nor listed without being found (shared_dict.rs).
ImplementsMap ==
    /\ [](part = "dict" => Dict!TypeOK /\ Dict!NoDangling /\ Dict!ListedIsFound)
    /\ [][part = "dict" => Dict!ImplementsMap]_dictVars

\* What was written to an allocation stays, at an address of its alignment in a
\* chunk of its own (Pool::resize, Pool::deallocate).
DataKept == part = "pool" =>
    Pool!TypeOK /\ Pool!DataKept /\ Pool!PointersAligned /\ Pool!ChunksOwned

\* A buffer reads as the bytes it was cut and filled with, and one that is both in
\* memory and in a file is consumed in step (Buffer::consume, slice).
ContentExact ==
    /\ [](part = "buffer" => Buffer!TypeOK /\ Buffer!ContentExact /\ Buffer!ViewsAgree)
    /\ [][part = "buffer" => Buffer!ConsumedInStep]_bufVars

\* A list that is accepted ends, and is iterated completely (NgxListIter).
ListExact == part = "list" => List!TypeOK /\ List!AcceptedEnds /\ List!IterationExact
=============================================================================
