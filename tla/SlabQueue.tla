------------------------------ MODULE SlabQueue ------------------------------
(***************************************************************************)
(* Queues in shared slab memory (src/collections/slab_queue.rs) over the   *)
(* pointer writes of nginx's intrusive queue (nginx-sys/src/core/queue.rs).*)
(* The workers take turns under the slab lock; a worker that dies inside   *)
(* an operation leaves the writes it has made, and the master releases the *)
(* lock.  The links are a record of two functions from nodes to nodes; an  *)
(* operation is the tuple of the links after each of its writes, so that   *)
(* its last element is its effect and the others are what a process that   *)
(* dies in the middle leaves.                                              *)
(***************************************************************************)
EXTENDS Integers, Sequences, FiniteSets

CONSTANTS Entries,     \* entries of the queue, in the mapping
          MaxCrashes   \* bound: workers that die inside an operation

HeadNode == "head"

Null == "null"

SetNext(s, a, v) == [s EXCEPT !.next[a] = v]

SetPrev(s, a, v) == [s EXCEPT !.prev[a] = v]

(* A zeroed node, and ngx_queue_init.                                      *)
Zeroed(nodes) == [next |-> [n \in nodes |-> Null], prev |-> [n \in nodes |-> Null]]

QueueInit(s, q) == SetNext(SetPrev(s, q, q), q, q)

InsertAfter(s, q, x) ==
    LET s1 == SetNext(s, x, s.next[q])
        s2 == SetPrev(s1, s1.next[x], x)
        s3 == SetPrev(s2, x, q)
    IN <<s1, s2, s3, SetNext(s3, q, x)>>

InsertBefore(s, q, x) ==
    LET s1 == SetPrev(s, x, s.prev[q])
        s2 == SetNext(s1, s1.prev[x], x)
        s3 == SetNext(s2, x, q)
    IN <<s1, s2, s3, SetPrev(s3, q, x)>>

Unlink(s, x) ==
    LET s1 == SetPrev(s, s.next[x], s.prev[x])
    IN <<s1, SetNext(s1, s1.prev[x], s1.next[x])>>

Final(writes) == writes[Len(writes)]

(* The nodes met from the head along one direction, at most `fuel` of them.*)
Walk(links, fuel) ==
    LET Met[k \in 0..fuel] ==
          IF k = 0 THEN <<>>
          ELSE LET m == Met[k - 1]
                   at == links[IF m = <<>> THEN HeadNode ELSE m[Len(m)]]
               IN IF at \in {HeadNode, Null} \/ Len(m) < k - 1 THEN m ELSE Append(m, at)
    IN Met[fuel]

VARIABLES links,       \* prev and next of the head and the entries
          crashes      \* workers that died inside an operation

vars == <<links, crashes>>

Nodes == Entries \cup {HeadNode}

(* SlabQueue::init.                                                        *)
Init == links = QueueInit(Zeroed(Nodes), HeadNode) /\ crashes = 0

(* queue_parts: the head and its two neighbours agree.                     *)
QueueParts(s) ==
    /\ s.next[HeadNode] # Null /\ s.prev[HeadNode] # Null
    /\ (s.next[HeadNode] = HeadNode) <=> (s.prev[HeadNode] = HeadNode)
    /\ s.prev[s.next[HeadNode]] = HeadNode /\ s.next[s.prev[HeadNode]] = HeadNode

NodeLinksUnchecked(s, x) == x # HeadNode /\ s.prev[x] # Null /\ s.next[x] # Null

(* node_links: a linked node and its neighbours agree.                     *)
NodeLinks(s, x) ==
    /\ x # HeadNode /\ s.prev[x] # Null /\ s.next[x] # Null
    /\ s.prev[x] # x /\ s.next[x] # x
    /\ s.next[s.prev[x]] = x /\ s.prev[s.next[x]] = x
    /\ s.prev[x] = s.next[x] => s.prev[x] = HeadNode

(* require_detached.                                                       *)
Detached(s, x) == s.prev[x] = Null /\ s.next[x] = Null

RemoveWrites(s, x) ==
    LET u == Unlink(s, x)
        p == SetPrev(Final(u), x, Null)
    IN u \o <<p, SetNext(p, x, Null)>>

(* An operation completes, or its worker dies after some of its writes.    *)
Completes(writes) == links' = Final(writes) /\ UNCHANGED crashes

Dies(writes) ==
    /\ crashes < MaxCrashes /\ crashes' = crashes + 1
    /\ \E i \in 1..(Len(writes) - 1) : links' = writes[i]

Runs(writes) == Completes(writes) \/ Dies(writes)

PushFront(x) ==
    /\ QueueParts(links) /\ Detached(links, x)
    /\ Runs(InsertAfter(links, HeadNode, x))

PushBack(x) ==
    /\ QueueParts(links) /\ Detached(links, x)
    /\ Runs(InsertBefore(links, HeadNode, x))

Remove(x) ==
    /\ QueueParts(links) /\ NodeLinks(links, x)
    /\ Runs(RemoveWrites(links, x))

MoveToFront(x) ==
    /\ QueueParts(links) /\ NodeLinks(links, x)
    /\ LET u == Unlink(links, x) IN Runs(u \o InsertAfter(Final(u), HeadNode, x))

Next == \E x \in Entries : PushFront(x) \/ PushBack(x) \/ Remove(x) \/ MoveToFront(x)

Spec == Init /\ [][Next]_vars

(* front, back, their mutable forms and is_empty: the neighbour of the     *)
(* head, the head of an empty queue, or Null for an error.                 *)
Edge(near) ==
    IF ~QueueParts(links) THEN Null
    ELSE IF near = HeadNode \/ NodeLinks(links, near) THEN near ELSE Null

(* SlabQueueIter: what an iteration with a limit yields, and how it ends.  *)
Iterate(limit) ==
    LET Step[k \in 0..(limit + 1)] ==
          IF k = 0 THEN [seen |-> <<>>, st |-> "more"]
          ELSE LET r == Step[k - 1]
                   from == IF r.seen = <<>> THEN HeadNode ELSE r.seen[Len(r.seen)]
                   to == links.next[from]
               IN IF r.st # "more" THEN r
                  ELSE IF ~QueueParts(links) \/ (from # HeadNode /\ ~NodeLinks(links, from))
                    THEN [r EXCEPT !.st = "error"]
                  ELSE IF to = HeadNode THEN [r EXCEPT !.st = "end"]
                  ELSE IF Len(r.seen) = limit THEN [r EXCEPT !.st = "limit"]
                  ELSE IF ~NodeLinks(links, to) THEN [r EXCEPT !.st = "error"]
                  ELSE [r EXCEPT !.seen = Append(@, to)]
    IN Step[limit + 1]

(* Types; an entry with one link only is what a dead worker left.          *)
TypeOK ==
    /\ links \in [next : [Nodes -> Nodes \cup {Null}], prev : [Nodes -> Nodes \cup {Null}]]
    /\ crashes \in 0..MaxCrashes
    /\ Cardinality({x \in Entries : (links.prev[x] = Null) # (links.next[x] = Null)})
          <= crashes

(* Where two neighbours disagree about their link.                         *)
Damage ==
    {<<a, b>> \in Nodes \X Nodes :
        \/ links.next[a] = b /\ links.prev[b] # a
        \/ links.prev[b] = a /\ links.next[a] # b}

(* The checks contain what a dead worker left: an operation that reports   *)
(* success leaves no two nodes in disagreement that agreed before it.      *)
DamageContained == crashes' = crashes => Damage' \subseteq Damage

(* An iteration terminates within its limit, never yields an entry twice,  *)
(* and if it ends without an error it has yielded the whole queue, in the  *)
(* order in which a walk backwards meets it, a crash or not; front and     *)
(* back are then its ends, and of a damaged queue neither says that it is  *)
(* empty while the other has an entry.                                     *)
IterationSound ==
    \A limit \in 0..(Cardinality(Entries) + 1) :
        LET r == Iterate(limit) IN
        /\ r.st # "more" /\ Len(r.seen) <= limit
        /\ \A i, j \in DOMAIN r.seen : r.seen[i] = r.seen[j] => i = j
        /\ r.st = "end" =>
              LET back == Walk(links.prev, Cardinality(Entries) + 1) IN
              /\ Len(back) = Len(r.seen)
              /\ \A i \in DOMAIN back : back[i] = r.seen[Len(back) + 1 - i]
              /\ Edge(links.next[HeadNode]) = Head(r.seen \o <<HeadNode>>)
              /\ Edge(links.prev[HeadNode]) = Head(back \o <<HeadNode>>)
        /\ Edge(links.next[HeadNode]) = HeadNode <=> Edge(links.prev[HeadNode]) = HeadNode

(* While no worker dies, the linked memory is a queue: every operation     *)
(* changes the sequence of its entries as its name says.                   *)
Order == Walk(links.next, Cardinality(Entries) + 1)

Queued == {Order[i] : i \in DOMAIN Order}

Others(x) == SelectSeq(Order, LAMBDA y : y # x)

IsQueue ==
    crashes' = 0 => \A x \in Entries :
        /\ PushFront(x)   => x \notin Queued /\ Order' = <<x>> \o Order
        /\ PushBack(x)    => x \notin Queued /\ Order' = Append(Order, x)
        /\ Remove(x)      => x \in Queued /\ Order' = Others(x)
        /\ MoveToFront(x) => x \in Queued /\ Order' = <<x>> \o Others(x)
=============================================================================
