-------------------------------- MODULE RbTree --------------------------------
(***************************************************************************)
(* nginx's intrusive red-black tree as the collections use it: links of    *)
(* nodes, ordered by a hash and, where hashes collide, by the key. nginx   *)
(* rebalances as it likes: a tree is any shape over the order of its nodes.*)
(* Two collections are built on it: RbTreeMap (collections/rbtree.rs), an  *)
(* ordered map whose entries are allocated blocks, and SlabRbTree          *)
(* (collections/slab_rbtree.rs), a tree in shared slab memory in which the *)
(* workers check every node's links before they use them.                  *)
(***************************************************************************)
EXTENDS Integers, Sequences, FiniteSets

CONSTANTS Buckets,   \* number of hash values, so that keys collide
          MaxNodes,  \* bound: nodes of a tree
          Blocks,    \* blocks the allocator can give: 1..n
          Keys,      \* keys of the map
          Values,
          Nodes      \* entries of the slab tree, 1..n; an entry's key is its number

Sentinel == 0

Null == -1

Hash(key) == key % Buckets

(* Ord::cmp of (hash, key): Less is -1, Equal 0, Greater 1.                *)
Sign(a, b) == IF a < b THEN -1 ELSE IF a = b THEN 0 ELSE 1

Compare(a, b) == IF Hash(a) # Hash(b) THEN Sign(Hash(a), Hash(b)) ELSE Sign(a, b)

(* A tree over 1..n: the shape in which the priorities decrease from every *)
(* node to its children. Every shape is one of these.                      *)
Shape(n, prio) ==
    LET Below(i, j) == \A k \in 1..n : (i < k /\ k <= j) \/ (j <= k /\ k < i)
                                          => prio[k] < prio[i]
        Best(K) == IF K = {} THEN Sentinel
                   ELSE CHOOSE j \in K : \A k \in K : prio[k] <= prio[j]
        left == [i \in 1..n |-> Best({j \in 1..(i - 1) : Below(i, j)})]
        right == [i \in 1..n |-> Best({j \in (i + 1)..n : Below(i, j)})]
    IN [root |-> Best(1..n), left |-> left, right |-> right,
        parent |-> [i \in 1..n |-> Best({j \in 1..n : i \in {left[j], right[j]}})]]

Priorities(n) ==
    {p \in [1..n -> 1..n] : \A i, j \in 1..n : p[i] = p[j] => i = j}

AllShapes == [n \in 0..MaxNodes |-> {Shape(n, p) : p \in Priorities(n)}]

(* The same shape over the nodes of a sequence; other nodes are detached.  *)
Relabel(shape, nodes, seq) ==
    LET At(i) == IF i = Sentinel THEN Sentinel ELSE seq[i]
        Up(i) == IF i = Sentinel THEN Null ELSE seq[i]
        Of(links, x, F(_)) ==
            IF \E i \in DOMAIN seq : seq[i] = x
              THEN F(links[CHOOSE i \in DOMAIN seq : seq[i] = x]) ELSE Null
    IN [root |-> At(shape.root), left |-> [x \in nodes |-> Of(shape.left, x, At)],
        right |-> [x \in nodes |-> Of(shape.right, x, At)],
        parent |-> [x \in nodes |-> Of(shape.parent, x, Up)]]

Shapes(nodes, seq) == {Relabel(s, nodes, seq) : s \in AllShapes[Len(seq)]}

(* ngx_rbtree_min; `edges` is the number of links followed.                *)
Min(t, x, fuel) ==
    LET At[k \in 0..fuel] ==
          IF k = 0 THEN [at |-> x, edges |-> 0]
          ELSE LET r == At[k - 1] IN
               IF t.left[r.at] = Sentinel THEN r
               ELSE [at |-> t.left[r.at], edges |-> r.edges + 1]
    IN At[fuel]

(* The descent of an insert callback: the node that becomes the parent,    *)
(* and the side; the new node is next to it in the order.                  *)
Attach(t, cmp, fuel) ==
    LET At[k \in 0..fuel] ==
          IF k = 0 THEN [at |-> t.root, less |-> FALSE, done |-> FALSE]
          ELSE LET r == At[k - 1]
                   less == cmp[r.at] < 0
                   to == IF less THEN t.left[r.at] ELSE t.right[r.at]
               IN IF r.done THEN r
                  ELSE [at |-> IF to = Sentinel THEN r.at ELSE to, less |-> less,
                        done |-> to = Sentinel]
    IN At[fuel]

Inserted(seq, t, x, cmp) ==
    IF seq = <<>> THEN <<x>>
    ELSE LET r == Attach(t, cmp, Len(seq) + 1)
             i == CHOOSE k \in DOMAIN seq : seq[k] = r.at
             n == IF r.less THEN i - 1 ELSE i
         IN SubSeq(seq, 1, n) \o <<x>> \o SubSeq(seq, n + 1, Len(seq))

Without(seq, x) == SelectSeq(seq, LAMBDA y : y # x)

(* A lookup: the node found or Sentinel, and the steps it took.            *)
Find(t, cmp, fuel) ==
    LET At[k \in 0..fuel] ==
          IF k = 0 THEN [at |-> t.root, steps |-> 0]
          ELSE LET r == At[k - 1] IN
               IF r.at = Sentinel \/ cmp[r.at] = 0 THEN r
               ELSE [at |-> IF cmp[r.at] < 0 THEN t.left[r.at] ELSE t.right[r.at],
                     steps |-> r.steps + 1]
    IN At[fuel]

(* The successor: down to the right, or up through the parents until a    *)
(* left child.                                                             *)
Climb(t, x, fuel) ==
    LET At[k \in 0..fuel] ==
          IF k = 0 THEN [at |-> x, done |-> FALSE, edges |-> 0]
          ELSE LET r == At[k - 1] IN
               IF r.done THEN r
               ELSE IF r.at = t.root THEN [r EXCEPT !.at = Null, !.done = TRUE]
               ELSE [at |-> t.parent[r.at], edges |-> r.edges + 1,
                     done |-> t.left[t.parent[r.at]] = r.at]
    IN At[fuel]

Successor(t, x, fuel) ==
    IF t.right[x] # Sentinel
      THEN LET m == Min(t, t.right[x], fuel) IN [at |-> m.at, edges |-> m.edges + 1]
      ELSE LET c == Climb(t, x, fuel) IN [at |-> c.at, edges |-> c.edges]

(***************************************************************************)
(* RbTreeMap.                                                              *)
(***************************************************************************)
VARIABLES tree,     \* links of the blocks
          order,    \* the blocks in the order of the tree
          entry,    \* entry[b]: [key, value] of an allocated block, or None
          clearing, \* the iterator of a clear in progress, or Idle
          open      \* the map is not dropped

vars == <<tree, order, entry, clearing, open>>

None == [key |-> 0, value |-> 0]

Idle == -2

Fuel == Cardinality(Blocks) + 1

(* try_new_in.                                                             *)
Init ==
    /\ order = <<>> /\ tree \in Shapes(Blocks, <<>>)
    /\ entry = [b \in Blocks |-> None] /\ clearing = Idle /\ open = TRUE

Usable == open /\ clearing = Idle

(* How a key compares with the entries in the tree.                        *)
Against(key) == [b \in {b \in Blocks : entry[b] # None} |-> Compare(key, entry[b].key)]

(* lookup.                                                                 *)
Lookup(key) == Find(tree, Against(key), Fuel).at

(* try_insert of a key that is there replaces its value; of a new key it   *)
(* allocates an entry, which the insert callback places.                   *)
Replace(key, value) ==
    /\ Usable /\ Lookup(key) # Sentinel
    /\ entry' = [entry EXCEPT ![Lookup(key)].value = value]
    /\ UNCHANGED <<tree, order, clearing, open>>

Placed(b, key) == Inserted(order, tree, b, Against(key))

Insert(key, value, b) ==
    /\ Usable /\ Lookup(key) = Sentinel /\ entry[b] = None
    /\ entry' = [entry EXCEPT ![b] = [key |-> key, value |-> value]]
    /\ order' = Placed(b, key)
    /\ tree' \in Shapes(Blocks, order')
    /\ UNCHANGED <<clearing, open>>

(* remove_entry: unlinks the entry, moves it out and frees the block.      *)
Remove(key) ==
    /\ Usable /\ Lookup(key) # Sentinel
    /\ order' = Without(order, Lookup(key)) /\ tree' \in Shapes(Blocks, order')
    /\ entry' = [entry EXCEPT ![Lookup(key)] = None]
    /\ UNCHANGED <<clearing, open>>

(* clear, also when the map is dropped: the iterator takes the successor   *)
(* of a node before the node is deleted, dropped and freed.                *)
Clear(drop) ==
    /\ Usable /\ open' = ~drop
    /\ clearing' = IF tree.root = Sentinel THEN Idle ELSE Min(tree, tree.root, Fuel).at
    /\ UNCHANGED <<tree, order, entry>>

Following(b) == Successor(tree, b, Fuel).at

ClearStep ==
    /\ clearing # Idle
    /\ clearing' = IF Following(clearing) = Null THEN Idle ELSE Following(clearing)
    /\ order' = Without(order, clearing) /\ tree' \in Shapes(Blocks, order')
    /\ entry' = [entry EXCEPT ![clearing] = None]
    /\ UNCHANGED open

Next ==
    \/ \E k \in Keys :
        \/ Remove(k)
        \/ \E v \in Values : Replace(k, v) \/ \E b \in Blocks : Insert(k, v, b)
    \/ ClearStep \/ \E drop \in BOOLEAN : Clear(drop)

(* The iterators.                                                          *)
Iterated ==
    LET At[k \in 0..Fuel] ==
          IF k = 0 THEN <<>>
          ELSE IF k = 1 THEN IF tree.root = Sentinel THEN <<>>
                             ELSE <<Min(tree, tree.root, Fuel).at>>
          ELSE LET m == At[k - 1] IN
               IF Len(m) < k - 1 \/ Successor(tree, m[k - 1], Fuel).at = Null THEN m
               ELSE Append(m, Successor(tree, m[k - 1], Fuel).at)
    IN At[Fuel]

(* Exactly the linked blocks hold entries: none is freed while it is linked *)
(* and none is unlinked and kept, the map dropped or not.                  *)
EntriesLinked ==
    /\ {order[i] : i \in DOMAIN order} = {b \in Blocks : entry[b] # None}
    /\ clearing # Idle => entry[clearing] # None
    /\ ~open /\ clearing = Idle => order = <<>>

(* The tree stays ordered by hash and key, whatever nginx rotates, and so  *)
(* a lookup finds a key exactly when some entry has it.                    *)
LookupExact ==
    /\ \A i, j \in DOMAIN order : i < j =>
          Compare(entry[order[i]].key, entry[order[j]].key) < 0
    /\ \A k \in Keys : (Lookup(k) # Sentinel) <=> \E b \in Blocks : entry[b].key = k

(* An iteration yields every entry once, in order.                         *)
IterationExact == Iterated = order

(* What the map holds; an insertion of a key changes or adds the value of  *)
(* this key alone, a removal takes this key alone, colliding keys or not.  *)
Content == {entry[b] : b \in Blocks} \ {None}

IsMap ==
    \A k \in Keys :
        LET others == {e \in Content : e.key # k} IN
        /\ Remove(k) => Content' = others
        /\ \A v \in Values :
              Replace(k, v) \/ (\E b \in Blocks : Insert(k, v, b)) =>
                  Content' = others \cup {[key |-> k, value |-> v]}

(***************************************************************************)
(* SlabRbTree.                                                             *)
(***************************************************************************)
VARIABLES slabTree,  \* links of the entries
          slabOrder  \* the linked entries in the order of the tree

slabVars == <<slabTree, slabOrder>>

SlabFuel == Cardinality(Nodes) + 1

SlabInit == slabOrder = <<>> /\ slabTree \in Shapes(Nodes, <<>>)

Linked(x) == \E i \in DOMAIN slabOrder : slabOrder[i] = x

(* insert: only a zeroed node, and nginx calls the tree's own callback.    *)
Detached(t, x) == t.left[x] = Null /\ t.right[x] = Null /\ t.parent[x] = Null

SlabInsert(x) ==
    /\ Detached(slabTree, x)
    /\ slabOrder' = Inserted(slabOrder, slabTree, x, [y \in Nodes |-> Compare(x, y)])
    /\ slabTree' \in Shapes(Nodes, slabOrder')

(* child and node_links: what is checked before a node's links are used.   *)
Child(t, x, c) == c # Sentinel => (c # Null /\ c # x /\ t.parent[c] = x)

NodeLinks(t, x) ==
    /\ Child(t, x, t.left[x]) /\ Child(t, x, t.right[x])
    /\ t.left[x] = t.right[x] => t.left[x] = Sentinel
    /\ IF x = t.root THEN t.parent[x] = Null
       ELSE /\ t.parent[x] \notin {Null, Sentinel}
            /\ (t.left[t.parent[x]] = x) # (t.right[t.parent[x]] = x)

(* ngx_rbtree_delete: a root with one child is replaced by it, and the     *)
(* child keeps its parent link; otherwise nginx rebalances.                *)
OnlyChild(t, x) == (t.left[x] = Sentinel) # (t.right[x] = Sentinel)

Delete(x, seq) ==
    {IF x = slabTree.root /\ OnlyChild(slabTree, x) THEN [s EXCEPT !.parent[s.root] = x] ELSE s :
        s \in Shapes(Nodes, seq)}

RootKept(s) == s

(* remove clears the root's parent and zeroes the node.                    *)
RootReset(s) == IF s.root = Sentinel THEN s ELSE [s EXCEPT !.parent[s.root] = Null]

Zeroed(s, x) == [s EXCEPT !.left[x] = Null, !.right[x] = Null, !.parent[x] = Null]

SlabRemove(x) ==
    /\ Linked(x) /\ NodeLinks(slabTree, x)
    /\ slabOrder' = Without(slabOrder, x)
    /\ \E s \in Delete(x, slabOrder') :
          slabTree' = Zeroed(RootReset(s), x)

SlabNext == \E x \in Nodes : SlabInsert(x) \/ SlabRemove(x)

(* find_by and find_by_mut: "limit" when max_steps nodes were visited.     *)
FindBy(key, max_steps) ==
    LET r == Find(slabTree, [y \in Nodes |-> Compare(key, y)], SlabFuel)
        visited == IF r.at = Sentinel THEN r.steps ELSE r.steps + 1
    IN IF visited > max_steps THEN "limit" ELSE IF r.at = Sentinel THEN "none" ELSE "found"

(* SlabRbTreeIter: the entries it yields and the links it follows; with    *)
(* a limit of zero it looks at nothing but the root.                       *)
SlabIterate(max_entries) ==
    LET first == IF max_entries = 0 THEN [at |-> slabTree.root, edges |-> 0]
                 ELSE Min(slabTree, slabTree.root, SlabFuel)
        Start == [seen |-> <<>>, at |-> IF slabTree.root = Sentinel THEN Null ELSE first.at,
                  steps |-> IF slabTree.root = Sentinel THEN 0 ELSE first.edges, st |-> "more"]
        At[k \in 0..SlabFuel] ==
          IF k = 0 THEN Start
          ELSE LET r == At[k - 1] IN
               IF r.st # "more" THEN r
               ELSE IF r.at = Null THEN [r EXCEPT !.st = "end"]
               ELSE IF Len(r.seen) = max_entries THEN [r EXCEPT !.st = "limit"]
               ELSE LET n == Successor(slabTree, r.at, SlabFuel) IN
                    [r EXCEPT !.seen = Append(@, r.at), !.at = n.at, !.steps = @ + n.edges]
    IN At[SlabFuel]

(* iter: a traversal may follow twice as many links as nodes fit in the    *)
(* mapping.                                                                *)
MaxSteps(nodes) == 2 * nodes

(* The checks never reject a tree that was only used through this API: all *)
(* links of all linked nodes satisfy node_links, also after nginx promoted *)
(* the only child of a removed root.                                       *)
NoFalseAlarm == \A x \in Nodes : Linked(x) => NodeLinks(slabTree, x)

(* A search finds an entry exactly if it is in the tree; a limit of as     *)
(* many steps as there are entries is never exceeded.                      *)
FindExact ==
    \A x \in Nodes : FindBy(x, Len(slabOrder)) = IF Linked(x) THEN "found" ELSE "none"

(* An iteration yields the entries in order, all of them or up to its      *)
(* limit, and its own bound on followed links never stops it.              *)
SlabIterationExact ==
    \A max \in 0..SlabFuel :
        LET r == SlabIterate(max) IN
        /\ r.steps <= MaxSteps(Len(slabOrder))
        /\ r.seen = SubSeq(slabOrder, 1, Len(r.seen))
        /\ r.st = IF Len(slabOrder) <= max THEN "end" ELSE "limit"
=============================================================================
