----------------------------- MODULE NativeList -----------------------------
(***************************************************************************)
(* Typed views of nginx's lists (collections/list.rs).  A list is a chain  *)
(* of parts, the first inline; from_ngx_list accepts whatever nginx or     *)
(* another module left there only after is_compatible has walked it, so    *)
(* any small graph of parts is a possible input.                           *)
(***************************************************************************)
EXTENDS Naturals, Sequences, SequencesExt, FiniteSets, FiniteSetsExt

CONSTANTS Parts,      \* parts of the list, 1 the inline one
          MaxAlloc,   \* capacities 0 .. MaxAlloc
          UsizeMax

Null == 0

VARIABLES list,    \* ngx_list_t: [next, nelts, elts, nalloc, last], elts the parts with storage
          free,    \* parts the pool can still give
          view,    \* from_ngx_list_mut accepted the list
          got      \* what an iterator has yielded, with its state

vars == <<list, free, view, got>>

Idle == [part |-> Null, index |-> 0, remaining |-> 0, items |-> <<>>]

Init ==
    /\ \E linked \in {1..n : n \in 1..Cardinality(Parts)} :
       \E next \in [linked -> linked \cup {Null}], nelts \in [linked -> 0..MaxAlloc],
          nalloc \in 0..MaxAlloc, last \in linked, bare \in SUBSET {1} :
         /\ list = [next |-> [p \in Parts |-> IF p \in linked THEN next[p] ELSE Null],
                    nelts |-> [p \in Parts |-> IF p \in linked THEN nelts[p] ELSE 0],
                    elts |-> Parts \ bare, nalloc |-> nalloc, last |-> last]
         /\ free = Parts \ linked
    /\ view = FALSE /\ got = Idle

NextPart(p) == IF p = Null THEN Null ELSE list.next[p]

(* The tortoise and the hare of is_compatible: TRUE if they meet.          *)
Cyclic ==
    LET meets[n \in 0 .. 2 * Cardinality(Parts) + 1, slow \in Parts \cup {Null},
              fast \in Parts \cup {Null}] ==
          LET s == NextPart(slow)
              f == NextPart(fast)
              g == NextPart(f) IN
          IF n = 0 \/ f = Null \/ s = Null \/ g = Null THEN FALSE
          ELSE IF s = g THEN TRUE ELSE meets[n - 1, s, g]
    IN meets[2 * Cardinality(Parts) + 1, 1, 1]

(* The parts from the first on, of a list without a cycle.                 *)
Walk ==
    LET w[n \in 0..Cardinality(Parts), p \in Parts \cup {Null}] ==
          IF n = 0 \/ p = Null THEN <<>> ELSE <<p>> \o w[n - 1, NextPart(p)]
    IN w[Cardinality(Parts), 1]

(* count: None when the sum does not fit a usize.                          *)
Count == FoldLeft(LAMBDA n, p : n + list.nelts[p], 0, Walk)

PartOk(p) == list.nelts[p] <= list.nalloc /\ (list.nalloc # 0 => p \in list.elts)

(* list.last is the last part of the chain.                                *)
LastIsTail(w) == list.last = Last(w)

(* is_compatible, for a type of the list's element size.                   *)
IsCompatible ==
    /\ ~Cyclic
    /\ \A i \in DOMAIN Walk : PartOk(Walk[i])
    /\ LastIsTail(Walk) /\ Count <= UsizeMax

FromNgxList ==
    /\ ~view /\ IsCompatible /\ view' = TRUE /\ UNCHANGED <<list, free, got>>

(* ngx_list_push: into the last part, or a new part when it is full.       *)
Pushed ==
    IF list.nelts[list.last] < list.nalloc
      THEN {<<[list EXCEPT !.nelts[list.last] = @ + 1], free>>}
      ELSE {<<[list EXCEPT !.next[list.last] = p, !.last = p, !.nelts[p] = 1,
                           !.elts = @ \cup {p}], free \ {p}>> : p \in free}

(* push refuses a list without capacity and one at the limit of usize.     *)
PushAllowed == list.nalloc # 0 /\ Count # UsizeMax

Push ==
    /\ view /\ got = Idle /\ PushAllowed
    /\ \E r \in Pushed : list' = r[1] /\ free' = r[2]
    /\ UNCHANGED <<view, got>>

(* iter and raw_iter.                                                      *)
Iter ==
    /\ view /\ got = Idle /\ Count > 0
    /\ got' = [part |-> 1, index |-> 0, remaining |-> Count, items |-> <<>>]
    /\ UNCHANGED <<list, free, view>>

StepStuck(it) == [it EXCEPT !.part = NextPart(it.part)]

(* The other half of next: the following part starts at its first element. *)
StepPart(it) == [it EXCEPT !.part = NextPart(it.part), !.index = 0]

(* NgxListIter::next and the three iterators like it.                      *)
IterNext ==
    /\ got.remaining # 0 /\ got.part # Null /\ UNCHANGED <<list, free, view>>
    /\ got' = IF got.index < list.nelts[got.part]
                THEN [got EXCEPT !.items = Append(@, <<got.part, got.index>>),
                                 !.index = @ + 1, !.remaining = @ - 1]
                ELSE StepPart(got)

IterDone == got # Idle /\ got.remaining = 0 /\ got' = Idle /\ UNCHANGED <<list, free, view>>

Next == FromNgxList \/ Push \/ Iter \/ IterNext \/ IterDone

Spec == Init /\ [][Next]_vars

(* Types; a list that was accepted stays one is_compatible accepts,        *)
(* whatever is pushed, so len may rely on it.                              *)
TypeOK == got.remaining \in 0..UsizeMax /\ (view => IsCompatible)

(* The elements of the list, in order.                                     *)
Elements ==
    FlattenSeq([i \in DOMAIN Walk |-> [k \in 1 .. list.nelts[Walk[i]] |-> <<Walk[i], k - 1>>]])

(* Reachable parts and whether the list ends, from the links alone.        *)
Ends == \E n \in 1..Cardinality(Parts) : \E s \in [1..n -> Parts] :
    /\ s[1] = 1 /\ \A i \in 1 .. n - 1 : list.next[s[i]] = s[i + 1]
    /\ list.next[s[n]] = Null /\ s[n] = list.last
    /\ \A i \in 1..n : list.nelts[s[i]] <= list.nalloc

(* is_compatible accepts only lists that end, at list.last, in parts no    *)
(* longer than their capacity: the tortoise and the hare miss no cycle.    *)
AcceptedEnds == view => Ends

(* An iterator yields the elements of the list, each once and in order,    *)
(* and all of them when its count is used up.                              *)
IterationExact ==
    /\ got # Idle => IsPrefix(got.items, Elements) /\ got.remaining + Len(got.items) = Count
    /\ got.remaining # 0 => got.part # Null
=============================================================================
