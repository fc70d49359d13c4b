-------------------------- MODULE RequestHoldProofs --------------------------
(***************************************************************************)
(* Proofs about RequestHold, for any contexts, any width of the count and  *)
(* any reserve: where continuations are used as documented, every          *)
(* reference has one owner, the request lives as long as it is held, and   *)
(* the count does not overflow.  And about AsyncRequest, whose runs hold a *)
(* request: a run ends with its context, and its output is on its way.     *)
(***************************************************************************)
EXTENDS RequestHold, FiniteSetTheorems, TLAPS

ContType == [Holders -> [hold: BOOLEAN, header: BOOLEAN, body: BOOLEAN, open: BOOLEAN]]
Slots == [Holders -> BOOLEAN]

\* The continuations in k that still have their reference.
Conts(k) == Cardinality({h \in Holders : k[h].hold})

\* What a count c must cover: nginx's references in n, the holds in the slots
\* s and the continuations of k.  It covers at least them, and exactly them
\* while the request is not terminated; the holds stay below the limit that
\* hold() checks, and nginx's own references account for the rest.
Covers(c, n, s, k, t) ==
    /\ c >= n["main"] + n["sub"] + Held(s) + Conts(k)
    /\ ~t => c = n["main"] + n["sub"] + Held(s) + Conts(k)
    /\ Held(s) + Conts(k) <= MaxCountAfterHold
    /\ c <= MaxCountAfterHold + n["main"] + n["sub"]
    /\ c <= MaxCountAfterHold + NativeMax

\* Only an open continuation has a reference.
OpenInv(k) == \A h \in Holders : k[h].hold => k[h].open

IInv ==
    /\ TypeOK /\ OpenInv(cont)
    /\ lost = {}
    /\ pool => count > 0 /\ Covers(count, native, slot, cont, terminated)
    /\ ~pool => count = 0 /\ Conts(cont) = 0

-----------------------------------------------------------------------------
\* Holders are finitely many, and so are the holds in their slots.
LEMMA HeldType ==
    ASSUME NEW s \in Slots
    PROVE  /\ IsFiniteSet({h \in Holders : s[h]})
           /\ Held(s) \in Nat /\ (Held(s) = 0 <=> {h \in Holders : s[h]} = {})
<1>1. IsFiniteSet({h \in Holders : s[h]})
  BY HoldAssumption, FS_Subset
<1> QED
  BY <1>1, FS_CardinalityType, FS_EmptySet DEF Held

\* A slot that is filled adds one hold.
LEMMA HeldGrows ==
    ASSUME NEW s \in Slots, NEW h \in Holders, ~s[h]
    PROVE  [s EXCEPT ![h] = TRUE] \in Slots /\ Held([s EXCEPT ![h] = TRUE]) = Held(s) + 1
<1>1. {i \in Holders : [s EXCEPT ![h] = TRUE][i]} = {i \in Holders : s[i]} \cup {h}
  BY DEF Slots
<1> QED
  BY Zenon, <1>1, HeldType, FS_AddElement DEF Held, Slots

\* A slot that is emptied takes one away.
LEMMA HeldShrinks ==
    ASSUME NEW s \in Slots, NEW h \in Holders, s[h]
    PROVE  [s EXCEPT ![h] = FALSE] \in Slots /\ Held([s EXCEPT ![h] = FALSE]) = Held(s) - 1
<1>1. {i \in Holders : [s EXCEPT ![h] = FALSE][i]} = {i \in Holders : s[i]} \ {h}
  BY DEF Slots
<1> QED
  BY ZenonT(30), <1>1, HeldType, FS_RemoveElement DEF Held, Slots

\* Empty slots hold nothing.
LEMMA HeldEmpty == Empty \in Slots /\ Held(Empty) = 0
<1>1. {h \in Holders : Empty[h]} = {}
  BY DEF Empty
<1> QED
  BY <1>1, FS_EmptySet DEF Held, Empty, Slots

\* Continuations are finitely many.
LEMMA ContsType ==
    ASSUME NEW k \in ContType
    PROVE  /\ IsFiniteSet({h \in Holders : k[h].hold})
           /\ Conts(k) \in Nat /\ (Conts(k) = 0 <=> {h \in Holders : k[h].hold} = {})
<1>1. IsFiniteSet({h \in Holders : k[h].hold})
  BY HoldAssumption, FS_Subset
<1> QED
  BY <1>1, FS_CardinalityType, FS_EmptySet DEF Conts

\* A context that gets a reference for its continuation adds one.
LEMMA ContsGrow ==
    ASSUME NEW k \in ContType, NEW h \in Holders, NEW v,
           [k EXCEPT ![h] = v] \in ContType, ~k[h].hold, v.hold
    PROVE  Conts([k EXCEPT ![h] = v]) = Conts(k) + 1
<1>1. {i \in Holders : [k EXCEPT ![h] = v][i].hold} = {i \in Holders : k[i].hold} \cup {h}
  BY DEF ContType
<1> QED
  BY Zenon, <1>1, ContsType, FS_AddElement DEF Conts

\* A context that gives it up takes one away.
LEMMA ContsShrink ==
    ASSUME NEW k \in ContType, NEW h \in Holders, NEW v,
           [k EXCEPT ![h] = v] \in ContType, k[h].hold, ~v.hold
    PROVE  Conts([k EXCEPT ![h] = v]) = Conts(k) - 1
<1>1. {i \in Holders : [k EXCEPT ![h] = v][i].hold} = {i \in Holders : k[i].hold} \ {h}
  BY DEF ContType
<1> QED
  BY ZenonT(30), <1>1, ContsType, FS_RemoveElement DEF Conts

\* Anything else about a continuation leaves the number alone.
LEMMA ContsKeep ==
    ASSUME NEW k \in ContType, NEW h \in Holders, NEW v,
           [k EXCEPT ![h] = v] \in ContType, k[h].hold <=> v.hold
    PROVE  Conts([k EXCEPT ![h] = v]) = Conts(k)
<1>1. {i \in Holders : [k EXCEPT ![h] = v][i].hold} = {i \in Holders : k[i].hold}
  BY DEF ContType
<1> QED
  BY Zenon, <1>1 DEF Conts

-----------------------------------------------------------------------------
\* A step that settles the count on a value that covers what is then owned, or
\* on zero with nothing held, preserves the invariant.
LEMMA SettleHolds ==
    ASSUME IInv, NEW c \in Nat, NEW n \in [Requests -> Nat], NEW s \in Slots,
           Settle(c, n, s), cont' \in ContType, OpenInv(cont'),
           terminated' \in BOOLEAN, phase' \in -1..PhaseMax,
           c > 0 => Covers(c, n, s, cont', terminated'),
           c = 0 => (terminated \/ Held(s) = 0) /\ Conts(cont') = 0
    PROVE  IInv'
<1>1. pool' \in BOOLEAN /\ (pool' <=> c > 0)
  <2>1. pool' = (c > 0)
    BY Zenon, Zenon DEF Settle
  <2>2. (c > 0) \in BOOLEAN
    OBVIOUS
  <2>3. pool' \in BOOLEAN
    BY Zenon, <2>1, <2>2, Zenon
  <2> QED
    BY Zenon, <2>1, <2>3, Zenon
<1>2. slot' \in Slots /\ count' = c /\ native' = n /\ (c > 0 => slot' = s)
  BY HeldEmpty DEF Settle
<1>3. lost' = {}
  <2>1. CASE c > 0 \/ terminated
    BY <2>1 DEF Settle, IInv
  <2>2. CASE ~(c > 0 \/ terminated)
    BY <2>2, HeldType DEF Settle
  <2> QED
    BY <2>1, <2>2
<1>4. TypeOK'
  BY <1>1, <1>2, <1>3 DEF TypeOK, ContType, Slots
<1>5. pool' => count' > 0 /\ Covers(count', native', slot', cont', terminated')
  BY <1>1, <1>2
<1>6. ~pool' => count' = 0 /\ Conts(cont') = 0
  BY <1>1, <1>2
<1> QED
  BY <1>3, <1>4, <1>5, <1>6 DEF IInv, OpenInv, Covers, Conts, Held, MaxCountAfterHold

\* The facts every step starts from, as numbers.
LEMMA Facts ==
    ASSUME IInv
    PROVE  /\ cont \in ContType /\ OpenInv(cont) /\ slot \in Slots
           /\ native \in [Requests -> Nat] /\ native["main"] \in Nat /\ native["sub"] \in Nat
           /\ count \in Nat /\ Held(slot) \in Nat /\ Conts(cont) \in Nat
           /\ MaxCountAfterHold \in Nat /\ NativeMax \in Nat /\ NativeMax >= 1
           /\ terminated \in BOOLEAN /\ phase \in -1..PhaseMax
           /\ \A h \in Holders : Request(h) \in Requests
           /\ pool => count > 0 /\ Covers(count, native, slot, cont, terminated)
<1>1. /\ cont \in ContType /\ slot \in Slots /\ native \in [Requests -> Nat]
      /\ count \in Nat /\ terminated \in BOOLEAN /\ phase \in -1..PhaseMax
  BY DEF IInv, TypeOK, ContType, Slots
<1>2. native["main"] \in Nat /\ native["sub"] \in Nat
  BY <1>1 DEF Requests
<1>3. MaxCountAfterHold \in Nat /\ NativeMax \in Nat /\ NativeMax >= 1
  BY HoldAssumption DEF MaxCountAfterHold
<1>4. Held(slot) \in Nat /\ Conts(cont) \in Nat
  BY Zenon, <1>1, HeldType, ContsType
<1>5. \A h \in Holders : Request(h) \in Requests
  BY DEF Request, Requests
<1> QED
  BY <1>1, <1>2, <1>3, <1>4, <1>5 DEF IInv

\* One more or one less of nginx's references for r.
LEMMA NativeStep ==
    ASSUME NEW n \in [Requests -> Nat], NEW r \in Requests
    PROVE  /\ [n EXCEPT ![r] = @ + 1] \in [Requests -> Nat]
           /\ [n EXCEPT ![r] = @ + 1]["main"] + [n EXCEPT ![r] = @ + 1]["sub"]
                = n["main"] + n["sub"] + 1
           /\ n[r] > 0 => /\ [n EXCEPT ![r] = @ - 1] \in [Requests -> Nat]
                          /\ [n EXCEPT ![r] = @ - 1]["main"] + [n EXCEPT ![r] = @ - 1]["sub"]
                                = n["main"] + n["sub"] - 1
                          /\ n["main"] + n["sub"] > 0
           /\ n["main"] \in Nat /\ n["sub"] \in Nat
BY DEF Requests

\* Termination empties the slots and leaves nginx what the continuations do
\* not have.
LEMMA TerminateHolds ==
    ASSUME IInv, NEW c \in Nat, NEW n \in [Requests -> Nat], NEW s \in Slots, c > 0,
           cont' \in ContType, OpenInv(cont'), phase' \in -1..PhaseMax,
           Covers(c, n, s, cont', terminated), Terminate(c, s)
    PROVE  IInv'
<1> DEFINE left == IF c > Held(s) THEN c - Held(s) ELSE 1
           m == Mains(left - Conts(cont'))
<1>1. /\ Held(s) \in Nat /\ Conts(cont') \in Nat /\ n["main"] \in Nat /\ n["sub"] \in Nat
      /\ MaxCountAfterHold \in Nat /\ NativeMax \in Nat /\ NativeMax >= 1
  BY Zenon, HeldType, ContsType, Facts DEF Requests
<1>2. left \in Nat /\ left > 0 /\ left >= Conts(cont') /\ left <= MaxCountAfterHold + NativeMax
  BY <1>1 DEF Covers
<1>3. Settle(left, m, Empty) /\ terminated' = TRUE
  BY DEF Terminate, Conts
<1>4. m \in [Requests -> Nat] /\ m["main"] = left - Conts(cont') /\ m["sub"] = 0
  <2>1. left - Conts(cont') \in Nat
    BY <1>1, <1>2
  <2> HIDE DEF left
  <2> QED
    BY <2>1 DEF Mains, Requests
<1>5. Covers(left, m, Empty, cont', terminated')
  <2>1. Conts(cont') <= MaxCountAfterHold
    BY <1>1 DEF Covers
  <2> HIDE DEF left, m
  <2> QED
    BY <1>1, <1>2, <1>3, <1>4, <2>1, HeldEmpty DEF Covers
<1>6. terminated' \in BOOLEAN
  BY <1>3
<1> HIDE DEF left, m
<1>7. left = 0 => (terminated \/ Held(Empty) = 0) /\ Conts(cont') = 0
  BY <1>2
<1>8. Empty \in Slots
  BY HeldEmpty
<1> QED
  BY Zenon, <1>2, <1>3, <1>4, <1>5, <1>6, <1>7, <1>8, SettleHolds

\* nginx finalizes a request with a reference of its own: it closes, keeps or
\* terminates.
LEMMA FinalizeHolds ==
    ASSUME IInv, NEW r \in Requests, NEW c \in Nat, NEW n \in [Requests -> Nat],
           NEW s \in Slots, c > 0, n[r] > 0,
           cont' \in ContType, OpenInv(cont'), phase' \in -1..PhaseMax,
           Covers(c, n, s, cont', terminated), NginxFinalize(r, c, n, s)
    PROVE  IInv'
<1>1. /\ Held(s) \in Nat /\ Conts(cont') \in Nat /\ MaxCountAfterHold \in Nat /\ NativeMax \in Nat
      /\ terminated \in BOOLEAN
  BY Zenon, HeldType, ContsType, Facts
<1>2. CASE terminated' = terminated /\ Settle(c - 1, [n EXCEPT ![r] = @ - 1], s)
  <2> DEFINE m == [n EXCEPT ![r] = @ - 1]
  <2>1. /\ m \in [Requests -> Nat] /\ m["main"] + m["sub"] = n["main"] + n["sub"] - 1
        /\ n["main"] + n["sub"] > 0 /\ n["main"] \in Nat /\ n["sub"] \in Nat
        /\ m["main"] \in Nat /\ m["sub"] \in Nat
    BY NativeStep DEF Requests
  <2>2. Settle(c - 1, m, s) /\ c - 1 \in Nat
    BY <1>2
  <2> HIDE DEF m
  <2>3. c - 1 > 0 => Covers(c - 1, m, s, cont', terminated')
    BY <1>1, <1>2, <2>1 DEF Covers
  <2>4. c - 1 = 0 => Held(s) = 0 /\ Conts(cont') = 0
    BY <1>1, <2>1 DEF Covers
  <2> QED
    BY <1>1, <1>2, <2>1, <2>2, <2>3, <2>4, SettleHolds
<1>3. CASE terminated' = terminated /\ Settle(c, n, s)
  BY <1>1, <1>3, SettleHolds
<1>4. CASE Terminate(c, s)
  BY <1>4, TerminateHolds
<1> QED
  BY <1>2, <1>3, <1>4 DEF NginxFinalize

-----------------------------------------------------------------------------
\* A continuation that has its reference gives it up; what is left of it is
\* a consumed continuation, or none.
LEMMA Consumed ==
    ASSUME IInv, NEW h \in Holders, cont[h].hold,
           cont' = [cont EXCEPT ![h].hold = FALSE] \/ cont' = [cont EXCEPT ![h] = NoCont]
    PROVE  cont' \in ContType /\ OpenInv(cont') /\ Conts(cont') = Conts(cont) - 1
<1>1. cont \in ContType /\ OpenInv(cont)
  BY Facts
<1>2. PICK v \in [hold: BOOLEAN, header: BOOLEAN, body: BOOLEAN, open: BOOLEAN] :
        cont' = [cont EXCEPT ![h] = v] /\ ~v.hold
  <2>1. CASE cont' = [cont EXCEPT ![h].hold = FALSE]
    <3>1. [cont[h] EXCEPT !.hold = FALSE] \in [hold: BOOLEAN, header: BOOLEAN, body: BOOLEAN, open: BOOLEAN]
      BY Zenon, <1>1 DEF ContType
    <3>2. cont' = [cont EXCEPT ![h] = [cont[h] EXCEPT !.hold = FALSE]]
      BY <2>1
    <3>3. ~[cont[h] EXCEPT !.hold = FALSE].hold
      BY <1>1 DEF ContType
    <3> QED
      BY Zenon, <3>1, <3>2, <3>3
  <2>2. CASE cont' = [cont EXCEPT ![h] = NoCont]
    <3>1. NoCont \in [hold: BOOLEAN, header: BOOLEAN, body: BOOLEAN, open: BOOLEAN] /\ ~NoCont.hold
      BY DEF NoCont
    <3> QED
      BY Zenon, <2>2, <3>1
  <2> QED
    BY <2>1, <2>2
<1>3. cont' \in ContType
  BY <1>1, <1>2 DEF ContType
<1>4. OpenInv(cont')
  BY <1>1, <1>2 DEF OpenInv, ContType
<1>5. Conts([cont EXCEPT ![h] = v]) = Conts(cont) - 1
  BY Zenon, <1>1, <1>2, <1>3, ContsShrink
<1> QED
  BY <1>2, <1>3, <1>4, <1>5

\* A reference is released: the count goes down, to zero where it was the last
\* of a live request, and stays where the request is terminated.
LEMMA ReleaseHolds ==
    ASSUME IInv, pool, NEW s \in Slots, cont' \in ContType, OpenInv(cont'),
           Held(s) + Conts(cont') = Held(slot) + Conts(cont) - 1,
           Settle(release_request_reference(count), native, s),
           UNCHANGED <<terminated, phase>>
    PROVE  IInv'
<1> DEFINE c == release_request_reference(count)
<1>1. /\ Held(s) \in Nat /\ Conts(cont') \in Nat /\ count > 0
      /\ Covers(count, native, slot, cont, terminated)
  BY Zenon, HeldType, ContsType, Facts
<1>2. c \in Nat /\ Settle(c, native, s)
  BY <1>1, Facts DEF release_request_reference
<1>3. (c > 0 => Covers(c, native, s, cont', terminated')) /\ (c = 0 => Held(s) = 0 /\ Conts(cont') = 0)
  <2>1. CASE count > 1
    <3>1. c = count - 1 /\ c > 0
      BY <2>1, Facts DEF release_request_reference
    <3>2. /\ terminated' = terminated /\ native["main"] \in Nat /\ native["sub"] \in Nat
          /\ count \in Nat /\ Held(slot) \in Nat /\ Conts(cont) \in Nat
          /\ MaxCountAfterHold \in Nat /\ NativeMax \in Nat
      BY Facts
    <3> HIDE DEF c
    <3>3. Covers(c, native, s, cont', terminated)
      BY <1>1, <3>1, <3>2 DEF Covers
    <3> QED
      BY <3>1, <3>2, <3>3
  <2>2. CASE count = 1 /\ ~terminated
    <3>1. c = 0
      BY <2>2 DEF release_request_reference
    <3> HIDE DEF c
    <3> QED
      BY <1>1, <2>2, <3>1, Facts DEF Covers
  <2>3. CASE count = 1 /\ terminated
    <3>1. c = 1 /\ terminated'
      BY <2>3 DEF release_request_reference
    <3> HIDE DEF c
    <3> QED
      BY <1>1, <2>3, <3>1, Facts DEF Covers
  <2> QED
    BY <1>1, <2>1, <2>2, <2>3, Facts
<1> HIDE DEF c
<1> QED
  BY <1>2, <1>3, Facts, SettleHolds

\* A step that changes nothing but the slots and continuations, and not the
\* number of their references.
LEMMA MoveHolds ==
    ASSUME IInv, pool, slot' \in Slots, cont' \in ContType, OpenInv(cont'),
           Held(slot') + Conts(cont') = Held(slot) + Conts(cont),
           UNCHANGED <<count, native, pool, terminated, phase, lost>>
    PROVE  IInv'
<1>1. TypeOK'
  BY DEF IInv, TypeOK, ContType, Slots
<1>2. Covers(count', native', slot', cont', terminated')
  <2>1. Held(slot') \in Nat /\ Conts(cont') \in Nat
    BY Zenon, HeldType, ContsType
  <2>2. Covers(count, native, slot', cont', terminated)
    BY <2>1, Facts DEF Covers
  <2> QED
    BY <2>2
<1> QED
  BY <1>1, <1>2 DEF IInv, OpenInv, Covers, Conts, Held, MaxCountAfterHold

\* nginx's own steps.
LEMMA NginxHolds ==
    ASSUME IInv,
           \/ \E r \in Requests : NginxRetain(r) \/ NginxClose(r)
           \/ NginxTerminate \/ NginxTerminateHandler
    PROVE  IInv'
<1>1. ASSUME NEW r \in Requests, NginxRetain(r) PROVE IInv'
  <2> DEFINE m == [native EXCEPT ![r] = @ + 1]
  <2>1. /\ m \in [Requests -> Nat] /\ m["main"] + m["sub"] = native["main"] + native["sub"] + 1
        /\ m["main"] \in Nat /\ m["sub"] \in Nat
    BY NativeStep, Facts DEF Requests
  <2>2. /\ Settle(count + 1, m, slot) /\ UNCHANGED <<terminated, cont, phase>>
        /\ native["main"] + native["sub"] < NativeMax /\ pool
    BY <1>1 DEF NginxRetain, Native
  <2> HIDE DEF m
  <2>3. Covers(count + 1, m, slot, cont', terminated') /\ count + 1 \in Nat /\ count + 1 # 0
    BY <2>1, <2>2, Facts DEF Covers
  <2>4. /\ cont' \in ContType /\ OpenInv(cont')
        /\ terminated' \in BOOLEAN /\ phase' \in -1..PhaseMax
    BY <2>2, Facts
  <2> QED
    BY <2>1, <2>2, <2>3, <2>4, Facts, SettleHolds
<1>2. ASSUME NEW r \in Requests, NginxClose(r) PROVE IInv'
  <2>1. /\ pool /\ native[r] > 0 /\ UNCHANGED <<terminated, cont, phase>>
        /\ NginxFinalize(r, count, native, slot)
    BY <1>2 DEF NginxClose, NginxFinalize
  <2>2. /\ cont' \in ContType /\ OpenInv(cont') /\ phase' \in -1..PhaseMax
        /\ Covers(count, native, slot, cont', terminated)
    BY <2>1, Facts
  <2> QED
    BY <2>1, <2>2, Facts, FinalizeHolds
<1>3. ASSUME NginxTerminate PROVE IInv'
  <2>1. pool /\ UNCHANGED <<cont, phase>> /\ Terminate(count, slot)
    BY <1>3 DEF NginxTerminate
  <2>2. /\ cont' \in ContType /\ OpenInv(cont') /\ phase' \in -1..PhaseMax
        /\ Covers(count, native, slot, cont', terminated)
    BY <2>1, Facts
  <2> QED
    BY <2>1, <2>2, Facts, TerminateHolds
<1>4. ASSUME NginxTerminateHandler PROVE IInv'
  <2> DEFINE m == [r \in Requests |-> 0]
  <2>1. /\ terminated /\ Continuing = {} /\ UNCHANGED <<terminated, cont, phase>>
        /\ Settle(0, m, slot) /\ m \in [Requests -> Nat]
    BY <1>4 DEF NginxTerminateHandler
  <2>2. Conts(cont') = 0 /\ cont' \in ContType /\ OpenInv(cont')
    BY Zenon, <2>1, Facts, ContsType DEF Continuing
  <2>3. terminated' \in BOOLEAN /\ phase' \in -1..PhaseMax
    BY <2>1, Facts
  <2> HIDE DEF m
  <2>4. 0 > 0 => Covers(0, m, slot, cont', terminated')
    OBVIOUS
  <2> QED
    BY Zenon, <2>1, <2>2, <2>3, <2>4, Facts, SettleHolds
<1> QED
  BY <1>1, <1>2, <1>3, <1>4

-----------------------------------------------------------------------------
\* The operations on a hold in its slot.
LEMMA SlotHolds ==
    ASSUME IInv, NEW h \in Holders, hold(h) \/ CancelHold(h)
    PROVE  IInv'
<1>1. ASSUME hold(h) PROVE IInv'
  <2>1. /\ pool /\ ~slot[h] /\ count > 0 /\ count < MaxCountAfterHold
        /\ Settle(count + 1, native, [slot EXCEPT ![h] = TRUE])
        /\ UNCHANGED <<terminated, cont, phase>>
    BY <1>1 DEF hold, CountAdmitsHold
  <2>2. PICK s \in Slots : s = [slot EXCEPT ![h] = TRUE] /\ Held(s) = Held(slot) + 1
    BY <2>1, Facts, HeldGrows
  <2>3. Covers(count + 1, native, s, cont, terminated)
    BY <2>1, <2>2, Facts DEF Covers
  <2>4. /\ Settle(count + 1, native, s) /\ count + 1 \in Nat /\ count + 1 # 0
        /\ cont' \in ContType /\ OpenInv(cont') /\ terminated' \in BOOLEAN
        /\ phase' \in -1..PhaseMax /\ Covers(count + 1, native, s, cont', terminated')
    BY <2>1, <2>2, <2>3, Facts
  <2> QED
    BY <2>4, Facts, SettleHolds
<1>2. ASSUME CancelHold(h) PROVE IInv'
  <2>1. /\ pool /\ slot[h] /\ UNCHANGED <<terminated, cont, phase>>
        /\ Settle(release_request_reference(count), native, [slot EXCEPT ![h] = FALSE])
    BY <1>2 DEF CancelHold
  <2>2. PICK s \in Slots : s = [slot EXCEPT ![h] = FALSE] /\ Held(s) = Held(slot) - 1
    BY <2>1, Facts, HeldShrinks
  <2>3. /\ cont' \in ContType /\ OpenInv(cont')
        /\ Held(s) + Conts(cont') = Held(slot) + Conts(cont) - 1
        /\ Settle(release_request_reference(count), native, s)
    BY <2>1, <2>2, Facts
  <2> QED
    BY <2>1, <2>3, ReleaseHolds
<1> QED
  BY <1>1, <1>2

\* A hold leaves its slot for a continuation, or goes back to it.
LEMMA TakeHolds ==
    ASSUME IInv, NEW h \in Holders, take(h) \/ restore(h)
    PROVE  IInv'
<1>1. ASSUME take(h) PROVE IInv'
  <2>1. /\ pool /\ slot[h] /\ ~cont[h].open
        /\ slot' = [slot EXCEPT ![h] = FALSE] /\ cont' = [cont EXCEPT ![h] = Taken]
        /\ UNCHANGED <<count, native, pool, terminated, phase, lost>>
    BY <1>1 DEF take
  <2>2. ~cont[h].hold
    BY <2>1, Facts DEF OpenInv
  <2>3. /\ Taken \in [hold: BOOLEAN, header: BOOLEAN, body: BOOLEAN, open: BOOLEAN]
        /\ Taken.hold /\ Taken.open
    BY DEF Taken
  <2>4. cont' \in ContType /\ OpenInv(cont')
    BY <2>1, <2>3, Facts DEF ContType, OpenInv
  <2>5. Conts([cont EXCEPT ![h] = Taken]) = Conts(cont) + 1
    BY Zenon, <2>1, <2>2, <2>3, <2>4, Facts, ContsGrow
  <2>6. slot' \in Slots /\ Held(slot') = Held(slot) - 1
    BY Zenon, <2>1, Facts, HeldShrinks
  <2>7. Held(slot') + Conts(cont') = Held(slot) + Conts(cont)
    BY <2>1, <2>5, <2>6, Facts
  <2> QED
    BY <2>1, <2>4, <2>6, <2>7, MoveHolds
<1>2. ASSUME restore(h) PROVE IInv'
  <2>1. /\ pool /\ ~slot[h] /\ cont[h].hold
        /\ slot' = [slot EXCEPT ![h] = TRUE] /\ cont' = [cont EXCEPT ![h] = NoCont]
        /\ UNCHANGED <<count, native, pool, terminated, phase, lost>>
    BY <1>2 DEF restore
  <2>2. cont' \in ContType /\ OpenInv(cont') /\ Conts(cont') = Conts(cont) - 1
    BY Zenon, <2>1, Consumed
  <2>3. slot' \in Slots /\ Held(slot') = Held(slot) + 1
    BY Zenon, <2>1, Facts, HeldGrows
  <2>4. Held(slot') + Conts(cont') = Held(slot) + Conts(cont)
    BY <2>2, <2>3, Facts
  <2> QED
    BY <2>1, <2>2, <2>3, <2>4, MoveHolds
<1> QED
  BY <1>1, <1>2

\* The output calls of a continuation keep its reference.
LEMMA OutputHolds ==
    ASSUME IInv, NEW h \in Holders, call_next_header(h) \/ call_next_body(h)
    PROVE  IInv'
<1>1. /\ pool /\ cont[h].hold /\ UNCHANGED <<count, native, pool, terminated, slot, phase, lost>>
      /\ \/ cont' = [cont EXCEPT ![h] = [cont[h] EXCEPT !.header = TRUE]]
         \/ cont' = [cont EXCEPT ![h] = [cont[h] EXCEPT !.body = TRUE]]
  BY DEF call_next_header, call_next_body
<1>2. PICK v \in [hold: BOOLEAN, header: BOOLEAN, body: BOOLEAN, open: BOOLEAN] :
        cont' = [cont EXCEPT ![h] = v] /\ v.hold /\ v.open
  <2>1. cont[h] \in [hold: BOOLEAN, header: BOOLEAN, body: BOOLEAN, open: BOOLEAN] /\ cont[h].open
    BY <1>1, Facts DEF ContType, OpenInv
  <2> QED
    BY Zenon, <1>1, <2>1
<1>3. cont' \in ContType /\ OpenInv(cont')
  BY <1>2, Facts DEF ContType, OpenInv
<1>4. Conts([cont EXCEPT ![h] = v]) = Conts(cont)
  BY ZenonT(30), <1>1, <1>2, <1>3, Facts, ContsKeep
<1>5. slot' \in Slots /\ Held(slot') + Conts(cont') = Held(slot) + Conts(cont)
  BY <1>1, <1>2, <1>4, Facts
<1> QED
  BY <1>1, <1>3, <1>5, MoveHolds

\* A continuation is cancelled or dropped.
LEMMA DropHolds ==
    ASSUME IInv, NEW h \in Holders, cancel(h) \/ DropContinuation(h)
    PROVE  IInv'
<1>1. CASE cont[h].hold
  <2>1. /\ Settle(release_request_reference(count), native, slot)
        /\ UNCHANGED <<terminated, phase>>
        /\ cont' = [cont EXCEPT ![h].hold = FALSE] \/ cont' = [cont EXCEPT ![h] = NoCont]
    BY <1>1 DEF cancel, DropContinuation
  <2>2. cont' \in ContType /\ OpenInv(cont') /\ Conts(cont') = Conts(cont) - 1
    BY <1>1, <2>1, Consumed
  <2>3. pool
    <3>1. {i \in Holders : cont[i].hold} # {}
      BY <1>1
    <3>2. Conts(cont) # 0
      BY Zenon, <3>1, Facts, ContsType
    <3> QED
      BY <3>2 DEF IInv
  <2>4. Held(slot) + Conts(cont') = Held(slot) + Conts(cont) - 1
    BY <2>2, Facts
  <2> QED
    BY <2>1, <2>2, <2>3, <2>4, Facts, ReleaseHolds
<1>2. CASE ~cont[h].hold
  <2>1. /\ UNCHANGED <<count, native, pool, slot, lost, terminated, phase>>
        /\ cont' = [cont EXCEPT ![h] = NoCont]
    BY <1>2 DEF cancel, DropContinuation
  <2>2. NoCont \in [hold: BOOLEAN, header: BOOLEAN, body: BOOLEAN, open: BOOLEAN] /\ ~NoCont.hold
    BY DEF NoCont
  <2>3. cont' \in ContType /\ OpenInv(cont')
    BY <2>1, <2>2, Facts DEF ContType, OpenInv
  <2>4. Conts([cont EXCEPT ![h] = NoCont]) = Conts(cont)
    BY Zenon, <1>2, <2>1, <2>2, <2>3, Facts, ContsKeep
  <2>5. slot' \in Slots /\ Held(slot') + Conts(cont') = Held(slot) + Conts(cont)
    BY <2>1, <2>4, Facts
  <2>6. CASE pool
    BY <2>1, <2>3, <2>5, <2>6, MoveHolds
  <2>7. CASE ~pool
    <3>1. TypeOK'
      BY <2>1, <2>3 DEF IInv, TypeOK, ContType
    <3>2. Conts(cont') = 0 /\ count' = 0 /\ ~pool' /\ lost' = {}
      BY <2>1, <2>4, <2>7 DEF IInv
    <3> QED
      BY <2>3, <3>1, <3>2 DEF IInv, OpenInv, Conts
  <2> QED
    BY <2>6, <2>7
<1> QED
  BY <1>1, <1>2

\* A continuation's reference becomes nginx's, which finalizes the request.
LEMMA TransferHolds ==
    ASSUME IInv, NEW h \in Holders, pool, cont[h].hold, Consume(h),
           NginxFinalize(Request(h), count, Transferred(h), slot),
           UNCHANGED phase
    PROVE  IInv'
<1> DEFINE m == Transferred(h)
<1>1. cont' \in ContType /\ OpenInv(cont') /\ Conts(cont') = Conts(cont) - 1
  BY Zenon, Consumed DEF Consume
<1>2. /\ m \in [Requests -> Nat] /\ m["main"] + m["sub"] = native["main"] + native["sub"] + 1
      /\ m["main"] \in Nat /\ m["sub"] \in Nat /\ Request(h) \in Requests
  BY NativeStep, Facts DEF Transferred, Requests
<1>3. m[Request(h)] > 0
  BY Facts DEF Transferred
<1>4. NginxFinalize(Request(h), count, m, slot)
  OBVIOUS
<1> HIDE DEF m
<1>5. Covers(count, m, slot, cont', terminated)
  BY <1>1, <1>2, Facts DEF Covers
<1>6. phase' \in -1..PhaseMax /\ count \in Nat /\ count > 0 /\ slot \in Slots
  BY Facts
<1> QED
  BY <1>1, <1>2, <1>3, <1>4, <1>5, <1>6, FinalizeHolds

\* A continuation's reference is given up while nginx has one of its own for
\* the request: what is left of the count still covers everything.
LEMMA GivenUp ==
    ASSUME IInv, NEW h \in Holders, pool, cont[h].hold, Consume(h), count > 1
    PROVE  /\ cont' \in ContType /\ OpenInv(cont')
           /\ count - 1 \in Nat /\ count - 1 > 0
           /\ Covers(count - 1, native, slot, cont', terminated)
<1>1. cont' \in ContType /\ OpenInv(cont') /\ Conts(cont') = Conts(cont) - 1
  BY Zenon, Consumed DEF Consume
<1>2. Covers(count - 1, native, slot, cont', terminated)
  BY <1>1, Facts DEF Covers
<1> QED
  BY <1>1, <1>2, Facts

\* The terminal operations that finalize the request.
LEMMA TerminalHolds ==
    ASSUME IInv, Documented, NEW h \in Holders, finalize(h) \/ finalize_after_output(h)
    PROVE  IInv'
<1>1. pool /\ cont[h].hold /\ Consume(h) /\ UNCHANGED phase
  BY DEF finalize, finalize_after_output
<1>2. CASE NginxFinalize(Request(h), count, Transferred(h), slot)
  BY <1>1, <1>2, TransferHolds
<1>3. CASE ~NginxFinalize(Request(h), count, Transferred(h), slot)
  <2>1. /\ ReleasesAfterOutput(h)
        /\ native[Request(h)] > 0 \/ OnlyHold(h)
        /\ NginxFinalize(Request(h), count - 1, native, slot)
    BY <1>3 DEF finalize, finalize_after_output
  <2>2. count > 1 /\ native[Request(h)] > 0
    BY <2>1 DEF ReleasesAfterOutput, OnlyHold
  <2>3. /\ cont' \in ContType /\ OpenInv(cont')
        /\ count - 1 \in Nat /\ count - 1 > 0
        /\ Covers(count - 1, native, slot, cont', terminated)
    BY <1>1, <2>2, GivenUp
  <2>4. /\ phase' \in -1..PhaseMax /\ slot \in Slots /\ Request(h) \in Requests
        /\ native \in [Requests -> Nat]
    BY <1>1, Facts
  <2> QED
    BY <2>1, <2>2, <2>3, <2>4, FinalizeHolds
<1> QED
  BY <1>2, <1>3

\* The operations that resume the request's phases.
LEMMA ResumeHolds ==
    ASSUME IInv, Documented, NEW h \in Holders, resume_declined(h) \/ resume_preaccess(h)
    PROVE  IInv'
<1>1. /\ pool /\ cont[h].hold /\ Consume(h) /\ count > 1 /\ native[Request(h)] > 0
      /\ NginxRunPhases(Request(h), count - 1, native, slot)
  BY DEF resume_declined, resume_preaccess, Releasable
<1>2. phase' \in -1..PhaseMax
  BY Facts, HoldAssumption DEF resume_declined, resume_preaccess
<1>3. PICK c \in Nat : c = count - 1
  BY <1>1, Facts
<1>4. cont' \in ContType /\ OpenInv(cont') /\ c > 0 /\ Covers(c, native, slot, cont', terminated)
  BY <1>1, <1>3, GivenUp
<1>5. /\ slot \in Slots /\ Request(h) \in Requests /\ native \in [Requests -> Nat]
      /\ terminated \in BOOLEAN
  BY Facts
<1>6. CASE terminated' = terminated /\ Settle(c, native, slot)
  <2>1. Covers(c, native, slot, cont', terminated') /\ terminated' \in BOOLEAN /\ c # 0
    BY <1>4, <1>5, <1>6
  <2> QED
    BY <1>2, <1>4, <1>5, <1>6, <2>1, SettleHolds
<1>7. CASE NginxFinalize(Request(h), c, native, slot)
  BY <1>1, <1>2, <1>4, <1>5, <1>7, FinalizeHolds
<1> QED
  BY <1>1, <1>3, <1>6, <1>7 DEF NginxRunPhases

\* A hold that is posted for the next cycle is released.
LEMMA PostHolds ==
    ASSUME IInv, NEW h \in Holders, resume_phase(h)
    PROVE  IInv'
<1>1. /\ pool /\ slot[h] /\ count > 1 /\ UNCHANGED <<terminated, cont, phase>>
      /\ Settle(count - 1, native, [slot EXCEPT ![h] = FALSE])
  BY DEF resume_phase, Releasable
<1>2. PICK s \in Slots : s = [slot EXCEPT ![h] = FALSE] /\ Held(s) = Held(slot) - 1
  BY <1>1, Facts, HeldShrinks
<1>3. /\ Settle(release_request_reference(count), native, s)
      /\ cont' \in ContType /\ OpenInv(cont')
      /\ Held(s) + Conts(cont') = Held(slot) + Conts(cont) - 1
  BY <1>1, <1>2, Facts DEF release_request_reference
<1> QED
  BY <1>1, <1>3, ReleaseHolds

-----------------------------------------------------------------------------
\* The request starts with nginx's own reference and no hold.
LEMMA InitHolds == Init => IInv
<1> SUFFICES ASSUME Init PROVE IInv
  OBVIOUS
<1>1. NoCont \in [hold: BOOLEAN, header: BOOLEAN, body: BOOLEAN, open: BOOLEAN] /\ ~NoCont.hold
  BY DEF NoCont
<1>2. cont \in ContType /\ OpenInv(cont) /\ \A h \in Holders : ~cont[h].hold
  BY <1>1 DEF Init, ContType, OpenInv
<1>3. Conts(cont) = 0
  BY Zenon, <1>2, ContsType
<1>4. slot \in Slots /\ Held(slot) = 0
  BY HeldEmpty DEF Init
<1>5. native \in [Requests -> Nat] /\ native["main"] = 1 /\ native["sub"] = 0
  BY DEF Init, Mains, Requests
<1>6. TypeOK
  <2>1. pool \in BOOLEAN /\ terminated \in BOOLEAN
    BY Zenon DEF Init
  <2>2. count \in Nat /\ phase \in -1..PhaseMax /\ lost \subseteq Holders
    BY HoldAssumption DEF Init
  <2> QED
    BY <1>2, <1>4, <1>5, <2>1, <2>2 DEF TypeOK, ContType, Slots
<1>7. MaxCountAfterHold \in Nat /\ NativeMax \in Nat /\ NativeMax >= 1
  BY HoldAssumption DEF MaxCountAfterHold
<1>8. Covers(1, native, slot, cont, terminated)
  BY <1>3, <1>4, <1>5, <1>7 DEF Covers
<1> QED
  BY <1>2, <1>6, <1>8 DEF IInv, Init

\* Where continuations are used as documented, every step preserves it.
LEMMA StepHolds == Documented /\ IInv /\ [Next]_vars => IInv'
<1> SUFFICES ASSUME Documented, IInv, [Next]_vars PROVE IInv'
  OBVIOUS
<1>1. CASE \E r \in Requests : NginxRetain(r) \/ NginxClose(r)
  BY <1>1, NginxHolds
<1>2. CASE NginxTerminate \/ NginxTerminateHandler
  BY <1>2, NginxHolds
<1>3. ASSUME NEW h \in Holders, hold(h) \/ CancelHold(h) PROVE IInv'
  BY <1>3, SlotHolds
<1>4. ASSUME NEW h \in Holders, take(h) \/ restore(h) PROVE IInv'
  BY <1>4, TakeHolds
<1>5. ASSUME NEW h \in Holders, cancel(h) \/ DropContinuation(h) PROVE IInv'
  BY <1>5, DropHolds
<1>6. ASSUME NEW h \in Holders, call_next_header(h) \/ call_next_body(h) PROVE IInv'
  BY <1>6, OutputHolds
<1>7. ASSUME NEW h \in Holders, finalize(h) \/ finalize_after_output(h) PROVE IInv'
  BY <1>7, TerminalHolds
<1>8. ASSUME NEW h \in Holders, resume_declined(h) \/ resume_preaccess(h) PROVE IInv'
  BY <1>8, ResumeHolds
<1>9. ASSUME NEW h \in Holders, resume_phase(h) PROVE IInv'
  BY <1>9, PostHolds
<1>10. CASE UNCHANGED vars
  BY <1>10 DEF vars, IInv, TypeOK, OpenInv, Covers, Conts, Held, MaxCountAfterHold
<1> QED
  BY <1>1, <1>2, <1>3, <1>4, <1>5, <1>6, <1>7, <1>8, <1>9, <1>10 DEF Next

\* The invariant holds throughout.
LEMMA Invariant == Documented => (Spec => []IInv)
<1> SUFFICES ASSUME Documented PROVE Spec => []IInv
  OBVIOUS
<1>1. IInv /\ [Next]_vars => IInv'
  BY StepHolds
<1> QED
  BY <1>1, InitHolds, PTL DEF Spec

-----------------------------------------------------------------------------
\* Every reference in the main request's count has one owner, whatever the
\* number of contexts and the order in which they take, restore, cancel,
\* transfer and release (RequestHold::release, transfer_to_nginx,
\* release_for_resume), as long as the continuations that release before
\* entering nginx are used where nginx has a reference of its own.
THEOREM CountAlwaysExact == Documented => (Spec => []CountExact)
<1> SUFFICES ASSUME Documented PROVE Spec => []CountExact
  OBVIOUS
<1>1. IInv => CountExact
  <2> SUFFICES ASSUME IInv PROVE CountExact
    OBVIOUS
  <2> QED
    BY Facts DEF CountExact, Covers, Native, Holds, Conts, Continuing
<1> QED
  BY <1>1, Invariant, PTL

\* The request is never freed under a hold that is still in its slot, unless
\* nginx terminated it (RequestHold, "retains the request").
THEOREM HeldRequestAlwaysLives == Documented => (Spec => []HeldRequestLives)
<1> SUFFICES ASSUME Documented PROVE Spec => []HeldRequestLives
  OBVIOUS
<1>1. IInv => HeldRequestLives
  BY DEF IInv, HeldRequestLives
<1> QED
  BY <1>1, Invariant, PTL

\* The count never overflows its field: the reserve that hold() leaves is
\* enough for any number of nginx's own references up to it (CountOverflow).
THEOREM CountAlwaysFits == Documented => (Spec => []CountFits)
<1> SUFFICES ASSUME Documented PROVE Spec => []CountFits
  OBVIOUS
<1>1. IInv => CountFits
  <2> SUFFICES ASSUME IInv PROVE CountFits
    OBVIOUS
  <2>1. count \in Nat /\ (~pool => count = 0) /\ (pool => count <= MaxCountAfterHold + NativeMax)
    BY Facts DEF Covers, IInv
  <2> QED
    BY <2>1, HoldAssumption DEF CountFits, MaxCountAfterHold
<1> QED
  BY <1>1, Invariant, PTL

\* The request outlives the continuation that is being used, termination
\* included (RequestContinuation's drop and cancel).
THEOREM ContinuationAlwaysKeeps == Documented => (Spec => []ContinuationKeepsRequest)
<1> SUFFICES ASSUME Documented PROVE Spec => []ContinuationKeepsRequest
  OBVIOUS
<1>1. IInv => ContinuationKeepsRequest
  <2> SUFFICES ASSUME IInv, Continuing # {} PROVE pool /\ count > 0
    BY DEF ContinuationKeepsRequest
  <2>1. Conts(cont) # 0
    BY Zenon, Facts, ContsType DEF Continuing
  <2> QED
    BY <2>1 DEF IInv
<1> QED
  BY <1>1, Invariant, PTL

(***************************************************************************)
(* Asynchronous phase handlers, each run of which holds its request, for   *)
(* any requests, any number of runs and any count.                         *)
(***************************************************************************)
CONSTANTS Reqs, MaxRuns, MaxCount, TasksTerminate
VARIABLES base, reqPool, reqCount, reqPhase, posted, reqSlot, run, batch

Async == INSTANCE AsyncRequest WITH
    Requests <- Reqs, pool <- reqPool, count <- reqCount, phase <- reqPhase, slot <- reqSlot

Phases == {"run", "wait", "next", "error"}
RunType == [st : {"unused", "live", "dropped"}, output : BOOLEAN, hold : BOOLEAN,
            task : {"none", "attached", "canceled", "lost"}, active : BOOLEAN,
            phase_posted : BOOLEAN, queued : BOOLEAN]
RunsType == [Reqs -> [Async!Runs -> RunType]]

\* A run whose context has gone has nothing left but, perhaps, its future.
Over(c) ==
    \/ c = Async!Quiet(c.st)
    \/ c = [Async!Quiet("dropped") EXCEPT !.task = "canceled"]

\* A run whose context exists holds the request until it has posted it, which it
\* does with its output.
Sound(c) ==
    /\ c \in RunType
    /\ c.st = "live" => /\ c.active /\ c.hold = ~c.phase_posted
                        /\ c.phase_posted => c.output
    /\ c.st # "live" => Over(c)

\* The run in the slot of a request: its event is queued, or the request posted or
\* running, once there is an output.
Shown(c, isPosted, place) ==
    /\ c.st = "live"
    /\ c.output => c.queued \/ c.phase_posted
    /\ c.phase_posted => isPosted \/ place = "run"

\* The runs that hold the request.
RunHolders(R) == {rk \in Async!AllRuns : R[rk[1]][rk[2]].hold}

AsyncType ==
    /\ base \in 1..MaxCount /\ reqPool \in BOOLEAN /\ reqCount \in 0..MaxCount
    /\ reqPhase \in [Reqs -> Phases] /\ posted \in [Reqs -> BOOLEAN]
    /\ reqSlot \in [Reqs -> 0..MaxRuns]
    /\ run \in RunsType

RunsSound ==
    \A r \in Reqs :
        /\ \A k \in Async!Runs : Sound(run[r][k]) /\ (~reqPool => run[r][k].st # "live")
        /\ reqSlot[r] # 0 => Shown(run[r][reqSlot[r]], posted[r], reqPhase[r])

\* The inductive invariant.
AsyncInv ==
    /\ AsyncType /\ RunsSound
    /\ reqPool => reqCount = base + Cardinality(RunHolders(run))
    /\ batch \in SUBSET Async!AllRuns
    /\ ~reqPool => TasksTerminate \/ batch = {}

\* The component counts with the same operators as this module.
LEMMA SameCardinality ==
    ASSUME NEW S
    PROVE  (Async!IsFiniteSet(S) <=> IsFiniteSet(S)) /\ Async!Cardinality(S) = Cardinality(S)
BY DEF Async!IsFiniteSet, IsFiniteSet, Async!Cardinality, Cardinality

\* The runs that hold the request can be counted.
LEMMA RunHoldersFinite ==
    ASSUME Async!AsyncAssumption, NEW R
    PROVE  IsFiniteSet(RunHolders(R)) /\ Cardinality(RunHolders(R)) \in Nat
<1>1. IsFiniteSet(Async!Runs) /\ IsFiniteSet(Reqs)
  BY FS_Interval, SameCardinality DEF Async!AsyncAssumption, Async!Runs
<1>2. IsFiniteSet(Async!AllRuns)
  BY ZenonT(30), <1>1, FS_Product DEF Async!AllRuns
<1>3. RunHolders(R) \in SUBSET Async!AllRuns
  BY DEF RunHolders
<1> QED
  BY ZenonT(30), <1>2, <1>3, FS_Subset, FS_CardinalityType

\* Dropping a context leaves a sound run, without a reference.
LEMMA DropIsSound ==
    ASSUME NEW c \in RunType
    PROVE  /\ Sound(Async!DropContext(c)) /\ ~Async!DropContext(c).hold
           /\ Async!DropContext(c).st = "dropped" /\ ~Async!DropContext(c).queued
<1> DEFINE gone == [Async!Quiet("dropped") EXCEPT !.task = "canceled"]
<1>1. Async!DropContext(c) = Async!Quiet("dropped") \/ Async!DropContext(c) = gone
  BY DEF Async!DropContext, Async!Quiet
<1>2. /\ Async!Quiet("dropped") \in RunType /\ Async!Quiet("dropped").st = "dropped"
      /\ ~Async!Quiet("dropped").hold /\ ~Async!Quiet("dropped").queued
  BY DEF Async!Quiet, RunType
<1>3. gone \in RunType /\ gone.st = "dropped" /\ ~gone.hold /\ ~gone.queued
  BY DEF Async!Quiet, RunType
<1>4. Over(Async!Quiet("dropped")) /\ Over(gone)
  BY ZenonT(30), <1>2 DEF Over
<1> HIDE DEF gone
<1> QED
  BY ZenonT(30), <1>1, <1>2, <1>3, <1>4 DEF Sound

\* A run that has not begun, or whose start failed, is sound.
LEMMA QuietIsSound ==
    ASSUME NEW st \in {"unused", "dropped"}
    PROVE  Sound(Async!Quiet(st)) /\ ~Async!Quiet(st).hold /\ Async!Quiet(st).st = st
BY DEF Sound, Over, Async!Quiet, RunType

\* What a sweep of the contexts S leaves: sound runs, the others as they were, and
\* the references of the others.
Swept(R, S) ==
    /\ R \in RunsType /\ RunHolders(R) = RunHolders(run) \ S
    /\ \A r \in Reqs : \A k \in Async!Runs : Sound(R[r][k])
    /\ \A r \in Reqs : \A k \in Async!Runs : <<r, k>> \in S => R[r][k] = Async!DropContext(run[r][k])
    /\ \A r \in Reqs : \A k \in Async!Runs : <<r, k>> \notin S => R[r][k] = run[r][k]

LEMMA SweepIsSound == ASSUME AsyncInv, NEW S PROVE Swept(Async!Sweep(S), S)
<1>1. \A r \in Reqs : \A k \in Async!Runs : Sound(run[r][k]) /\ run[r][k] \in RunType
  BY ZenonT(30) DEF AsyncInv, RunsSound, Sound
<1>2. \A r \in Reqs : \A k \in Async!Runs :
        /\ <<r, k>> \in S => Async!Sweep(S)[r][k] = Async!DropContext(run[r][k])
        /\ <<r, k>> \notin S => Async!Sweep(S)[r][k] = run[r][k]
  BY DEF Async!Sweep
<1>3. \A r \in Reqs : \A k \in Async!Runs :
        Sound(Async!Sweep(S)[r][k]) /\ (<<r, k>> \in S => ~Async!Sweep(S)[r][k].hold)
  BY ZenonT(30), <1>1, <1>2, DropIsSound
<1>4. Async!Sweep(S) \in RunsType
  <2>1. \A r \in Reqs : \A k \in Async!Runs : Async!Sweep(S)[r][k] \in RunType
    BY ZenonT(30), <1>3 DEF Sound
  <2> QED
    BY <2>1 DEF Async!Sweep, RunsType
<1>5. RunHolders(Async!Sweep(S)) = RunHolders(run) \ S
  BY <1>2, <1>3 DEF RunHolders, Async!AllRuns
<1> QED
  BY ZenonT(30), <1>2, <1>3, <1>4, <1>5 DEF Swept

\* The references that a sweep gives back, and the count that is left.
LEMMA SweepCounts ==
    ASSUME Async!AsyncAssumption, AsyncInv, reqPool, NEW S \in SUBSET Async!AllRuns
    PROVE  /\ reqCount - Async!Held(S) = base + Cardinality(RunHolders(run) \ S)
           /\ reqCount - Async!Held(S) \in 1..MaxCount
<1>1. Async!Held(S) = Cardinality(RunHolders(run) \cap S)
  <2>1. Async!Holding(S) = RunHolders(run) \cap S
    BY DEF RunHolders, Async!Holding
  <2> QED
    BY ZenonT(30), <2>1, SameCardinality DEF Async!Held
<1>2. IsFiniteSet(RunHolders(run)) /\ Cardinality(RunHolders(run)) \in Nat
  BY RunHoldersFinite
<1>3. /\ IsFiniteSet(RunHolders(run) \ S) /\ IsFiniteSet(RunHolders(run) \cap S)
      /\ Cardinality(RunHolders(run) \ S)
           = Cardinality(RunHolders(run)) - Cardinality(RunHolders(run) \cap S)
  BY ZenonT(30), <1>2, FS_Difference, FS_Intersection
<1>4. Cardinality(RunHolders(run) \ S) \in Nat /\ Cardinality(RunHolders(run) \cap S) \in Nat
  BY ZenonT(30), <1>3, FS_CardinalityType
<1>5. /\ reqCount \in 0..MaxCount /\ base \in 1..MaxCount /\ MaxCount \in Nat
      /\ reqCount = base + Cardinality(RunHolders(run))
  BY DEF AsyncInv, AsyncType, Async!AsyncAssumption
<1> QED
  BY <1>1, <1>2, <1>3, <1>4, <1>5

\* A sweep of the contexts S, none of which a slot shows afterwards, in a step for
\* request q that empties its slot or leaves it.
SweepStep(S, q, ph, sl) ==
    /\ S \in SUBSET Async!AllRuns /\ ph \in Phases /\ sl \in {0, reqSlot[q]}
    /\ run' = Async!Sweep(S) /\ reqCount' = reqCount - Async!Held(S)
    /\ reqPhase' = [reqPhase EXCEPT ![q] = ph] /\ reqSlot' = [reqSlot EXCEPT ![q] = sl]
    /\ reqPool /\ reqPool' = reqPool /\ posted' = posted /\ base' = base /\ batch' = batch
    /\ \A r \in Reqs : reqSlot'[r] # 0 => <<r, reqSlot'[r]>> \notin S
    /\ sl # 0 => Shown(run[q][sl], posted[q], ph)

\* Such a step keeps the invariant.
LEMMA SweepMoves ==
    ASSUME Async!AsyncAssumption, AsyncInv, NEW q \in Reqs,
           NEW S, NEW ph, NEW sl, SweepStep(S, q, ph, sl)
    PROVE  AsyncInv'
<1>1. /\ S \in SUBSET Async!AllRuns /\ ph \in Phases /\ sl \in {0, reqSlot[q]}
      /\ run' = Async!Sweep(S) /\ reqCount' = reqCount - Async!Held(S)
      /\ reqPhase' = [reqPhase EXCEPT ![q] = ph] /\ reqSlot' = [reqSlot EXCEPT ![q] = sl]
      /\ reqPool /\ reqPool' = reqPool /\ posted' = posted /\ base' = base /\ batch' = batch
  BY DEF SweepStep
<1>2. AsyncType /\ RunsSound
  BY DEF AsyncInv
<1>3. /\ run' \in RunsType /\ RunHolders(run') = RunHolders(run) \ S
      /\ \A r \in Reqs : \A k \in Async!Runs : Sound(run'[r][k])
      /\ \A r \in Reqs : \A k \in Async!Runs : <<r, k>> \notin S => run'[r][k] = run[r][k]
  <2>1. Swept(Async!Sweep(S), S)
    BY SweepIsSound
  <2>2. Swept(run', S)
    BY ZenonT(30), <1>1, <2>1
  <2> QED
    BY ZenonT(30), <2>2 DEF Swept
<1>4. /\ reqCount' = base + Cardinality(RunHolders(run) \ S)
      /\ reqCount' \in 1..MaxCount
  BY ZenonT(30), <1>1, SweepCounts
<1>5. /\ reqPhase' \in [Reqs -> Phases] /\ reqSlot' \in [Reqs -> 0..MaxRuns]
      /\ \A r \in Reqs : IF r = q THEN reqPhase'[r] = ph /\ reqSlot'[r] = sl
                         ELSE reqPhase'[r] = reqPhase[r] /\ reqSlot'[r] = reqSlot[r]
  <2>1. 0 \in 0..MaxRuns
    BY DEF Async!AsyncAssumption
  <2> QED
    BY <1>1, <1>2, <2>1 DEF AsyncType
<1>6. AsyncType'
  <2>1. reqCount' \in 0..MaxCount
    BY <1>4 DEF Async!AsyncAssumption
  <2> QED
    BY ZenonT(30), <1>1, <1>2, <1>3, <1>5, <2>1 DEF AsyncType
<1>7. RunsSound'
  <2> SUFFICES ASSUME NEW r \in Reqs
               PROVE  /\ \A k \in Async!Runs : Sound(run'[r][k]) /\ (~reqPool' => run'[r][k].st # "live")
                      /\ reqSlot'[r] # 0 => Shown(run'[r][reqSlot'[r]], posted'[r], reqPhase'[r])
    BY DEF RunsSound
  <2>1. ASSUME reqSlot'[r] # 0 PROVE Shown(run'[r][reqSlot'[r]], posted'[r], reqPhase'[r])
    <3>1. reqSlot'[r] \in Async!Runs
      BY <1>5, <2>1 DEF Async!Runs, Async!AsyncAssumption
    <3>2. run'[r][reqSlot'[r]] = run[r][reqSlot'[r]]
      BY ZenonT(30), <1>3, <2>1, <3>1 DEF SweepStep
    <3>3. CASE r = q
      BY ZenonT(30), <1>1, <1>5, <2>1, <3>2, <3>3 DEF SweepStep
    <3>4. CASE r # q
      BY ZenonT(30), <1>1, <1>2, <1>5, <2>1, <3>2, <3>4 DEF RunsSound
    <3> QED
      BY <3>3, <3>4
  <2> QED
    BY ZenonT(30), <1>1, <1>3, <2>1
<1>8. /\ reqPool' => reqCount' = base' + Cardinality(RunHolders(run'))
      /\ batch' \in SUBSET Async!AllRuns /\ (~reqPool' => TasksTerminate \/ batch' = {})
  BY ZenonT(30), <1>1, <1>3, <1>4 DEF AsyncInv
<1> QED
  BY ZenonT(30), <1>6, <1>7, <1>8 DEF AsyncInv

\* A slot shows no stale run.
LEMMA StaleIsHidden ==
    /\ Async!Stale \in SUBSET Async!AllRuns
    /\ \A r \in Reqs : <<r, reqSlot[r]>> \notin Async!Stale
BY DEF Async!Stale

\* What a start leaves is sound, and holds the request if it succeeded.
LEMMA OpenedIsSound ==
    ASSUME NEW how \in {"started", "unspawned", "unheld"}
    PROVE  /\ Sound(Async!Opened(how)) /\ Async!Opened(how).hold = (how = "started")
           /\ \A p \in BOOLEAN : how = "started" => Shown(Async!Opened(how), p, "wait")
<1>1. Async!Started \in RunType
  BY DEF Async!Started, Async!Quiet, RunType
<1>2. CASE how = "started"
  <2>1. Async!Opened(how) = Async!Started
    BY <1>2 DEF Async!Opened
  <2>2. /\ Async!Started.st = "live" /\ Async!Started.hold = TRUE /\ Async!Started.active
        /\ Async!Started.output = FALSE /\ Async!Started.phase_posted = FALSE
    BY DEF Async!Started, Async!Quiet
  <2> QED
    BY ZenonT(30), <1>1, <1>2, <2>1, <2>2 DEF Sound, Shown
<1>3. CASE how = "unheld"
  <2>1. Async!Opened(how) = Async!DropContext(Async!Started)
    BY <1>3 DEF Async!Opened
  <2>2. Sound(Async!Opened(how)) /\ ~Async!Opened(how).hold
    BY ZenonT(30), <1>1, <2>1, DropIsSound
  <2>3. Async!Opened(how).hold \in BOOLEAN /\ how # "started"
    BY <1>3, <2>2 DEF Sound, RunType
  <2> QED
    BY ZenonT(30), <2>2, <2>3
<1>4. CASE how = "unspawned"
  <2>1. Async!Opened(how) = Async!Quiet("dropped") /\ how # "started"
    BY <1>4 DEF Async!Opened
  <2>2. Async!Quiet("dropped").hold = FALSE
    BY DEF Async!Quiet
  <2> QED
    BY ZenonT(30), <2>1, <2>2, QuietIsSound
<1> QED
  BY ZenonT(30), <1>2, <1>3, <1>4

\* AsyncPhaseHandler::handler starts a run, or fails to.
LEMMA StartHolds ==
    ASSUME Async!AsyncAssumption, AsyncInv, NEW r \in Reqs,
           NEW how \in {"started", "unspawned", "unheld"}, Async!Start(r, how)
    PROVE  AsyncInv'
<1> DEFINE S == Async!Stale
           R == Async!Sweep(S)
           left == reqCount - Async!Held(S)
           new == Async!Opened(how)
<1>1. PICK k \in Async!Runs :
          /\ run[r][k].st = "unused" /\ (how = "started" => left < MaxCount)
          /\ run' = [R EXCEPT ![r][k] = new]
          /\ reqCount' = IF how = "started" THEN left + 1 ELSE left
          /\ reqSlot' = [reqSlot EXCEPT ![r] = IF how = "started" THEN k ELSE 0]
  BY ZenonT(30) DEF Async!Start, Async!CanHold
<1> DEFINE sl == IF how = "started" THEN k ELSE 0
           ph == IF how = "started" THEN "wait" ELSE "error"
<1>2. /\ reqPool /\ reqPool' = reqPool /\ posted' = posted /\ base' = base /\ batch' = batch
      /\ reqPhase' = [reqPhase EXCEPT ![r] = ph]
  BY DEF Async!Start
<1>3. AsyncType /\ RunsSound
  BY DEF AsyncInv
<1>4. S \in SUBSET Async!AllRuns /\ <<r, k>> \notin S /\ \A q \in Reqs : <<q, reqSlot[q]>> \notin S
  BY <1>1, StaleIsHidden DEF Async!Stale
<1>5. /\ R \in RunsType /\ RunHolders(R) = RunHolders(run) \ S
      /\ \A q \in Reqs : \A j \in Async!Runs : Sound(R[q][j])
      /\ \A q \in Reqs : \A j \in Async!Runs : <<q, j>> \notin S => R[q][j] = run[q][j]
  <2>1. Swept(R, S)
    BY SweepIsSound
  <2> HIDE DEF R, S
  <2> QED
    BY ZenonT(30), <2>1 DEF Swept
<1>6. left = base + Cardinality(RunHolders(run) \ S) /\ left \in 1..MaxCount
  BY ZenonT(30), <1>2, <1>4, SweepCounts
<1>7. Sound(new) /\ new.hold = (how = "started") /\ (how = "started" => Shown(new, posted[r], "wait"))
  <2>1. posted[r] \in BOOLEAN
    BY <1>3 DEF AsyncType
  <2> QED
    BY ZenonT(30), <2>1, OpenedIsSound
<1> HIDE DEF S, R, left, new
<1>8. /\ run' \in RunsType /\ run'[r][k] = new
      /\ \A q \in Reqs : \A j \in Async!Runs : (q # r \/ j # k) => run'[q][j] = R[q][j]
  <2>1. new \in RunType
    BY <1>7 DEF Sound
  <2> QED
    BY <1>1, <1>5, <2>1 DEF RunsType
<1>9. /\ reqPhase' \in [Reqs -> Phases] /\ reqSlot' \in [Reqs -> 0..MaxRuns]
      /\ \A q \in Reqs : IF q = r THEN reqPhase'[q] = ph /\ reqSlot'[q] = sl
                         ELSE reqPhase'[q] = reqPhase[q] /\ reqSlot'[q] = reqSlot[q]
  <2>1. sl \in 0..MaxRuns /\ ph \in Phases
    BY DEF Async!Runs, Async!AsyncAssumption, Phases
  <2> QED
    BY <1>1, <1>2, <1>3, <2>1 DEF AsyncType
<1>10. AsyncType'
  <2>1. reqCount' \in 0..MaxCount
    BY <1>1, <1>6 DEF Async!AsyncAssumption
  <2> QED
    BY ZenonT(30), <1>2, <1>3, <1>8, <1>9, <2>1 DEF AsyncType
<1>11. RunsSound'
  <2> SUFFICES ASSUME NEW q \in Reqs
               PROVE  /\ \A j \in Async!Runs : Sound(run'[q][j]) /\ (~reqPool' => run'[q][j].st # "live")
                      /\ reqSlot'[q] # 0 => Shown(run'[q][reqSlot'[q]], posted'[q], reqPhase'[q])
    BY DEF RunsSound
  <2>1. \A j \in Async!Runs : Sound(run'[q][j])
    BY ZenonT(30), <1>5, <1>7, <1>8
  <2>2. ASSUME reqSlot'[q] # 0 PROVE Shown(run'[q][reqSlot'[q]], posted'[q], reqPhase'[q])
    <3>1. CASE q = r
      <4>1. how = "started" /\ reqSlot'[q] = k /\ reqPhase'[q] = "wait"
        BY <1>9, <2>2, <3>1
      <4> QED
        BY ZenonT(30), <1>2, <1>7, <1>8, <3>1, <4>1
    <3>2. CASE q # r
      <4>1. reqSlot[q] \in Async!Runs /\ reqSlot'[q] = reqSlot[q] /\ reqPhase'[q] = reqPhase[q]
        BY <1>3, <1>9, <2>2, <3>2 DEF AsyncType, Async!Runs, Async!AsyncAssumption
      <4>2. run'[q][reqSlot[q]] = run[q][reqSlot[q]]
        <5>1. run'[q][reqSlot[q]] = R[q][reqSlot[q]]
          BY ZenonT(30), <1>8, <3>2, <4>1
        <5>2. <<q, reqSlot[q]>> \notin S
          BY ZenonT(30), <1>4
        <5>3. R[q][reqSlot[q]] = run[q][reqSlot[q]]
          BY <1>5, <4>1, <5>2
        <5> QED
          BY <5>1, <5>3
      <4> QED
        BY ZenonT(30), <1>2, <1>3, <2>2, <4>1, <4>2 DEF RunsSound
    <3> QED
      BY <3>1, <3>2
  <2> QED
    BY ZenonT(30), <1>2, <2>1, <2>2
<1>12. reqCount' = base + Cardinality(RunHolders(run'))
  <2>1. <<r, k>> \notin RunHolders(run)
    <3>1. Sound(run[r][k])
      BY <1>3 DEF RunsSound
    <3>2. ~run[r][k].hold
      BY <1>1, <3>1 DEF Sound, Over, Async!Quiet
    <3> QED
      BY <3>2 DEF RunHolders
  <2>2. RunHolders(run') = IF how = "started" THEN (RunHolders(run) \ S) \cup {<<r, k>>}
                           ELSE RunHolders(run) \ S
    <3>1. RunHolders(run') = {rk \in Async!AllRuns :
             IF rk = <<r, k>> THEN how = "started" ELSE R[rk[1]][rk[2]].hold}
      <4> SUFFICES ASSUME NEW q \in Reqs, NEW j \in Async!Runs
                   PROVE  run'[q][j].hold <=>
                             IF <<q, j>> = <<r, k>> THEN how = "started" ELSE R[q][j].hold
        BY DEF RunHolders, Async!AllRuns
      <4>1. CASE q = r /\ j = k
        BY <1>7, <1>8, <4>1
      <4>2. CASE q # r \/ j # k
        BY <1>8, <4>2
      <4> QED
        BY <4>1, <4>2
    <3>2. RunHolders(run) \ S = {rk \in Async!AllRuns : R[rk[1]][rk[2]].hold}
      BY <1>5 DEF RunHolders
    <3>3. <<r, k>> \notin RunHolders(run) \ S /\ <<r, k>> \in Async!AllRuns
      BY <2>1 DEF Async!AllRuns
    <3> QED
      BY <3>1, <3>2, <3>3
  <2>3. IsFiniteSet(RunHolders(run) \ S)
    BY ZenonT(30), RunHoldersFinite, FS_Difference
  <2>4. Cardinality((RunHolders(run) \ S) \cup {<<r, k>>}) = Cardinality(RunHolders(run) \ S) + 1
    BY ZenonT(30), <2>1, <2>3, FS_AddElement
  <2>5. Cardinality(RunHolders(run) \ S) \in Nat /\ base \in Int
    <3>1. base \in Int
      BY <1>3 DEF AsyncType
    <3> QED
      BY ZenonT(30), <2>3, <3>1, FS_CardinalityType
  <2> QED
    BY <1>1, <1>6, <2>2, <2>4, <2>5
<1> QED
  BY ZenonT(30), <1>2, <1>10, <1>11, <1>12 DEF AsyncInv

\* The handler finds its run not ready.
LEMMA PendingHolds ==
    ASSUME Async!AsyncAssumption, AsyncInv, NEW r \in Reqs, Async!Pending(r)
    PROVE  AsyncInv'
<1>1. /\ reqPool /\ reqSlot[r] # 0 /\ ~Async!Ready(run[r][reqSlot[r]])
      /\ reqPool' = reqPool /\ posted' = posted /\ reqSlot' = reqSlot /\ base' = base /\ batch' = batch
      /\ reqPhase' = [reqPhase EXCEPT ![r] = "wait"] /\ run' = Async!Sweep(Async!Stale)
      /\ reqCount' = reqCount - Async!Held(Async!Stale)
  BY DEF Async!Pending
<1>2. /\ reqSlot[r] \in Async!Runs /\ "wait" \in Phases
      /\ reqSlot' = [reqSlot EXCEPT ![r] = reqSlot[r]]
  BY <1>1 DEF AsyncInv, AsyncType, Phases, Async!Runs, Async!AsyncAssumption
<1>3. Sound(run[r][reqSlot[r]]) /\ Shown(run[r][reqSlot[r]], posted[r], reqPhase[r])
  BY <1>1, <1>2 DEF AsyncInv, RunsSound
<1>4. Shown(run[r][reqSlot[r]], posted[r], "wait")
  BY ZenonT(30), <1>1, <1>3 DEF Sound, Shown, Async!Ready
<1>5. \A q \in Reqs : reqSlot'[q] # 0 => <<q, reqSlot'[q]>> \notin Async!Stale
  BY <1>1, StaleIsHidden
<1>6. SweepStep(Async!Stale, r, "wait", reqSlot[r])
  BY ZenonT(30), <1>1, <1>2, <1>4, <1>5, StaleIsHidden DEF SweepStep
<1> QED
  BY ZenonT(30), <1>6, SweepMoves

\* The handler finds its run ready, and finishes it.
LEMMA FinishHolds ==
    ASSUME Async!AsyncAssumption, AsyncInv, NEW r \in Reqs, Async!Finish(r)
    PROVE  AsyncInv'
<1> DEFINE S == {<<r, reqSlot[r]>>} \cup Async!Stale
<1>1. /\ reqPool /\ reqSlot[r] # 0 /\ reqPool' = reqPool /\ posted' = posted /\ base' = base
      /\ batch' = batch /\ reqSlot' = [reqSlot EXCEPT ![r] = 0]
      /\ reqPhase' = [reqPhase EXCEPT ![r] = "next"]
      /\ run' = Async!Sweep(S) /\ reqCount' = reqCount - Async!Held(S)
  BY DEF Async!Finish
<1>2. reqSlot[r] \in Async!Runs /\ "next" \in Phases /\ reqSlot \in [Reqs -> 0..MaxRuns]
  BY <1>1 DEF AsyncInv, AsyncType, Phases, Async!Runs, Async!AsyncAssumption
<1>3. S \in SUBSET Async!AllRuns
  BY <1>2, StaleIsHidden DEF Async!AllRuns
<1>4. \A q \in Reqs : reqSlot'[q] # 0 => <<q, reqSlot'[q]>> \notin S
  BY <1>1, <1>2, StaleIsHidden
<1> HIDE DEF S
<1>5. SweepStep(S, r, "next", 0)
  BY ZenonT(30), <1>1, <1>2, <1>3, <1>4 DEF SweepStep
<1> QED
  BY ZenonT(30), <1>5, SweepMoves

\* A step of one run, which becomes d and may give its reference back.
RunStep(r, k, d, ps) ==
    /\ Sound(d) /\ d.st = run[r][k].st /\ ps \in BOOLEAN /\ (posted[r] => ps)
    /\ run' = [run EXCEPT ![r][k] = d] /\ posted' = [posted EXCEPT ![r] = ps]
    /\ reqPool' = reqPool /\ reqPhase' = reqPhase /\ reqSlot' = reqSlot /\ base' = base
    /\ batch' \in SUBSET batch
    /\ reqSlot[r] = k => Shown(d, ps, reqPhase[r])
    /\ d.hold => run[r][k].hold
    /\ reqCount' = IF run[r][k].hold /\ ~d.hold THEN reqCount - 1 ELSE reqCount

\* Such a step keeps the invariant: the other runs stay.
LEMMA OneRunMoves ==
    ASSUME Async!AsyncAssumption, AsyncInv, NEW r \in Reqs, NEW k \in Async!Runs,
           NEW d, NEW ps, RunStep(r, k, d, ps)
    PROVE  AsyncInv'
<1>1. /\ Sound(d) /\ d.st = run[r][k].st /\ ps \in BOOLEAN /\ (posted[r] => ps)
      /\ run' = [run EXCEPT ![r][k] = d] /\ posted' = [posted EXCEPT ![r] = ps]
      /\ reqPool' = reqPool /\ reqPhase' = reqPhase /\ reqSlot' = reqSlot /\ base' = base
      /\ batch' \in SUBSET batch
  BY ZenonT(30) DEF RunStep
<1>2. AsyncType /\ RunsSound
  BY DEF AsyncInv
<1>3. /\ run' \in RunsType /\ run'[r][k] = d
      /\ \A q \in Reqs : \A j \in Async!Runs : (q # r \/ j # k) => run'[q][j] = run[q][j]
  <2>1. d \in RunType /\ run \in RunsType
    BY ZenonT(30), <1>1, <1>2 DEF Sound, AsyncType
  <2> QED
    BY <1>1, <2>1 DEF RunsType
<1>4. /\ posted' \in [Reqs -> BOOLEAN] /\ posted'[r] = ps
      /\ \A q \in Reqs : q # r => posted'[q] = posted[q]
  BY <1>1, <1>2 DEF AsyncType
<1>5. RunsSound'
  <2> SUFFICES ASSUME NEW q \in Reqs
               PROVE  /\ \A j \in Async!Runs : Sound(run'[q][j]) /\ (~reqPool' => run'[q][j].st # "live")
                      /\ reqSlot'[q] # 0 => Shown(run'[q][reqSlot'[q]], posted'[q], reqPhase'[q])
    BY DEF RunsSound
  <2>1. ASSUME NEW j \in Async!Runs PROVE Sound(run'[q][j]) /\ (~reqPool' => run'[q][j].st # "live")
    <3>1. Sound(run[q][j]) /\ (~reqPool => run[q][j].st # "live")
      BY <1>2 DEF RunsSound
    <3>2. CASE q = r /\ j = k
      BY ZenonT(30), <1>1, <1>3, <3>1, <3>2
    <3>3. CASE q # r \/ j # k
      BY ZenonT(30), <1>1, <1>3, <3>1, <3>3
    <3> QED
      BY <3>2, <3>3
  <2>2. ASSUME reqSlot[q] # 0 PROVE Shown(run'[q][reqSlot[q]], posted'[q], reqPhase[q])
    <3>1. reqSlot[q] \in Async!Runs
      BY <1>2, <2>2 DEF AsyncType, Async!Runs, Async!AsyncAssumption
    <3>2. Shown(run[q][reqSlot[q]], posted[q], reqPhase[q])
      BY <1>2, <2>2 DEF RunsSound
    <3>3. CASE q = r /\ reqSlot[q] = k
      BY ZenonT(30), <1>3, <1>4, <3>3 DEF RunStep
    <3>4. CASE q # r
      BY ZenonT(30), <1>3, <1>4, <3>1, <3>2, <3>4
    <3>5. CASE q = r /\ reqSlot[q] # k
      <4>1. run'[q][reqSlot[q]] = run[q][reqSlot[q]] /\ (posted[q] => posted'[q])
        BY ZenonT(30), <1>1, <1>3, <1>4, <3>1, <3>5
      <4> QED
        BY ZenonT(30), <3>2, <4>1 DEF Shown
    <3> QED
      BY <3>3, <3>4, <3>5
  <2> QED
    BY ZenonT(30), <1>1, <2>1, <2>2
<1>6. RunHolders(run') = IF run[r][k].hold /\ ~d.hold THEN RunHolders(run) \ {<<r, k>>}
                         ELSE RunHolders(run)
  <2>1. d.hold => run[r][k].hold
    BY DEF RunStep
  <2>2. ASSUME NEW q \in Reqs, NEW j \in Async!Runs
        PROVE  run'[q][j].hold <=> run[q][j].hold /\ (<<q, j>> = <<r, k>> => d.hold)
    <3>1. CASE q = r /\ j = k
      BY <1>3, <2>1, <3>1
    <3>2. CASE q # r \/ j # k
      BY <1>3, <3>2
    <3> QED
      BY <3>1, <3>2
  <2> QED
    BY <2>1, <2>2 DEF RunHolders, Async!AllRuns
<1>7. /\ IsFiniteSet(RunHolders(run)) /\ Cardinality(RunHolders(run)) \in Nat
      /\ run[r][k].hold => <<r, k>> \in RunHolders(run)
  BY RunHoldersFinite DEF RunHolders, Async!AllRuns
<1>8. run[r][k].hold => /\ Cardinality(RunHolders(run) \ {<<r, k>>}) = Cardinality(RunHolders(run)) - 1
                        /\ Cardinality(RunHolders(run)) # 0
  BY ZenonT(30), <1>7, FS_RemoveElement, FS_EmptySet
<1>9. reqCount' = IF run[r][k].hold /\ ~d.hold THEN reqCount - 1 ELSE reqCount
  BY DEF RunStep
<1>10. /\ reqCount \in 0..MaxCount /\ base \in 1..MaxCount /\ MaxCount \in Nat
       /\ reqPool => reqCount = base + Cardinality(RunHolders(run))
       /\ run[r][k].hold => reqPool
  <2>1. Sound(run[r][k]) /\ (~reqPool => run[r][k].st # "live")
    BY <1>2 DEF RunsSound
  <2>2. run[r][k].hold => run[r][k].st = "live"
    BY <2>1 DEF Sound, Over, Async!Quiet
  <2> QED
    BY <2>1, <2>2 DEF AsyncInv, AsyncType, Async!AsyncAssumption
<1>11. reqCount' \in 0..MaxCount /\ (reqPool => reqCount' = base + Cardinality(RunHolders(run')))
  BY <1>6, <1>7, <1>8, <1>9, <1>10
<1>12. AsyncType'
  BY ZenonT(30), <1>1, <1>2, <1>3, <1>4, <1>11 DEF AsyncType
<1>13. batch' \in SUBSET Async!AllRuns /\ (~reqPool' => TasksTerminate \/ batch' = {})
  BY <1>1 DEF AsyncInv
<1> QED
  BY ZenonT(30), <1>1, <1>5, <1>11, <1>12, <1>13 DEF AsyncInv

\* What the futures of the runs may be has no part in the rest of a sound run.
LEMMA TaskIsFree ==
    ASSUME NEW c, Sound(c), NEW t \in {"none", "lost"}, t = "none" \/ c.task = "attached",
           NEW d, d = [c EXCEPT !.task = t]
    PROVE  /\ Sound(d) /\ d.st = c.st /\ d.hold = c.hold
           /\ d.output = c.output /\ d.queued = c.queued /\ d.phase_posted = c.phase_posted
<1>1. /\ c \in RunType /\ d \in RunType /\ d.st = c.st /\ d.hold = c.hold /\ d.active = c.active
      /\ d.output = c.output /\ d.queued = c.queued /\ d.phase_posted = c.phase_posted
  BY DEF Sound, RunType
<1>2. CASE c.st = "live"
  BY ZenonT(30), <1>1, <1>2 DEF Sound
<1>3. CASE c.st # "live"
  <2>1. d = Async!Quiet(c.st)
    <3>1. Over(c)
      BY <1>3 DEF Sound
    <3>2. c.task # "attached" /\ d = [c EXCEPT !.task = "none"]
      BY <3>1 DEF Over, Async!Quiet
    <3>3. CASE c = Async!Quiet(c.st)
      <4>1. PICK st : c = Async!Quiet(st)
        BY <3>3
      <4> QED
        BY <3>2, <4>1 DEF Async!Quiet
    <3>4. CASE c = [Async!Quiet("dropped") EXCEPT !.task = "canceled"]
      BY <3>2, <3>4 DEF Async!Quiet
    <3> QED
      BY <3>1, <3>3, <3>4 DEF Over
  <2>2. d.st # "live" /\ Over(d)
    BY ZenonT(30), <1>1, <1>3, <2>1 DEF Over
  <2> QED
    BY ZenonT(30), <1>1, <2>2 DEF Sound
<1> QED
  BY ZenonT(30), <1>2, <1>3

\* handler_future stores its output and posts the event, or finds its run over.
LEMMA TaskCompletesHolds ==
    ASSUME Async!AsyncAssumption, AsyncInv, NEW r \in Reqs, NEW k \in Async!Runs,
           Async!TaskCompletes(r, k)
    PROVE  AsyncInv'
<1> DEFINE c == run[r][k]
           d == Async!HandlerFuture(c)
<1>1. Sound(c) /\ AsyncType /\ (reqSlot[r] # 0 => Shown(run[r][reqSlot[r]], posted[r], reqPhase[r]))
  BY DEF AsyncInv, RunsSound
<1>2. /\ base' = base /\ reqPool' = reqPool /\ reqCount' = reqCount /\ reqPhase' = reqPhase
      /\ posted' = posted /\ reqSlot' = reqSlot /\ batch' \in SUBSET batch
      /\ run' = [run EXCEPT ![r][k] = d]
  BY <1>1 DEF Async!TaskCompletes, AsyncType, RunsType
<1>3. posted[r] \in BOOLEAN /\ posted' = [posted EXCEPT ![r] = posted[r]] /\ k # 0
  BY <1>1, <1>2 DEF AsyncType, Async!Runs, Async!AsyncAssumption
<1>4. CASE c.active
  <2> DEFINE n == Async!Notify(c)
  <2>1. /\ c.st = "live" /\ c \in RunType
    BY <1>1, <1>4 DEF Sound, Over, Async!Quiet
  <2>2. n \in RunType /\ n.st = "live" /\ n.hold = c.hold /\ n.phase_posted = c.phase_posted
        /\ n.output = TRUE /\ n.queued = TRUE /\ n.active = c.active
    BY <2>1 DEF RunType, Async!Notify
  <2>3. d = [n EXCEPT !.task = "none"]
    BY <1>4 DEF Async!HandlerFuture
  <2> HIDE DEF n, d
  <2>4. Sound(n)
    BY ZenonT(30), <1>1, <2>1, <2>2 DEF Sound
  <2>5. /\ Sound(d) /\ d.st = n.st /\ d.hold = n.hold
        /\ d.output = n.output /\ d.queued = n.queued /\ d.phase_posted = n.phase_posted
    BY ZenonT(30), <2>3, <2>4, TaskIsFree
  <2>6. reqSlot[r] = k => Shown(d, posted[r], reqPhase[r])
    BY ZenonT(30), <1>1, <1>3, <2>2, <2>5 DEF Shown
  <2>7. /\ d.st = c.st /\ (d.hold => c.hold)
        /\ reqCount' = IF c.hold /\ ~d.hold THEN reqCount - 1 ELSE reqCount
    BY <1>2, <2>1, <2>2, <2>5
  <2>8. RunStep(r, k, d, posted[r])
    BY ZenonT(30), <1>2, <1>3, <2>5, <2>6, <2>7 DEF RunStep
  <2> QED
    BY ZenonT(30), <2>8, OneRunMoves
<1>5. CASE ~c.active
  <2>1. d = [c EXCEPT !.task = "none"]
    BY <1>5 DEF Async!HandlerFuture
  <2> HIDE DEF d
  <2>2. /\ Sound(d) /\ d.st = c.st /\ d.hold = c.hold
        /\ d.output = c.output /\ d.queued = c.queued /\ d.phase_posted = c.phase_posted
    BY ZenonT(30), <1>1, <2>1, TaskIsFree
  <2>3. reqSlot[r] = k => Shown(d, posted[r], reqPhase[r])
    BY ZenonT(30), <1>1, <1>3, <2>2 DEF Shown
  <2>4. reqCount' = IF c.hold /\ ~d.hold THEN reqCount - 1 ELSE reqCount
    BY <1>2, <2>2
  <2>5. RunStep(r, k, d, posted[r])
    BY ZenonT(30), <1>2, <1>3, <2>2, <2>3, <2>4 DEF RunStep
  <2> QED
    BY ZenonT(30), <2>5, OneRunMoves
<1> QED
  BY <1>4, <1>5

\* The scheduler drops a future.
LEMMA TaskLostHolds ==
    ASSUME Async!AsyncAssumption, AsyncInv, NEW r \in Reqs, NEW k \in Async!Runs,
           Async!TaskLost(r, k)
    PROVE  AsyncInv'
<1> DEFINE c == run[r][k]
           t == IF c.task = "attached" THEN "lost" ELSE "none"
           d == [c EXCEPT !.task = t]
<1>1. Sound(c) /\ AsyncType /\ (reqSlot[r] # 0 => Shown(run[r][reqSlot[r]], posted[r], reqPhase[r]))
  BY DEF AsyncInv, RunsSound
<1>2. /\ base' = base /\ reqPool' = reqPool /\ reqCount' = reqCount /\ reqPhase' = reqPhase
      /\ posted' = posted /\ reqSlot' = reqSlot /\ batch' \in SUBSET batch
      /\ run' = [run EXCEPT ![r][k] = d]
  BY <1>1 DEF Async!TaskLost, AsyncType, RunsType, RunType
<1>3. posted[r] \in BOOLEAN /\ posted' = [posted EXCEPT ![r] = posted[r]] /\ k # 0
  BY <1>1, <1>2 DEF AsyncType, Async!Runs, Async!AsyncAssumption
<1>4. t \in {"none", "lost"} /\ (t = "none" \/ c.task = "attached")
  OBVIOUS
<1> HIDE DEF t
<1>5. d = [c EXCEPT !.task = t]
  OBVIOUS
<1> HIDE DEF d
<1>6. /\ Sound(d) /\ d.st = c.st /\ d.hold = c.hold
      /\ d.output = c.output /\ d.queued = c.queued /\ d.phase_posted = c.phase_posted
  BY ZenonT(30), <1>1, <1>4, <1>5, TaskIsFree
<1>7. reqSlot[r] = k => Shown(d, posted[r], reqPhase[r])
  BY ZenonT(30), <1>1, <1>3, <1>6 DEF Shown
<1>8. reqCount' = IF c.hold /\ ~d.hold THEN reqCount - 1 ELSE reqCount
  BY <1>2, <1>6
<1>9. RunStep(r, k, d, posted[r])
  BY ZenonT(30), <1>2, <1>3, <1>6, <1>7, <1>8 DEF RunStep
<1> QED
  BY ZenonT(30), <1>9, OneRunMoves

\* Scheduler::process drops the cancelled futures and takes what it will run.
LEMMA ProcessHolds ==
    ASSUME Async!AsyncAssumption, AsyncInv, Async!Process
    PROVE  AsyncInv'
<1>1. /\ base' = base /\ reqPool' = reqPool /\ reqCount' = reqCount /\ reqPhase' = reqPhase
      /\ posted' = posted /\ reqSlot' = reqSlot /\ run' = Async!CancelTasks
      /\ batch' \in SUBSET Async!Runnable(run')
  BY DEF Async!Process
<1>2. AsyncType /\ RunsSound
  BY DEF AsyncInv
<1>3. ASSUME NEW r \in Reqs, NEW k \in Async!Runs
      PROVE  /\ Sound(run'[r][k]) /\ run'[r][k] \in RunType /\ run'[r][k].st = run[r][k].st
             /\ run'[r][k].hold = run[r][k].hold /\ run'[r][k].output = run[r][k].output
             /\ run'[r][k].queued = run[r][k].queued
             /\ run'[r][k].phase_posted = run[r][k].phase_posted
             /\ run[r][k].task = "canceled" => run'[r][k].task = "none"
             /\ run[r][k].task # "canceled" => run'[r][k].task = run[r][k].task
  <2> DEFINE c == run[r][k]
  <2>1. Sound(c) /\ c \in RunType
    BY <1>2 DEF RunsSound, Sound
  <2>2. run'[r][k] = [c EXCEPT !.task = IF c.task = "canceled" THEN "none" ELSE c.task]
    BY <1>1, <2>1 DEF Async!CancelTasks, RunType
  <2>3. CASE c.task = "canceled"
    <3>1. run'[r][k] = [c EXCEPT !.task = "none"]
      BY <2>2, <2>3
    <3>2. /\ Sound(run'[r][k]) /\ run'[r][k].st = c.st /\ run'[r][k].hold = c.hold
          /\ run'[r][k].output = c.output /\ run'[r][k].queued = c.queued
          /\ run'[r][k].phase_posted = c.phase_posted
      BY ZenonT(30), <2>1, <3>1, TaskIsFree
    <3>3. run'[r][k].task = "none" /\ run'[r][k] \in RunType
      BY <2>1, <3>1 DEF RunType
    <3> QED
      BY ZenonT(30), <2>3, <3>2, <3>3
  <2>4. CASE c.task # "canceled"
    <3>1. run'[r][k] = c
      BY <2>1, <2>2, <2>4 DEF RunType
    <3> QED
      BY <2>1, <2>4, <3>1
  <2> QED
    BY ZenonT(30), <2>3, <2>4
<1>4. AsyncType'
  <2>1. run' \in RunsType
    BY <1>1, <1>3 DEF RunsType, Async!CancelTasks
  <2> QED
    BY ZenonT(30), <1>1, <1>2, <2>1 DEF AsyncType
<1>5. RunsSound'
  <2> SUFFICES ASSUME NEW r \in Reqs
               PROVE  /\ \A k \in Async!Runs : Sound(run'[r][k]) /\ (~reqPool' => run'[r][k].st # "live")
                      /\ reqSlot'[r] # 0 => Shown(run'[r][reqSlot'[r]], posted'[r], reqPhase'[r])
    BY DEF RunsSound
  <2>1. /\ \A k \in Async!Runs : ~reqPool => run[r][k].st # "live"
        /\ reqSlot[r] # 0 => Shown(run[r][reqSlot[r]], posted[r], reqPhase[r])
    BY ZenonT(30), <1>2 DEF RunsSound
  <2>2. reqSlot[r] # 0 => reqSlot[r] \in Async!Runs
    BY <1>2 DEF AsyncType, Async!Runs, Async!AsyncAssumption
  <2>3. reqSlot[r] # 0 => Shown(run'[r][reqSlot[r]], posted[r], reqPhase[r])
    BY ZenonT(30), <1>3, <2>1, <2>2 DEF Shown
  <2> QED
    BY ZenonT(30), <1>1, <1>3, <2>1, <2>3
<1>6. RunHolders(run') = RunHolders(run)
  BY <1>3 DEF RunHolders, Async!AllRuns
<1>7. batch' \in SUBSET Async!AllRuns
  BY <1>1 DEF Async!Runnable
<1>8. ASSUME ~reqPool PROVE batch' = {}
  <2> SUFFICES ASSUME NEW r \in Reqs, NEW k \in Async!Runs, run'[r][k].task \in {"attached", "canceled"}
               PROVE  FALSE
    BY <1>1 DEF Async!Runnable, Async!AllRuns
  <2>1. Sound(run[r][k]) /\ run[r][k].st # "live"
    BY <1>2, <1>8 DEF RunsSound
  <2>2. run[r][k].task \in {"none", "canceled"}
    BY <2>1 DEF Sound, Over, Async!Quiet
  <2> QED
    BY <1>3, <2>2
<1> QED
  BY ZenonT(30), <1>1, <1>4, <1>5, <1>6, <1>7, <1>8 DEF AsyncInv

\* async_phase_continuation resumes the request, sweeps a context that is no longer
\* in its slot, or finds nothing to do.
LEMMA ContinuationHolds ==
    ASSUME Async!AsyncAssumption, AsyncInv, NEW r \in Reqs, NEW k \in Async!Runs,
           Async!Continuation(r, k)
    PROVE  AsyncInv'
<1> DEFINE c == run[r][k]
           resumes == Async!Waiting(c) /\ reqSlot[r] = k /\ reqCount > 1
           swept == Async!Waiting(c) /\ reqSlot[r] # k
           gone == IF swept THEN Async!Stale ELSE {}
<1>1. /\ Sound(c) /\ AsyncType /\ (~reqPool => c.st # "live") /\ k # 0
      /\ reqSlot[r] # 0 => Shown(run[r][reqSlot[r]], posted[r], reqPhase[r])
  BY DEF AsyncInv, RunsSound, Async!Runs, Async!AsyncAssumption
<1>2. /\ c.queued /\ base' = base /\ reqPool' = reqPool /\ reqPhase' = reqPhase
      /\ reqSlot' = reqSlot /\ batch' = batch
  BY ZenonT(30) DEF Async!Continuation
<1>3. /\ resumes => Async!ResumePhase(r, k)
      /\ ~resumes => /\ run' = [Async!Sweep(gone) EXCEPT ![r][k].queued = FALSE]
                     /\ reqCount' = reqCount - Async!Held(gone) /\ posted' = posted
  BY DEF Async!Continuation
<1>4. c.st = "live" /\ c.active /\ c \in RunType /\ c.hold = ~c.phase_posted /\ reqPool
  BY <1>1, <1>2 DEF Sound, Over, Async!Quiet
<1>5. /\ posted[r] \in BOOLEAN /\ run \in RunsType /\ reqPhase[r] \in Phases
      /\ reqPhase' = [reqPhase EXCEPT ![r] = reqPhase[r]]
      /\ reqSlot' = [reqSlot EXCEPT ![r] = reqSlot[r]]
      /\ posted' = posted => posted' = [posted EXCEPT ![r] = posted[r]]
  BY <1>1, <1>2 DEF AsyncType
<1>6. CASE resumes
  <2> DEFINE d == [c EXCEPT !.queued = FALSE, !.hold = FALSE, !.phase_posted = TRUE]
  <2>1. c.output /\ c.hold /\ reqSlot[r] = k
    BY <1>6 DEF Async!Waiting
  <2>2. /\ run' = [run EXCEPT ![r][k] = d] /\ reqCount' = reqCount - 1
        /\ posted' = [posted EXCEPT ![r] = TRUE]
    <3>1. /\ run' = [run EXCEPT ![r][k].queued = FALSE, ![r][k].hold = FALSE, ![r][k].phase_posted = TRUE]
          /\ reqCount' = reqCount - 1 /\ posted' = [posted EXCEPT ![r] = TRUE]
      BY ZenonT(30), <1>3, <1>6 DEF Async!ResumePhase
    <3> QED
      BY ZenonT(30), <1>5, <3>1 DEF RunType, RunsType
  <2>3. Sound(d) /\ d.st = "live" /\ ~d.hold /\ d.phase_posted
    BY ZenonT(30), <1>4, <2>1 DEF Sound, RunType
  <2> HIDE DEF d
  <2>4. Shown(d, TRUE, reqPhase[r])
    BY ZenonT(30), <2>3 DEF Shown
  <2>5. /\ d.st = c.st /\ (d.hold => c.hold) /\ batch' \in SUBSET batch
        /\ reqCount' = IF c.hold /\ ~d.hold THEN reqCount - 1 ELSE reqCount
    BY <1>2, <1>4, <2>1, <2>2, <2>3
  <2>6. RunStep(r, k, d, TRUE)
    BY ZenonT(30), <1>2, <2>2, <2>3, <2>4, <2>5 DEF RunStep
  <2> QED
    BY ZenonT(30), <2>6, OneRunMoves
<1>7. CASE swept
  <2>1. /\ ~resumes /\ <<r, k>> \in Async!Stale
    BY <1>4, <1>7 DEF Async!Stale, Async!AllRuns
  <2>2. /\ run' = [Async!Sweep(Async!Stale) EXCEPT ![r][k].queued = FALSE]
        /\ reqCount' = reqCount - Async!Held(Async!Stale) /\ posted' = posted
    BY <1>3, <1>7, <2>1
  <2>3. run' = Async!Sweep(Async!Stale)
    <3> DEFINE R == Async!Sweep(Async!Stale)
    <3>1. Swept(R, Async!Stale)
      BY SweepIsSound
    <3> HIDE DEF R
    <3>2. R \in RunsType /\ R[r][k] = Async!DropContext(c)
      BY ZenonT(30), <2>1, <3>1 DEF Swept
    <3>3. R[r][k].queued = FALSE /\ R[r][k] \in RunType
      BY <3>2, <1>4, DropIsSound DEF RunsType, RunType
    <3>4. [R[r][k] EXCEPT !.queued = FALSE] = R[r][k]
      BY <3>3 DEF RunType
    <3>5. run' = [R EXCEPT ![r][k] = [R[r][k] EXCEPT !.queued = FALSE]]
      BY ZenonT(30), <2>2, <3>2 DEF R, RunsType
    <3> QED
      BY <3>2, <3>4, <3>5 DEF RunsType, R
  <2>4. \A q \in Reqs : reqSlot'[q] # 0 => <<q, reqSlot'[q]>> \notin Async!Stale
    BY <1>2, StaleIsHidden
  <2>5. SweepStep(Async!Stale, r, reqPhase[r], reqSlot[r])
    BY ZenonT(30), <1>1, <1>2, <1>4, <1>5, <2>2, <2>3, <2>4, StaleIsHidden DEF SweepStep
  <2> QED
    BY ZenonT(30), <2>5, SweepMoves
<1>8. CASE ~resumes /\ ~swept
  <2> DEFINE d == [c EXCEPT !.queued = FALSE]
  <2>1. /\ run' = [Async!Sweep({}) EXCEPT ![r][k].queued = FALSE]
        /\ reqCount' = reqCount - Async!Held({}) /\ posted' = posted
    BY <1>3, <1>8
  <2>2. run' = [run EXCEPT ![r][k] = d]
    <3>1. Async!Sweep({}) = run
      BY <1>5 DEF Async!Sweep, RunsType
    <3>2. run' = [run EXCEPT ![r][k].queued = FALSE]
      BY ZenonT(30), <2>1, <3>1
    <3> QED
      BY ZenonT(30), <1>5, <3>2 DEF RunsType, RunType
  <2>3. reqCount' = reqCount /\ reqCount \in 0..MaxCount
    <3>1. Async!Holding({}) = {}
      BY DEF Async!Holding
    <3>2. Async!Held({}) = 0
      BY ZenonT(30), <3>1, SameCardinality, FS_EmptySet DEF Async!Held
    <3> QED
      BY <1>1, <2>1, <3>2 DEF AsyncType
  <2>4. /\ Sound(d) /\ d.st = "live" /\ d.hold = c.hold
        /\ d.output = c.output /\ d.phase_posted = c.phase_posted
    BY ZenonT(30), <1>1, <1>4 DEF Sound, RunType
  <2> HIDE DEF d
  <2>5. c.hold => reqCount > 1
    <3> SUFFICES ASSUME c.hold PROVE reqCount > 1
      OBVIOUS
    <3>1. /\ IsFiniteSet(RunHolders(run)) /\ <<r, k>> \in RunHolders(run)
          /\ Cardinality(RunHolders(run)) \in Nat
      BY RunHoldersFinite DEF RunHolders, Async!AllRuns
    <3>2. Cardinality(RunHolders(run)) # 0
      BY ZenonT(30), <3>1, FS_EmptySet
    <3>3. reqCount = base + Cardinality(RunHolders(run)) /\ base \in 1..MaxCount
      BY <1>4 DEF AsyncInv, AsyncType
    <3> QED
      BY <3>1, <3>2, <3>3 DEF Async!AsyncAssumption
  <2>6. reqSlot[r] = k => Shown(d, posted[r], reqPhase[r])
    <3> SUFFICES ASSUME reqSlot[r] = k PROVE Shown(d, posted[r], reqPhase[r])
      OBVIOUS
    <3>1. c.output => c.phase_posted
      BY ZenonT(30), <1>4, <1>8, <2>5 DEF Async!Waiting
    <3>2. Shown(c, posted[r], reqPhase[r])
      BY ZenonT(30), <1>1
    <3> QED
      BY ZenonT(30), <2>4, <3>1, <3>2 DEF Shown
  <2>7. /\ d.st = c.st /\ (d.hold => c.hold) /\ batch' \in SUBSET batch
        /\ reqCount' = IF c.hold /\ ~d.hold THEN reqCount - 1 ELSE reqCount
    BY <1>2, <1>4, <2>3, <2>4
  <2>8. RunStep(r, k, d, posted[r])
    BY ZenonT(30), <1>2, <1>5, <2>1, <2>2, <2>4, <2>6, <2>7 DEF RunStep
  <2> QED
    BY ZenonT(30), <2>8, OneRunMoves
<1> QED
  BY ZenonT(30), <1>6, <1>7, <1>8

\* nginx dispatches the write event, or redirects the request.
LEMMA DispatchHolds ==
    ASSUME Async!AsyncAssumption, AsyncInv, NEW r \in Reqs,
           Async!RunPhases(r) \/ Async!Redirect(r)
    PROVE  AsyncInv'
<1>1. AsyncType /\ RunsSound
  BY DEF AsyncInv
<1>2. /\ base' = base /\ reqPool' = reqPool /\ reqCount' = reqCount /\ run' = run /\ batch' = batch
      /\ reqPhase' = [reqPhase EXCEPT ![r] = "run"]
      /\ \/ reqSlot' = reqSlot /\ posted' = [posted EXCEPT ![r] = FALSE]
         \/ reqSlot' = [reqSlot EXCEPT ![r] = 0] /\ posted' = posted
  BY DEF Async!RunPhases, Async!Redirect
<1>3. AsyncType'
  <2>1. 0 \in 0..MaxRuns /\ "run" \in Phases
    BY DEF Phases, Async!AsyncAssumption
  <2> QED
    BY ZenonT(30), <1>1, <1>2, <2>1 DEF AsyncType
<1>4. RunsSound'
  <2> SUFFICES ASSUME NEW q \in Reqs
               PROVE  /\ \A k \in Async!Runs : Sound(run[q][k]) /\ (~reqPool => run[q][k].st # "live")
                      /\ reqSlot'[q] # 0 => Shown(run[q][reqSlot'[q]], posted'[q], reqPhase'[q])
    BY <1>2 DEF RunsSound
  <2>1. /\ \A k \in Async!Runs : Sound(run[q][k]) /\ (~reqPool => run[q][k].st # "live")
        /\ reqSlot[q] # 0 => Shown(run[q][reqSlot[q]], posted[q], reqPhase[q])
    BY <1>1 DEF RunsSound
  <2>2. IF q = r THEN reqPhase'[q] = "run" /\ reqSlot'[q] \in {0, reqSlot[q]}
        ELSE reqPhase'[q] = reqPhase[q] /\ reqSlot'[q] = reqSlot[q] /\ posted'[q] = posted[q]
    BY <1>1, <1>2 DEF AsyncType
  <2> QED
    BY ZenonT(30), <2>1, <2>2 DEF Shown
<1> QED
  BY ZenonT(30), <1>2, <1>3, <1>4 DEF AsyncInv

\* nginx terminates the request.
LEMMA HandlersEnd ==
    ASSUME Async!AsyncAssumption, AsyncInv, Async!Terminate PROVE AsyncInv'
<1> DEFINE S == {rk \in Async!AllRuns : run[rk[1]][rk[2]].st = "live"}
<1>1. AsyncType /\ RunsSound /\ batch \in SUBSET Async!AllRuns
  BY DEF AsyncInv
<1>2. /\ base' = base /\ reqPool' = FALSE /\ reqCount' = 0 /\ reqSlot' = [r \in Reqs |-> 0]
      /\ reqPhase' = reqPhase /\ batch' = batch /\ (TasksTerminate \/ batch = {})
      /\ posted' = [r \in Reqs |-> FALSE] /\ run' = Async!Sweep(S)
  BY DEF Async!Terminate
<1>3. Swept(run', S)
  BY <1>2, SweepIsSound
<1>4. /\ run' \in RunsType
      /\ \A r \in Reqs : \A k \in Async!Runs : Sound(run'[r][k])
      /\ \A r \in Reqs : \A k \in Async!Runs : <<r, k>> \in S => run'[r][k] = Async!DropContext(run[r][k])
      /\ \A r \in Reqs : \A k \in Async!Runs : <<r, k>> \notin S => run'[r][k] = run[r][k]
  <2> HIDE DEF S
  <2> QED
    BY ZenonT(30), <1>3 DEF Swept
<1>5. ASSUME NEW r \in Reqs, NEW k \in Async!Runs PROVE run'[r][k].st # "live"
  <2>1. CASE run[r][k].st = "live"
    <3>1. run'[r][k] = Async!DropContext(run[r][k])
      BY <1>4, <2>1 DEF Async!AllRuns
    <3> QED
      BY <3>1 DEF Async!DropContext, Async!Quiet
  <2>2. CASE run[r][k].st # "live"
    <3>1. run'[r][k] = run[r][k]
      BY <1>4, <2>2
    <3> QED
      BY <2>2, <3>1
  <2> QED
    BY <2>1, <2>2
<1> HIDE DEF S
<1>6. AsyncType'
  <2>1. 0 \in 0..MaxRuns /\ 0 \in 0..MaxCount
    BY DEF Async!AsyncAssumption
  <2> QED
    BY ZenonT(30), <1>1, <1>2, <1>4, <2>1 DEF AsyncType
<1>7. RunsSound'
  BY <1>2, <1>4, <1>5 DEF RunsSound
<1> QED
  BY ZenonT(30), <1>1, <1>2, <1>6, <1>7 DEF AsyncInv

\* No run has started.
LEMMA AsyncInitHolds == Async!AsyncAssumption /\ Async!Init => AsyncInv
<1> SUFFICES ASSUME Async!AsyncAssumption, Async!Init PROVE AsyncInv
  OBVIOUS
<1>1. /\ Sound(Async!Quiet("unused")) /\ ~Async!Quiet("unused").hold
      /\ Async!Quiet("unused").st = "unused"
  BY ZenonT(30), QuietIsSound
<1>2. Async!Quiet("unused") \in RunType
  BY <1>1 DEF Sound
<1>3. \A r \in Reqs : \A k \in Async!Runs : run[r][k] = Async!Quiet("unused")
  BY DEF Async!Init
<1>4. AsyncType
  BY <1>2 DEF AsyncType, Async!Init, Phases, RunsType, Async!AsyncAssumption
<1>5. RunsSound
  BY <1>1, <1>2, <1>3 DEF RunsSound, Async!Init
<1>6. RunHolders(run) = {}
  BY <1>1, <1>3 DEF RunHolders, Async!AllRuns
<1>7. Cardinality(RunHolders(run)) = 0
  BY <1>6, FS_EmptySet
<1> QED
  BY <1>4, <1>5, <1>7 DEF AsyncInv, AsyncType, Async!Init

\* Every step of a run, of its task and event, and of nginx keeps the invariant.
LEMMA AsyncInvariant == Async!AsyncAssumption => (Async!Spec => []AsyncInv)
<1> SUFFICES ASSUME Async!AsyncAssumption PROVE Async!Spec => []AsyncInv
  OBVIOUS
<1>1. Async!Init => AsyncInv
  BY AsyncInitHolds
<1>2. AsyncInv /\ [Async!Next]_Async!vars => AsyncInv'
  <2> SUFFICES ASSUME AsyncInv, [Async!Next]_Async!vars PROVE AsyncInv'
    OBVIOUS
  <2>1. CASE UNCHANGED Async!vars
    BY <2>1 DEF Async!vars, AsyncInv, AsyncType, RunsSound, RunHolders
  <2> QED
    BY ZenonT(30), <2>1, StartHolds, PendingHolds, FinishHolds, ProcessHolds, TaskCompletesHolds,
       TaskLostHolds, ContinuationHolds, DispatchHolds, HandlersEnd DEF Async!Next
<1> QED
  BY <1>1, <1>2, PTL DEF Async!Spec

\* For any number of requests and runs, in any order of completions, redirects,
\* spurious events, lost tasks and termination: the event and the reference of a
\* run end with its context, a future that is polled after it delivers nothing and
\* is not polled once the pool is gone (unless a task of the batch destroyed it),
\* each unfinished run has exactly one reference, and its output is on its way.
THEOREM HandlersAlwaysSafe ==
    Async!AsyncAssumption => (Async!Spec => []Async!HandlersSafe)
<1> SUFFICES ASSUME Async!AsyncAssumption PROVE Async!Spec => []Async!HandlersSafe
  OBVIOUS
<1>1. AsyncInv => Async!HandlersSafe
  <2> SUFFICES ASSUME AsyncInv PROVE Async!HandlersSafe
    OBVIOUS
  <2>1. /\ AsyncType
        /\ \A r \in Reqs : \A k \in Async!Runs : Sound(run[r][k]) /\ (~reqPool => run[r][k].st # "live")
        /\ \A r \in Reqs : reqSlot[r] # 0 => Shown(run[r][reqSlot[r]], posted[r], reqPhase[r])
    BY ZenonT(30) DEF AsyncInv, RunsSound
  <2>2. Async!TypeOK
    <3>1. \A r \in Reqs : reqSlot[r] # 0 => run[r][reqSlot[r]].st = "live"
      BY ZenonT(30), <2>1 DEF Shown
    <3> QED
      BY <2>1, <3>1 DEF Async!TypeOK, AsyncType, Phases, RunsType, RunType
  <2>3. Async!QuietAfterContext
    <3>1. ~reqPool => TasksTerminate \/ batch = {}
      BY DEF AsyncInv
    <3> QED
      BY ZenonT(30), <2>1, <3>1 DEF Async!QuietAfterContext, Sound, Over
  <2>4. Async!OutputOnTheWay
    <3> SUFFICES ASSUME NEW r \in Reqs, NEW k \in Async!Runs, reqSlot[r] = k, run[r][k].output
                 PROVE  run[r][k].queued \/ posted[r] \/ reqPhase[r] = "run"
      BY DEF Async!OutputOnTheWay
    <3>1. k # 0
      BY DEF Async!Runs, Async!AsyncAssumption
    <3> QED
      BY ZenonT(30), <2>1, <3>1 DEF Shown
  <2>5. Async!CountExact
    <3>1. \A r \in Reqs : \A k \in Async!Runs :
            run[r][k].hold <=> /\ run[r][k].st = "live" /\ run[r][k].active
                               /\ ~run[r][k].phase_posted
      <4> SUFFICES ASSUME NEW c, Sound(c)
                   PROVE  c.hold <=> c.st = "live" /\ c.active /\ ~c.phase_posted
        BY ZenonT(30), <2>1
      <4> QED
        BY DEF Sound, Over, Async!Quiet, RunType
    <3>2. {rk \in Reqs \X Async!Runs :
              LET c == run[rk[1]][rk[2]] IN c.st = "live" /\ c.active /\ ~c.phase_posted}
          = RunHolders(run)
      BY <3>1 DEF RunHolders, Async!AllRuns
    <3> QED
      BY ZenonT(30), <3>2, SameCardinality DEF Async!CountExact, AsyncInv
  <2> QED
    BY <2>2, <2>3, <2>4, <2>5 DEF Async!HandlersSafe
<1>2. Async!Spec => []AsyncInv
  BY AsyncInvariant
<1> QED
  BY <1>1, <1>2, PTL
=============================================================================
