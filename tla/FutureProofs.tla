---------------------------- MODULE FutureProofs -----------------------------
(***************************************************************************)
(* Proofs about the futures a local task awaits, for any subrequests and   *)
(* tasks, any range of nginx's clock and any names.                        *)
(*                                                                         *)
(* Subrequest: the handler's outcome reaches its one future, announced and *)
(* unchanged, and no handler works for a future that was dropped.  Sleep:  *)
(* a sleep lasts as long as it was asked for, however the clock wraps.     *)
(* Resolver: nginx's context goes back to it once, and an answer is        *)
(* announced.                                                              *)
(***************************************************************************)
EXTENDS Integers, TLAPS

(***************************************************************************)
(* Subrequests.                                                            *)
(***************************************************************************)
CONSTANTS Subs, Tasks, MaxFinalize, MaxMoves
VARIABLES pool, stage, cell, calls, drops, runs, future, owner, moves, output, waker,
          canceled, ready, result, body

Sub == INSTANCE Subrequest

SubTypes ==
    /\ pool \in BOOLEAN /\ moves \in 0..MaxMoves /\ ready \subseteq Tasks
    /\ stage \in [Subs -> {"unbuilt", "failed", "running", "handler", "done"}]
    /\ cell \in [Subs -> {"none", "some", "empty"}]
    /\ calls \in [Subs -> {0, 1}] /\ drops \in [Subs -> {0, 1}]
    /\ runs \in [Subs -> 0..MaxFinalize]
    /\ future \in [Subs -> {"none", "pending", "consumed", "dropped"}]
    /\ owner \in [Subs -> Tasks] /\ waker \in [Subs -> Tasks \cup {"none"}]
    /\ output \in [Subs -> {"none", "value", "canceled"}]
    /\ canceled \in [Subs -> BOOLEAN]
    /\ result \in [Subs -> {"none", "value", "canceled"}]
    /\ body \in [Subs -> {"none", "own", "parent"}]

\* nginx's side of a subrequest: where the closure is, and what became of it.
HandlerOK(po, st, ce, ca, dr) ==
    /\ st = "running" <=> ce = "some"
    /\ st \in {"running", "handler"} => po
    /\ dr = IF st \in {"unbuilt", "running", "handler"} THEN 0 ELSE 1
    /\ st = "handler" => ca = 1
    /\ st \in {"unbuilt", "failed", "running"} => ca = 0

\* The future's side.
FutureOK(st, ca, dr, fu, ou, wa, cn, rs, ow, re) ==
    /\ fu = "none" <=> st = "unbuilt"
    /\ fu = "dropped" <=> cn
    /\ fu = "consumed" <=> rs # "none"
    /\ wa # "none" => fu = "pending"
    /\ ou # "none" => fu = "pending" /\ dr = 1 /\ wa = "none" /\ ow \in re
    /\ fu = "pending" => (dr = 1 => ou # "none")
    /\ fu = "pending" => wa = ow \/ ow \in re
    /\ ou = "value" \/ rs = "value" => ca = 1
    /\ ou = "canceled" \/ rs = "canceled" => ca = 0 /\ dr = 1
    /\ rs # "none" => dr = 1

SubRight(s) ==
    /\ HandlerOK(pool, stage[s], cell[s], calls[s], drops[s])
    /\ FutureOK(stage[s], calls[s], drops[s], future[s], output[s], waker[s],
                canceled[s], result[s], owner[s], ready)

SubInv == SubTypes /\ \A s \in Subs : SubRight(s)

\* What SubInv says of one subrequest.
SubIs(s) ==
    /\ SubRight(s)
    /\ stage[s] \in {"unbuilt", "failed", "running", "handler", "done"}
    /\ cell[s] \in {"none", "some", "empty"}
    /\ calls[s] \in {0, 1} /\ drops[s] \in {0, 1}
    /\ future[s] \in {"none", "pending", "consumed", "dropped"}
    /\ owner[s] \in Tasks /\ waker[s] \in Tasks \cup {"none"}
    /\ output[s] \in {"none", "value", "canceled"} /\ canceled[s] \in BOOLEAN
    /\ result[s] \in {"none", "value", "canceled"}

-----------------------------------------------------------------------------
\* The invariant implies what SubrequestsSafe promises.
LEMMA SubMeaning == SubInv => Sub!SubrequestsSafe
  <1> SUFFICES ASSUME SubInv PROVE Sub!SubrequestsSafe
    OBVIOUS
  <1> USE DEF SubInv, SubTypes, SubRight, HandlerOK, FutureOK, Sub!none
  <1>1. Sub!TypeOK
    BY DEF Sub!TypeOK
  <1>2. Sub!ConsumedOnce
    BY DEF Sub!ConsumedOnce
  <1>3. Sub!AnswerIsAnnounced
    BY DEF Sub!AnswerIsAnnounced
  <1>4. Sub!ValueFromHandler
    BY DEF Sub!ValueFromHandler
  <1> QED BY <1>1, <1>2, <1>3, <1>4 DEF Sub!SubrequestsSafe

\* The invariant, of one subrequest.
LEMMA SubIndeed ==
  ASSUME NEW s \in Subs, SubInv
  PROVE  SubIs(s)
  BY DEF SubInv, SubTypes, SubIs

\* A future's state stays right when more tasks are ready.
LEMMA MoreReady ==
  ASSUME NEW st, NEW ca, NEW dr, NEW fu, NEW ou, NEW wa, NEW cn, NEW rs, NEW ow,
         NEW re, NEW more, re \subseteq more,
         FutureOK(st, ca, dr, fu, ou, wa, cn, rs, ow, re)
  PROVE  FutureOK(st, ca, dr, fu, ou, wa, cn, rs, ow, more)
  BY DEF FutureOK

\* A subrequest that a step leaves alone.
LEMMA SubFrame ==
  ASSUME SubInv, NEW s \in Subs, pool' = pool, stage'[s] = stage[s], cell'[s] = cell[s],
         calls'[s] = calls[s], drops'[s] = drops[s], future'[s] = future[s],
         output'[s] = output[s], waker'[s] = waker[s], canceled'[s] = canceled[s],
         result'[s] = result[s], owner'[s] = owner[s], ready \subseteq ready'
  PROVE  SubRight(s)'
  <1> USE DEF SubIs, SubRight
  <1>1. SubIs(s)
    BY SubIndeed
  <1>2. FutureOK(stage[s], calls[s], drops[s], future[s], output[s], waker[s],
                 canceled[s], result[s], owner[s], ready')
    BY <1>1, MoreReady
  <1> QED BY Zenon, <1>1, <1>2

\* AsyncSubRequestState::complete: an outcome is taken where it is accepted, and
\* the waker that was stored there is woken.
LEMMA Completes ==
  ASSUME SubInv, NEW D, D \subseteq Subs, NEW x \in {"value", "canceled"},
         Sub!Complete([s \in D |-> x])
  PROVE  /\ output' \in [Subs -> {"none", "value", "canceled"}]
         /\ waker' \in [Subs -> Tasks \cup {"none"}]
         /\ ready' \subseteq Tasks /\ ready \subseteq ready'
         /\ \A s \in Subs : IF s \in D /\ Sub!Accepts(s)
               THEN /\ output'[s] = x /\ waker'[s] = "none"
                    /\ waker[s] # "none" => waker[s] \in ready'
               ELSE output'[s] = output[s] /\ waker'[s] = waker[s]
  <1> DEFINE out == [s \in D |-> x]
             took == {s \in DOMAIN out : Sub!Accepts(s)}
  <1>1. /\ output' = [s \in Subs |-> IF s \in took THEN out[s] ELSE output[s]]
        /\ ready' = ready \cup ({waker[s] : s \in took} \ {"none"})
        /\ waker' = [s \in Subs |-> IF s \in took THEN "none" ELSE waker[s]]
    BY DEF Sub!Complete, Sub!none
  <1>2. took = {s \in D : Sub!Accepts(s)} /\ \A s \in D : out[s] = x
    OBVIOUS
  <1> HIDE DEF out, took
  <1>3. \A s \in took : waker[s] \in Tasks \cup {"none"}
    BY <1>2 DEF SubInv, SubTypes
  <1>4. ready' \subseteq Tasks /\ ready \subseteq ready'
    BY <1>1, <1>3 DEF SubInv, SubTypes
  <1>5. \A s \in took : output'[s] = x /\ waker'[s] = "none"
                           /\ (waker[s] # "none" => waker[s] \in ready')
    BY <1>1, <1>2
  <1>6. \A s \in Subs : s \notin took => output'[s] = output[s] /\ waker'[s] = waker[s]
    BY <1>1
  <1>7. /\ output' \in [Subs -> {"none", "value", "canceled"}]
        /\ waker' \in [Subs -> Tasks \cup {"none"}]
    BY <1>1, <1>2 DEF SubInv, SubTypes
  <1> QED BY <1>2, <1>4, <1>5, <1>6, <1>7

-----------------------------------------------------------------------------
\* The invariant holds before anything is built.
LEMMA SubInits == Sub!SubAssumption /\ Sub!Init => SubInv
  <1> USE DEF SubIs, SubRight
  <1> SUFFICES ASSUME Sub!SubAssumption, Sub!Init PROVE SubInv
    OBVIOUS
  <1>1. SubTypes
    BY DEF Sub!Init, SubTypes, Sub!SubAssumption, Sub!none
  <1>2. ASSUME NEW s \in Subs
        PROVE  SubRight(s)
    <2>1. /\ pool /\ stage[s] = "unbuilt" /\ cell[s] = "none" /\ calls[s] = 0
          /\ drops[s] = 0 /\ future[s] = "none" /\ output[s] = "none"
          /\ waker[s] = "none" /\ ~canceled[s] /\ result[s] = "none"
      BY DEF Sub!Init, Sub!none
    <2> QED BY <2>1 DEF HandlerOK, FutureOK
  <1> QED BY <1>1, <1>2 DEF SubInv

\* SubRequestBuilder::build_async that succeeds.
LEMMA SubBuild ==
  ASSUME SubInv, NEW b \in Subs, NEW o \in Sub!Options, Sub!Build(b, o)
  PROVE  SubInv'
  <1> USE DEF SubIs, SubRight
  <1>1. /\ pool /\ stage[b] = "unbuilt" /\ pool' = pool
        /\ stage' = [stage EXCEPT ![b] = "running"]
        /\ cell' = [cell EXCEPT ![b] = "some"]
        /\ future' = [future EXCEPT ![b] = "pending"]
        /\ ready' = ready \cup {owner[b]}
        /\ calls' = calls /\ drops' = drops /\ runs' = runs /\ owner' = owner
        /\ moves' = moves /\ output' = output /\ waker' = waker
        /\ canceled' = canceled /\ result' = result
    BY DEF Sub!Build
  <1>2. body' \in [Subs -> {"none", "own", "parent"}]
    <2>1. \E w \in {"own", "parent"} : body' = [body EXCEPT ![b] = w]
      BY Zenon DEF Sub!Build
    <2> QED BY <2>1 DEF SubInv, SubTypes
  <1>3. SubTypes'
    <2>1. ready' \subseteq Tasks
      BY <1>1 DEF SubInv, SubTypes
    <2>2. stage' \in [Subs -> {"unbuilt", "failed", "running", "handler", "done"}]
      BY <1>1 DEF SubInv, SubTypes
    <2>3. cell' \in [Subs -> {"none", "some", "empty"}]
      BY <1>1 DEF SubInv, SubTypes
    <2>4. future' \in [Subs -> {"none", "pending", "consumed", "dropped"}]
      BY <1>1 DEF SubInv, SubTypes
    <2> QED BY Zenon, <1>1, <1>2, <2>1, <2>2, <2>3, <2>4 DEF SubInv, SubTypes
  <1>4. ASSUME NEW s \in Subs
        PROVE  SubRight(s)'
    <2>1. CASE s # b
      <3>1. stage'[s] = stage[s] /\ cell'[s] = cell[s] /\ future'[s] = future[s]
        BY <1>1, <2>1 DEF SubInv, SubTypes
      <3>2. ready \subseteq ready'
        BY <1>1
      <3> QED BY Zenon, <1>1, <3>1, <3>2, SubFrame
    <2>2. CASE s = b
      <3>1. /\ stage'[s] = "running" /\ cell'[s] = "some" /\ future'[s] = "pending"
            /\ owner[s] \in ready'
        BY <1>1, <2>2 DEF SubInv, SubTypes
      <3>2. SubIs(s)
        BY SubIndeed
      <3> QED BY <1>1, <2>2, <3>1, <3>2 DEF HandlerOK, FutureOK
    <2> QED BY <2>1, <2>2
  <1> QED BY <1>3, <1>4 DEF SubInv

\* SubRequestBuilder::build_async that fails.
LEMMA SubBuildFails ==
  ASSUME SubInv, NEW b \in Subs, Sub!BuildFails(b)
  PROVE  SubInv'
  <1> USE DEF SubIs, SubRight
  <1>1. /\ pool /\ stage[b] = "unbuilt" /\ pool' = pool
        /\ stage' = [stage EXCEPT ![b] = "failed"]
        /\ canceled' = [canceled EXCEPT ![b] = TRUE]
        /\ future' = [future EXCEPT ![b] = "dropped"]
        /\ cell' = cell /\ calls' = calls /\ runs' = runs /\ owner' = owner
        /\ moves' = moves /\ output' = output /\ waker' = waker /\ ready' = ready
        /\ result' = result /\ body' = body
    BY DEF Sub!BuildFails
  <1>2. drops' = [drops EXCEPT ![b] = 1]
    <2>1. drops[b] = 0
      BY <1>1, SubIndeed DEF HandlerOK
    <2> QED BY <2>1 DEF Sub!BuildFails
  <1>3. SubTypes'
    BY <1>1, <1>2 DEF SubInv, SubTypes
  <1>4. ASSUME NEW s \in Subs
        PROVE  SubRight(s)'
    <2>1. CASE s # b
      <3>1. /\ stage'[s] = stage[s] /\ drops'[s] = drops[s] /\ future'[s] = future[s]
            /\ canceled'[s] = canceled[s]
        BY <1>1, <1>2, <2>1 DEF SubInv, SubTypes
      <3>2. ready \subseteq ready'
        BY <1>1
      <3> QED BY Zenon, <1>1, <3>1, <3>2, SubFrame
    <2>2. CASE s = b
      <3>1. /\ stage'[s] = "failed" /\ drops'[s] = 1 /\ future'[s] = "dropped"
            /\ canceled'[s]
        BY <1>1, <1>2, <2>2 DEF SubInv, SubTypes
      <3>2. SubIs(s)
        BY SubIndeed
      <3> QED BY <1>1, <2>2, <3>1, <3>2 DEF HandlerOK, FutureOK
    <2> QED BY <2>1, <2>2
  <1> QED BY <1>3, <1>4 DEF SubInv

\* run_handler, the first time and later.
LEMMA SubRunHandler ==
  ASSUME Sub!SubAssumption, SubInv, NEW b \in Subs, Sub!RunHandler(b)
  PROVE  SubInv'
  <1> USE DEF SubIs, SubRight
  <1>1. /\ pool /\ stage[b] \in {"running", "done"} /\ pool' = pool
        /\ cell' = [cell EXCEPT ![b] = IF @ = "some" THEN "empty" ELSE @]
        /\ future' = future /\ owner' = owner /\ moves' = moves /\ output' = output
        /\ waker' = waker /\ canceled' = canceled /\ ready' = ready
        /\ result' = result /\ body' = body
    BY DEF Sub!RunHandler, Sub!TakesHandler
  <1>2. runs' \in [Subs -> 0..MaxFinalize]
    BY DEF Sub!RunHandler, SubInv, SubTypes, Sub!SubAssumption
  <1>3. SubIs(b)
    BY SubIndeed
  <1> DEFINE go == cell[b] = "some" /\ ~canceled[b]
             st == IF go THEN "handler" ELSE "done"
             ca == IF go THEN 1 ELSE calls[b]
             dr == IF go THEN 0 ELSE 1
             ce == IF cell[b] = "some" THEN "empty" ELSE cell[b]
  <1>4. /\ stage' = [stage EXCEPT ![b] = st] /\ calls' = [calls EXCEPT ![b] = ca]
        /\ drops' = [drops EXCEPT ![b] = dr] /\ cell' = [cell EXCEPT ![b] = ce]
    <2>1. CASE go
      <3>1. calls[b] = 0 /\ drops[b] = 0
        BY <1>1, <1>3, <2>1 DEF HandlerOK
      <3>2. /\ stage' = [stage EXCEPT ![b] = "handler"] /\ drops' = drops
            /\ calls' = [calls EXCEPT ![b] = calls[b] + 1]
        BY <2>1 DEF Sub!RunHandler
      <3> QED BY <1>1, <2>1, <3>1, <3>2 DEF SubInv, SubTypes
    <2>2. CASE ~go
      <3>1. drops[b] = IF cell[b] = "some" THEN 0 ELSE 1
        BY <1>1, <1>3 DEF HandlerOK
      <3>2. /\ stage' = [stage EXCEPT ![b] = "done"] /\ calls' = calls
            /\ drops' = [drops EXCEPT ![b] = IF cell[b] = "some" THEN @ + 1 ELSE @]
        BY <2>2 DEF Sub!RunHandler
      <3>3. /\ calls = [calls EXCEPT ![b] = calls[b]]
            /\ cell' = [cell EXCEPT ![b] = ce]
        BY <1>1 DEF SubInv, SubTypes
      <3>4. drops' = [drops EXCEPT ![b] = 1]
        <4>1. (IF cell[b] = "some" THEN drops[b] + 1 ELSE drops[b]) = 1
          BY <3>1
        <4> QED BY Zenon, <3>2, <4>1
      <3>5. st = "done" /\ ca = calls[b] /\ dr = 1
        BY <2>2
      <3> HIDE DEF st, ca, dr, ce
      <3> QED BY ZenonT(30), <3>2, <3>3, <3>4, <3>5
    <2> QED BY <2>1, <2>2
  <1>5. /\ st \in {"handler", "done"} /\ ca \in {0, 1} /\ dr \in {0, 1}
        /\ ce \in {"none", "empty"}
    BY <1>3
  <1>6. SubTypes'
    <2> HIDE DEF st, ca, dr, ce
    <2> QED BY <1>1, <1>2, <1>4, <1>5 DEF SubInv, SubTypes
  <1>7. ASSUME NEW s \in Subs
        PROVE  SubRight(s)'
    <2>1. CASE s # b
      <3>1. /\ stage'[s] = stage[s] /\ drops'[s] = drops[s] /\ cell'[s] = cell[s]
            /\ calls'[s] = calls[s]
        BY <1>4, <2>1 DEF SubInv, SubTypes
      <3>2. ready \subseteq ready'
        BY <1>1
      <3> QED BY Zenon, <1>1, <3>1, <3>2, SubFrame
    <2>2. CASE s = b
      <3>1. /\ stage'[s] = st /\ drops'[s] = dr /\ cell'[s] = ce /\ calls'[s] = ca
        BY <1>4, <2>2 DEF SubInv, SubTypes
      <3>2. HandlerOK(pool, st, ce, ca, dr)
        BY <1>1, <1>3 DEF HandlerOK
      <3>3. FutureOK(st, ca, dr, future[b], output[b], waker[b], canceled[b], result[b],
                     owner[b], ready)
        BY <1>1, <1>3 DEF HandlerOK, FutureOK
      <3> HIDE DEF st, ca, dr, ce
      <3> QED BY ZenonT(30), <1>1, <2>2, <3>1, <3>2, <3>3
    <2> QED BY <2>1, <2>2
  <1> QED BY <1>6, <1>7 DEF SubInv

\* The guard finishes with the value of the module's handler.
LEMMA SubFinish ==
  ASSUME Sub!SubAssumption, SubInv, NEW b \in Subs, Sub!FinishHandler(b)
  PROVE  SubInv'
  <1> USE DEF SubIs, SubRight
  <1>1. /\ stage[b] = "handler" /\ pool' = pool
        /\ stage' = [stage EXCEPT ![b] = "done"]
        /\ cell' = cell /\ calls' = calls /\ runs' = runs /\ future' = future
        /\ owner' = owner /\ moves' = moves /\ canceled' = canceled
        /\ result' = result /\ body' = body
    BY DEF Sub!FinishHandler
  <1>2. SubIs(b)
    BY SubIndeed
  <1>3. drops' = [drops EXCEPT ![b] = 1]
    <2>1. drops[b] = 0
      BY <1>1, <1>2 DEF HandlerOK
    <2> QED BY <2>1 DEF Sub!FinishHandler
  <1>4. /\ output' \in [Subs -> {"none", "value", "canceled"}]
        /\ waker' \in [Subs -> Tasks \cup {"none"}]
        /\ ready' \subseteq Tasks /\ ready \subseteq ready'
        /\ \A s \in Subs : IF s \in {b} /\ Sub!Accepts(s)
               THEN /\ output'[s] = "value" /\ waker'[s] = "none"
                    /\ waker[s] # "none" => waker[s] \in ready'
               ELSE output'[s] = output[s] /\ waker'[s] = waker[s]
    <2>1. Sub!Complete([s \in {b} |-> "value"])
      BY DEF Sub!FinishHandler, Sub!Finish, Sub!Single
    <2>2. {b} \subseteq Subs /\ "value" \in {"value", "canceled"}
      OBVIOUS
    <2> QED BY Zenon, <2>1, <2>2, Completes
  <1>5. SubTypes'
    BY Zenon, <1>1, <1>3, <1>4 DEF SubInv, SubTypes
  <1>6. ASSUME NEW s \in Subs
        PROVE  SubRight(s)'
    <2>1. CASE s # b
      <3>1. /\ stage'[s] = stage[s] /\ drops'[s] = drops[s] /\ output'[s] = output[s]
            /\ waker'[s] = waker[s]
        BY <1>1, <1>3, <1>4, <2>1 DEF SubInv, SubTypes
      <3> QED BY Zenon, <1>1, <1>4, <3>1, SubFrame
    <2>2. CASE s = b
      <3>1. stage'[s] = "done" /\ drops'[s] = 1
        BY <1>1, <1>3, <2>2 DEF SubInv, SubTypes
      <3>2. HandlerOK(pool, stage[s], cell[s], calls[s], drops[s])'
        BY <1>1, <1>2, <2>2, <3>1 DEF HandlerOK
      <3>3. calls[b] = 1 /\ drops[b] = 0 /\ output[b] = "none" /\ result[b] = "none"
        BY <1>1, <1>2 DEF HandlerOK, FutureOK
      <3>4. CASE Sub!Accepts(b)
        <4>1. /\ output'[s] = "value" /\ waker'[s] = "none"
              /\ waker[s] # "none" => waker[s] \in ready'
          BY <1>4, <2>2, <3>4
        <4>2. future[b] = "pending"
          BY <1>1, <1>2, <3>3, <3>4 DEF Sub!Accepts, FutureOK
        <4>3. owner[b] \in ready' /\ owner[b] \in Tasks
          BY SMTT(30), <1>2, <1>4, <2>2, <4>1, <4>2
             DEF FutureOK, Sub!SubAssumption, Sub!none
        <4> QED BY <1>1, <1>2, <2>2, <3>1, <3>2, <3>3, <4>1, <4>2, <4>3 DEF FutureOK
      <3>5. CASE ~Sub!Accepts(b)
        <4>1. output'[s] = output[s] /\ waker'[s] = waker[s]
          BY <1>4, <2>2, <3>5
        <4>2. canceled[b] /\ future[b] = "dropped"
          BY SMTT(30), <1>2, <3>3, <3>5 DEF Sub!Accepts, Sub!none, FutureOK
        <4> QED BY <1>1, <1>2, <2>2, <3>1, <3>2, <3>3, <4>1, <4>2 DEF FutureOK
      <3> QED BY <3>4, <3>5
    <2> QED BY <2>1, <2>2
  <1> QED BY <1>5, <1>6 DEF SubInv

\* The cleanups of the parent's pool drop the closures and their guards.
LEMMA SubDestroyPool ==
  ASSUME Sub!SubAssumption, SubInv, Sub!DestroyPool
  PROVE  SubInv'
  <1> USE DEF SubIs, SubRight
  <1> DEFINE some == {s \in Subs : cell[s] = "some"}
  <1>1. /\ pool' = FALSE /\ \A s \in Subs : stage[s] # "handler"
        /\ drops' = [s \in Subs |-> IF s \in some THEN drops[s] + 1 ELSE drops[s]]
        /\ cell' = [s \in Subs |-> "none"]
        /\ stage' = [s \in Subs |-> IF stage[s] \in {"running", "done"} THEN "done"
                                    ELSE stage[s]]
        /\ calls' = calls /\ runs' = runs /\ future' = future /\ owner' = owner
        /\ moves' = moves /\ canceled' = canceled /\ result' = result /\ body' = body
    BY DEF Sub!DestroyPool, Sub!none
  <1>2. /\ output' \in [Subs -> {"none", "value", "canceled"}]
        /\ waker' \in [Subs -> Tasks \cup {"none"}]
        /\ ready' \subseteq Tasks /\ ready \subseteq ready'
        /\ \A s \in Subs : IF s \in some /\ Sub!Accepts(s)
               THEN /\ output'[s] = "canceled" /\ waker'[s] = "none"
                    /\ waker[s] # "none" => waker[s] \in ready'
               ELSE output'[s] = output[s] /\ waker'[s] = waker[s]
    <2>1. Sub!Complete([s \in some |-> "canceled"])
      BY DEF Sub!DestroyPool, Sub!DropGuards
    <2>2. some \subseteq Subs /\ "canceled" \in {"value", "canceled"}
      OBVIOUS
    <2> HIDE DEF some
    <2> QED BY Zenon, <2>1, <2>2, Completes
  <1>3. ASSUME NEW s \in Subs
        PROVE  stage[s] # "handler" /\ SubIs(s)
    BY <1>1, SubIndeed
  <1>4. ASSUME NEW s \in Subs
        PROVE  /\ drops'[s] = (IF stage[s] = "unbuilt" THEN 0 ELSE 1)
               /\ stage'[s] = (IF stage[s] = "running" THEN "done" ELSE stage[s])
               /\ cell'[s] = "none"
               /\ s \in some <=> stage[s] = "running"
    <2>1. stage[s] # "handler" /\ SubIs(s)
      BY <1>3
    <2> QED BY <1>1, <2>1 DEF HandlerOK
  <1>5. SubTypes'
    <2>1. drops' = [s \in Subs |-> IF stage[s] = "unbuilt" THEN 0 ELSE 1]
      BY <1>1, <1>4
    <2>2. drops' \in [Subs -> {0, 1}]
      BY <2>1
    <2>3. cell' \in [Subs -> {"none", "some", "empty"}]
      BY <1>1
    <2>4. stage' \in [Subs -> {"unbuilt", "failed", "running", "handler", "done"}]
      BY <1>1 DEF SubInv, SubTypes
    <2>5. pool' \in BOOLEAN
      BY Zenon, <1>1
    <2> QED BY ZenonT(30), <1>1, <1>2, <2>2, <2>3, <2>4, <2>5 DEF SubInv, SubTypes
  <1> HIDE DEF some
  <1>6. ASSUME NEW s \in Subs
        PROVE  SubRight(s)'
    <2>1. SubIs(s) /\ stage[s] # "handler"
      BY <1>3
    <2>2. /\ drops'[s] = (IF stage[s] = "unbuilt" THEN 0 ELSE 1)
          /\ stage'[s] = (IF stage[s] = "running" THEN "done" ELSE stage[s])
          /\ cell'[s] = "none"
          /\ s \in some <=> stage[s] = "running"
      BY <1>4
    <2>3. HandlerOK(pool, stage[s], cell[s], calls[s], drops[s])'
      BY <1>1, <2>1, <2>2 DEF HandlerOK
    <2>4. CASE s \in some /\ Sub!Accepts(s)
      <3>1. /\ output'[s] = "canceled" /\ waker'[s] = "none"
            /\ waker[s] # "none" => waker[s] \in ready'
        BY <1>2, <2>4
      <3>2. stage[s] = "running" /\ ~canceled[s] /\ result[s] = "none"
        BY <2>2, <2>4 DEF Sub!Accepts, Sub!none
      <3>3. calls[s] = 0 /\ future[s] = "pending" /\ drops'[s] = 1 /\ stage'[s] = "done"
        BY SMTT(30), <2>1, <2>2, <3>2 DEF HandlerOK, FutureOK
      <3>4. owner[s] \in ready' /\ owner[s] \in Tasks
        BY <1>2, <2>1, <3>1, <3>3 DEF FutureOK, Sub!SubAssumption, Sub!none
      <3> QED BY <1>1, <2>3, <3>1, <3>2, <3>3, <3>4 DEF FutureOK
    <2>5. CASE ~(s \in some /\ Sub!Accepts(s))
      <3>1. output'[s] = output[s] /\ waker'[s] = waker[s]
        BY SMTT(30), <1>2, <2>5
      <3>2. FutureOK(stage[s], calls[s], drops[s], future[s], output[s], waker[s],
                     canceled[s], result[s], owner[s], ready')
        BY <1>2, <2>1, MoreReady
      <3>3. stage[s] = "running" => drops[s] = 0 /\ output[s] = "none" /\ result[s] = "none"
        BY <2>1 DEF HandlerOK, FutureOK
      <3>4. stage[s] = "running" => canceled[s]
        BY <2>2, <2>5, <3>3 DEF Sub!Accepts, Sub!none
      <3>5. stage[s] # "running" => drops'[s] = drops[s] /\ stage'[s] = stage[s]
        BY SMTT(30), <2>1, <2>2 DEF HandlerOK
      <3> QED
        <4>1. CASE stage[s] = "running"
          <5>1. drops'[s] = 1 /\ stage'[s] = "done"
            BY <2>2, <4>1
          <5> QED BY <1>1, <2>3, <3>1, <3>2, <3>3, <3>4, <4>1, <5>1 DEF FutureOK
        <4>2. CASE stage[s] # "running"
          BY Zenon, <1>1, <2>3, <3>1, <3>2, <3>5, <4>2
        <4> QED BY SMTT(30), <4>1, <4>2
    <2> QED BY <2>4, <2>5
  <1> QED BY <1>5, <1>6 DEF SubInv

\* SubRequestFuture::poll of the futures of a task.
LEMMA SubPoll ==
  ASSUME SubInv, NEW t \in Tasks, Sub!Poll(t)
  PROVE  SubInv'
  <1> USE DEF SubIs, SubRight
  <1> DEFINE mine == {s \in Subs : future[s] = "pending" /\ owner[s] = t}
             over == {s \in mine : output[s] # "none"}
  <1>1. /\ ready' = ready \ {t}
        /\ result' = [s \in Subs |-> IF s \in over THEN output[s] ELSE result[s]]
        /\ output' = [s \in Subs |-> IF s \in over THEN "none" ELSE output[s]]
        /\ future' = [s \in Subs |-> IF s \in over THEN "consumed" ELSE future[s]]
        /\ waker' = [s \in Subs |-> IF s \in mine \ over THEN t ELSE waker[s]]
    BY DEF Sub!Poll, Sub!Registers, Sub!none
  <1>2. /\ pool' = pool /\ stage' = stage /\ cell' = cell /\ calls' = calls
        /\ drops' = drops /\ runs' = runs /\ body' = body /\ owner' = owner
        /\ moves' = moves /\ canceled' = canceled
    BY DEF Sub!Poll, Sub!nginx
  <1>3. SubTypes'
    <2>1. ready' \subseteq Tasks
      BY <1>1 DEF SubInv, SubTypes
    <2>2. result' \in [Subs -> {"none", "value", "canceled"}]
      BY <1>1 DEF SubInv, SubTypes
    <2>3. output' \in [Subs -> {"none", "value", "canceled"}]
      BY <1>1 DEF SubInv, SubTypes
    <2>4. future' \in [Subs -> {"none", "pending", "consumed", "dropped"}]
      BY <1>1 DEF SubInv, SubTypes
    <2>5. waker' \in [Subs -> Tasks \cup {"none"}]
      BY SMTT(30), <1>1 DEF SubInv, SubTypes
    <2> HIDE DEF mine, over
    <2> QED BY Zenon, <1>2, <2>1, <2>2, <2>3, <2>4, <2>5 DEF SubInv, SubTypes
  <1>4. ASSUME NEW s \in Subs
        PROVE  SubRight(s)'
    <2>1. HandlerOK(pool, stage[s], cell[s], calls[s], drops[s])'
      BY ZenonT(30), Zenon, <1>2, SubIndeed
    <2>2. FutureOK(stage[s], calls[s], drops[s], future[s], output[s], waker[s],
                   canceled[s], result[s], owner[s], ready)
      BY SubIndeed
    <2>3. owner[s] # t /\ owner[s] \in ready => owner[s] \in ready'
      BY <1>1
    <2>4. CASE s \in over
      <3>1. /\ result'[s] = output[s] /\ output'[s] = "none" /\ future'[s] = "consumed"
            /\ waker'[s] = waker[s] /\ output[s] # "none"
        BY <1>1, <2>4
      <3>2. drops[s] = 1 /\ future[s] = "pending" /\ result[s] = "none"
        BY <2>2, <3>1 DEF FutureOK
      <3>3. waker'[s] = "none"
        BY SMTT(30), <2>2, <3>1 DEF FutureOK
      <3> QED BY <1>2, <2>1, <2>2, <3>1, <3>2, <3>3 DEF FutureOK
    <2>5. CASE s \in mine \ over
      <3>1. /\ result'[s] = result[s] /\ output'[s] = "none" /\ future'[s] = "pending"
            /\ waker'[s] = t /\ output[s] = "none" /\ future[s] = "pending"
            /\ owner[s] = t
        BY <1>1, <2>5
      <3> QED BY <1>2, <2>1, <2>2, <3>1 DEF FutureOK
    <2>6. CASE s \notin mine
      <3>1. /\ result'[s] = result[s] /\ output'[s] = output[s] /\ waker'[s] = waker[s]
            /\ future'[s] = future[s] /\ (future[s] = "pending" => owner[s] # t)
        BY <1>1, <2>6
      <3> QED BY <1>2, <2>1, <2>2, <2>3, <3>1 DEF FutureOK
    <2> QED BY <2>4, <2>5, <2>6
  <1> QED BY <1>3, <1>4 DEF SubInv

\* A future moves to a task that is about to poll it.
LEMMA SubMove ==
  ASSUME Sub!SubAssumption, SubInv, NEW b \in Subs, NEW t \in Tasks, Sub!Move(b, t)
  PROVE  SubInv'
  <1> USE DEF SubIs, SubRight
  <1>1. /\ future[b] = "pending" /\ owner' = [owner EXCEPT ![b] = t]
        /\ ready' = ready \cup {t}
        /\ pool' = pool /\ stage' = stage /\ cell' = cell /\ calls' = calls
        /\ drops' = drops /\ runs' = runs /\ body' = body /\ future' = future
        /\ output' = output /\ waker' = waker /\ canceled' = canceled /\ result' = result
    BY DEF Sub!Move, Sub!nginx
  <1>2. moves' \in 0..MaxMoves
    BY DEF Sub!Move, SubInv, SubTypes, Sub!SubAssumption
  <1>3. ready' \subseteq Tasks /\ ready \subseteq ready' /\ t \in ready'
    BY <1>1 DEF SubInv, SubTypes
  <1>4. owner' \in [Subs -> Tasks]
    BY <1>1 DEF SubInv, SubTypes
  <1>5. SubTypes'
    BY ZenonT(30), <1>1, <1>2, <1>3, <1>4 DEF SubInv, SubTypes
  <1>6. ASSUME NEW s \in Subs
        PROVE  SubRight(s)'
    <2>1. CASE s # b
      <3>1. owner'[s] = owner[s]
        BY SMTT(30), <1>1, <2>1 DEF SubInv, SubTypes
      <3> QED BY Zenon, <1>1, <1>3, <3>1, SubFrame
    <2>2. CASE s = b
      <3>1. owner'[s] = t
        BY SMTT(30), <1>1, <2>2 DEF SubInv, SubTypes
      <3>2. SubIs(s)
        BY SubIndeed
      <3>3. HandlerOK(pool, stage[s], cell[s], calls[s], drops[s])'
        BY Zenon, <1>1, <3>2
      <3> QED BY <1>1, <1>3, <2>2, <3>1, <3>2, <3>3 DEF FutureOK
    <2> QED BY <2>1, <2>2
  <1> QED BY <1>5, <1>6 DEF SubInv

\* SubRequestFuture::drop.
LEMMA SubDropFuture ==
  ASSUME SubInv, NEW b \in Subs, Sub!DropFuture(b)
  PROVE  SubInv'
  <1> USE DEF SubIs, SubRight
  <1>1. /\ future[b] = "pending" /\ future' = [future EXCEPT ![b] = "dropped"]
        /\ canceled' = [canceled EXCEPT ![b] = TRUE]
        /\ output' = [output EXCEPT ![b] = "none"]
        /\ waker' = [waker EXCEPT ![b] = "none"]
        /\ pool' = pool /\ stage' = stage /\ cell' = cell /\ calls' = calls
        /\ drops' = drops /\ runs' = runs /\ body' = body /\ owner' = owner
        /\ moves' = moves /\ ready' = ready /\ result' = result
    BY DEF Sub!DropFuture, Sub!Cancel, Sub!nginx, Sub!none
  <1>2. SubTypes'
    <2>1. future' \in [Subs -> {"none", "pending", "consumed", "dropped"}]
      BY <1>1 DEF SubInv, SubTypes
    <2>2. canceled' \in [Subs -> BOOLEAN]
      BY <1>1 DEF SubInv, SubTypes
    <2>3. output' \in [Subs -> {"none", "value", "canceled"}]
      BY <1>1 DEF SubInv, SubTypes
    <2>4. waker' \in [Subs -> Tasks \cup {"none"}]
      BY <1>1 DEF SubInv, SubTypes
    <2> QED BY Zenon, <1>1, <2>1, <2>2, <2>3, <2>4 DEF SubInv, SubTypes
  <1>3. ASSUME NEW s \in Subs
        PROVE  SubRight(s)'
    <2>1. CASE s # b
      <3>1. /\ future'[s] = future[s] /\ canceled'[s] = canceled[s]
            /\ output'[s] = output[s] /\ waker'[s] = waker[s] /\ ready \subseteq ready'
        BY SMTT(30), <1>1, <2>1 DEF SubInv, SubTypes
      <3> QED BY Zenon, <1>1, <3>1, SubFrame
    <2>2. CASE s = b
      <3>1. /\ future'[s] = "dropped" /\ canceled'[s] /\ output'[s] = "none"
            /\ waker'[s] = "none"
        BY <1>1, <2>2 DEF SubInv, SubTypes
      <3>2. SubIs(s)
        BY SubIndeed
      <3>3. HandlerOK(pool, stage[s], cell[s], calls[s], drops[s])'
        BY Zenon, <1>1, <3>2
      <3> QED BY <1>1, <2>2, <3>1, <3>2, <3>3 DEF FutureOK
    <2> QED BY <2>1, <2>2
  <1> QED BY <1>2, <1>3 DEF SubInv

\* Every step keeps the invariant.
LEMMA SubStep == Sub!SubAssumption /\ SubInv /\ [Sub!Next]_(Sub!vars) => SubInv'
  <1> USE DEF SubIs, SubRight
  <1> SUFFICES ASSUME Sub!SubAssumption, SubInv, [Sub!Next]_(Sub!vars) PROVE SubInv'
    OBVIOUS
  <1>1. CASE UNCHANGED Sub!vars
    BY <1>1 DEF Sub!vars, SubInv, SubTypes
  <1> QED BY Zenon, <1>1, SubBuild, SubBuildFails, SubRunHandler, SubFinish, SubDestroyPool,
             SubPoll, SubMove, SubDropFuture DEF Sub!Next

\* What run_handler, finish and cancel may not do for a future that was dropped.
LEMMA SubQuiet ==
  SubInv /\ [Sub!Next]_(Sub!vars) => Sub!NoWorkForTheDropped \/ UNCHANGED Sub!vars
  <1> USE DEF SubIs, SubRight
  <1> SUFFICES ASSUME SubInv, Sub!Next, NEW s \in Subs, future[s] = "dropped"
               PROVE  calls'[s] = calls[s] /\ output'[s] = "none"
    BY SMTT(30) DEF Sub!NoWorkForTheDropped, Sub!none
  <1>1. canceled[s] /\ output[s] = "none" /\ stage[s] # "unbuilt"
    BY SubIndeed DEF FutureOK
  <1>2. ~Sub!Accepts(s)
    BY <1>1 DEF Sub!Accepts
  <1>3. ASSUME NEW b \in Subs, NEW o \in Sub!Options, Sub!Build(b, o)
        PROVE  calls'[s] = calls[s] /\ output'[s] = "none"
    BY <1>1, <1>3 DEF Sub!Build
  <1>10. ASSUME NEW b \in Subs, Sub!BuildFails(b) \/ Sub!DropFuture(b)
        PROVE  calls'[s] = calls[s] /\ output'[s] = "none"
    BY <1>1, <1>10 DEF Sub!BuildFails, Sub!DropFuture, Sub!Cancel, Sub!nginx,
                      Sub!none, SubInv, SubTypes
  <1>4. ASSUME NEW b \in Subs, Sub!RunHandler(b)
        PROVE  calls'[s] = calls[s] /\ output'[s] = "none"
    BY <1>1, <1>4 DEF Sub!RunHandler, SubInv, SubTypes
  <1>5. ASSUME NEW b \in Subs, Sub!FinishHandler(b)
        PROVE  calls'[s] = calls[s] /\ output'[s] = "none"
    <2>1. /\ Sub!Complete([u \in {b} |-> "value"]) /\ calls' = calls
          /\ {b} \subseteq Subs /\ "value" \in {"value", "canceled"}
      BY <1>5 DEF Sub!FinishHandler, Sub!Finish, Sub!Single
    <2>2. output'[s] = output[s]
      BY Zenon, <1>2, <2>1, Completes
    <2> QED BY <1>1, <2>1, <2>2
  <1>6. ASSUME Sub!DestroyPool
        PROVE  calls'[s] = calls[s] /\ output'[s] = "none"
    <2> DEFINE some == {u \in Subs : cell[u] = "some"}
    <2>1. /\ Sub!Complete([u \in some |-> "canceled"]) /\ calls' = calls
          /\ some \subseteq Subs /\ "canceled" \in {"value", "canceled"}
      BY <1>6 DEF Sub!DestroyPool, Sub!DropGuards
    <2> HIDE DEF some
    <2>2. output'[s] = output[s]
      BY Zenon, <1>2, <2>1, Completes
    <2> QED BY SMTT(30), <1>1, <2>1, <2>2
  <1>7. ASSUME NEW t \in Tasks, Sub!Poll(t)
        PROVE  calls'[s] = calls[s] /\ output'[s] = "none"
    BY <1>1, <1>7 DEF Sub!Poll, Sub!nginx, Sub!none
  <1>8. ASSUME NEW b \in Subs, NEW t \in Tasks, Sub!Move(b, t)
        PROVE  calls'[s] = calls[s] /\ output'[s] = "none"
    BY <1>1, <1>8 DEF Sub!Move, Sub!nginx
  <1>9. ASSUME UNCHANGED Sub!vars
        PROVE  calls'[s] = calls[s] /\ output'[s] = "none"
    BY <1>1, <1>9 DEF Sub!vars
  <1> QED BY Zenon, <1>3, <1>10, <1>4, <1>5, <1>6, <1>7, <1>8, <1>9 DEF Sub!Next

\* The invariant is one.
LEMMA SubInvariant == Sub!SubAssumption => (Sub!Spec => []SubInv)
  <1> SUFFICES ASSUME Sub!SubAssumption PROVE Sub!Spec => []SubInv
    OBVIOUS
  <1>1. Sub!Init => SubInv
    BY SubInits
  <1>2. SubInv /\ [Sub!Next]_(Sub!vars) => SubInv'
    BY SubStep
  <1> QED BY <1>1, <1>2, PTL DEF Sub!Spec

\* For any number of subrequests and tasks: the completion handler of a subrequest is
\* consumed exactly once, by the failed build, by the first finalization or by the
\* parent's pool; a future that has its answer has a task on the way to poll it, and
\* one whose handler is gone has its answer; a value comes from the module's handler
\* (run_handler, AsyncSubRequestGuard, SubRequestFuture::poll).
THEOREM SubrequestsAlwaysSafe ==
  Sub!SubAssumption => (Sub!Spec => []Sub!SubrequestsSafe)
  BY SubInvariant, SubMeaning, PTL

\* No step calls the module's handler for a future that was dropped, or leaves an
\* answer in its slot (run_handler, AsyncSubRequestState::complete).
THEOREM NeverWorksForTheDropped ==
  Sub!SubAssumption => (Sub!Spec => [][Sub!NoWorkForTheDropped]_(Sub!vars))
  <1> SUFFICES ASSUME Sub!SubAssumption PROVE Sub!Spec => [][Sub!NoWorkForTheDropped]_(Sub!vars)
    OBVIOUS
  <1>1. SubInv /\ [Sub!Next]_(Sub!vars) => [Sub!NoWorkForTheDropped]_(Sub!vars)
    BY SubQuiet
  <1> QED BY <1>1, SubInvariant, PTL DEF Sub!Spec

-----------------------------------------------------------------------------
(***************************************************************************)
(* Sleeps.                                                                 *)
(***************************************************************************)
CONSTANTS Wakers, NoWaker, HalfRange, NanosPerMs, MsPerSec, MaxSecs, MaxLate
VARIABLES duration, remaining, armed, timerSet, key, timedout, cancelable, woken,
          polling, done, now, origin

Time == INSTANCE Sleep

\* The milliseconds that the sleep was asked for.
Asked == Time!MillisecondsCeil(duration)

\* The timer under way has its deadline d milliseconds after the first poll; its
\* key is that instant less k turns of the clock.
Deadline(d, k) ==
    /\ origin + d = Time!Modulus * k + key
    /\ Asked - remaining + armed <= d
    /\ d < now + HalfRange

\* What the polls have taken off `remaining' has gone by on the clock; an expiry
\* that no poll has seen yet, the armed step too.
SleepInv ==
    /\ Time!TypeOK /\ Time!StepFits
    /\ remaining <= Asked
    /\ done => remaining = 0
    /\ ~(timerSet /\ timedout) /\ (timerSet => remaining # 0)
    /\ Asked - remaining <= now
    /\ timedout /\ remaining # 0 => Asked - remaining + armed <= now
    /\ timerSet => \E d, k \in Int : Deadline(d, k)

-----------------------------------------------------------------------------
\* Multiplication by a natural number is monotonic.
LEMMA Scaled ==
  ASSUME NEW m \in Nat, NEW a \in Int, NEW b \in Int, a <= b
  PROVE  m * a <= m * b
  OBVIOUS

\* No multiple of m lies strictly between two neighbouring ones.
LEMMA NoMultipleBetween ==
  ASSUME NEW m \in Nat \ {0}, NEW k \in Int
  PROVE  ~(0 < m * k /\ m * k < m) /\ ~(-m < m * k /\ m * k < 0)
  <1>1. CASE k = 0
    BY <1>1
  <1>2. CASE k >= 1
    <2>1. m * 1 <= m * k
      BY <1>2, Scaled
    <2> QED BY <2>1
  <1>3. CASE k <= -1
    <2>1. m * k <= m * (-1)
      BY <1>3, Scaled
    <2> QED BY <2>1
  <1> QED BY <1>1, <1>2, <1>3

\* An instant is some turns of a clock of m values, and what the clock shows.
LEMMA Turns ==
  ASSUME NEW m \in Nat \ {0}, NEW z \in Int
  PROVE  /\ z % m \in 0..(m - 1) /\ z \div m \in Int
         /\ z = m * (z \div m) + (z % m)
  <1>1. z \div m \in Int
    OBVIOUS
  <1>2. z % m \in 0..(m - 1)
    OBVIOUS
  <1>3. z = m * (z \div m) + (z % m)
    OBVIOUS
  <1> QED BY <1>1, <1>2, <1>3

\* A clock of 2h values tells an instant that has passed from one that lies less
\* than h ahead: the distance of what it showed then from what it shows now is at
\* most h only if the instant has passed.
LEMMA HasPassed ==
  ASSUME NEW h \in Nat \ {0}, NEW t \in Int, NEW d \in Int, NEW q \in Int, NEW k \in Int,
         NEW now0 \in 0..(2 * h - 1), NEW key0 \in 0..(2 * h - 1),
         t = (2 * h) * q + now0, d = (2 * h) * k + key0,
         d < t + h, (now0 - key0) % (2 * h) <= h
  PROVE  d <= t
  <1> DEFINE m == 2 * h
  <1>1. m \in Nat \ {0}
    OBVIOUS
  <1> SUFFICES ASSUME t < d PROVE FALSE
    OBVIOUS
  <1>2. m * k - m * q = m * (k - q)
    OBVIOUS
  <1>3. m * (k - q) = (d - t) + (now0 - key0) /\ k - q \in Int
    BY <1>2
  <1> HIDE DEF m
  <1>4. ~(0 < m * (k - q) /\ m * (k - q) < m) /\ ~(-m < m * (k - q) /\ m * (k - q) < 0)
    BY <1>1, <1>3, NoMultipleBetween
  <1>5. CASE now0 >= key0
    <2>1. (now0 - key0) % m = now0 - key0
      BY <1>1, <1>5 DEF m
    <2> QED BY <1>3, <1>4, <1>5, <2>1 DEF m
  <1>6. CASE now0 < key0
    <2>1. now0 - key0 \in (-m)..(-1)
      BY <1>1, <1>6 DEF m
    <2>2. (now0 - key0) % m = now0 - key0 + m
      BY <1>1, <2>1
    <2> QED BY <1>3, <1>4, <1>6, <2>2 DEF m
  <1> QED BY <1>5, <1>6

\* duration_to_milliseconds_ceil is long enough.
LEMMA CeilCovers ==
  ASSUME Time!SleepAssumption, NEW d \in Time!Durations
  PROVE  /\ Time!MillisecondsCeil(d) \in Nat
         /\ \A t \in Nat : Time!MillisecondsCeil(d) <= t =>
              t * NanosPerMs >= d.secs * MsPerSec * NanosPerMs + d.nanos
  <1> USE DEF Time!SleepAssumption
  <1>1. d.secs \in Nat /\ d.nanos \in Nat
    BY DEF Time!Durations
  <1> DEFINE whole == d.secs * MsPerSec
             q == d.nanos \div NanosPerMs
             r == d.nanos % NanosPerMs
             up == IF r = 0 THEN 0 ELSE 1
  <1>2. whole \in Nat
    BY <1>1
  <1>3. q \in Int /\ r \in 0..(NanosPerMs - 1) /\ d.nanos = NanosPerMs * q + r
    <2>1. NanosPerMs \in Nat \ {0} /\ d.nanos \in Int
      BY <1>1
    <2> QED BY Zenon, <2>1, Turns
  <1>4. Time!MillisecondsCeil(d) = whole + q + up
    BY <1>2, <1>3 DEF Time!MillisecondsCeil, Time!MillisecondsFloor
  <1> HIDE DEF whole, q, r
  <1>5. q \in Nat
    <2> SUFFICES ASSUME q <= -1 PROVE FALSE
      BY <1>3
    <2>1. NanosPerMs * q <= NanosPerMs * (-1)
      BY <1>3, Scaled
    <2> QED BY <1>1, <1>3, <2>1
  <1>6. ASSUME NEW t \in Nat, whole + q + up <= t
        PROVE  t * NanosPerMs >= whole * NanosPerMs + d.nanos
    <2>1. NanosPerMs * (whole + q + up) <= NanosPerMs * t
      BY <1>2, <1>5, <1>6, Scaled
    <2>2. NanosPerMs * (whole + q + up)
             = NanosPerMs * whole + NanosPerMs * q + NanosPerMs * up
      BY <1>2, <1>5
    <2>3. r <= NanosPerMs * up
      BY <1>3
    <2>4. d.nanos <= NanosPerMs * q + NanosPerMs * up
      BY <1>3, <1>5, <2>3
    <2>5. /\ NanosPerMs * q \in Nat /\ NanosPerMs * up \in Nat /\ NanosPerMs * whole \in Nat
          /\ NanosPerMs * t = t * NanosPerMs /\ NanosPerMs * whole = whole * NanosPerMs
      BY <1>2, <1>5
    <2> QED BY <1>1, <2>1, <2>2, <2>4, <2>5
  <1> QED BY <1>2, <1>4, <1>5, <1>6 DEF whole

-----------------------------------------------------------------------------
\* The clock shows an instant less some turns.
LEMMA SleepTyped ==
  ASSUME Time!SleepAssumption, Time!TypeOK
  PROVE  /\ Asked \in Nat /\ Time!Modulus \in Nat \ {0} /\ Time!Modulus = 2 * HalfRange
         /\ Time!CurrentMsec \in 0..(Time!Modulus - 1)
         /\ \E q \in Int : origin + now = Time!Modulus * q + Time!CurrentMsec
  <1> USE DEF Time!SleepAssumption, Time!TypeOK
  <1>1. Asked \in Nat
    BY CeilCovers DEF Asked
  <1>2. Time!Modulus \in Nat \ {0} /\ Time!Modulus = 2 * HalfRange
    BY DEF Time!Modulus
  <1>3. origin + now \in Int
    OBVIOUS
  <1> QED BY ZenonT(30), <1>1, <1>2, <1>3, Turns DEF Time!CurrentMsec

\* The invariant holds before the first poll.
LEMMA SleepInits == Time!SleepAssumption /\ Time!Init => SleepInv
  <1> SUFFICES ASSUME Time!SleepAssumption, Time!Init PROVE SleepInv
    OBVIOUS
  <1>1. Asked \in Nat /\ remaining = Asked
    BY CeilCovers DEF Time!Init, Asked
  <1>2. Time!TypeOK
    <2>1. 0 \in 0..(HalfRange - 1) /\ 0 \in 0..(Time!Modulus - 1) /\ 0 \in Nat
      BY DEF Time!SleepAssumption, Time!Modulus
    <2> QED BY ZenonT(30), <1>1, <2>1 DEF Time!TypeOK, Time!Init
  <1>3. Time!StepFits
    BY <1>1 DEF Time!StepFits, Time!Init
  <1> QED BY <1>1, <1>2, <1>3 DEF SleepInv, Time!Init

\* A poll of each kind.
LEMMA SleepPoll ==
  ASSUME Time!SleepAssumption, SleepInv, NEW w \in Wakers, Time!Poll(w)
  PROVE  SleepInv'
  <1> USE DEF Time!SleepAssumption
  <1>1. Time!TypeOK /\ Time!StepFits
    BY DEF SleepInv
  <1>2. Asked \in Nat /\ Time!Modulus \in Nat \ {0} /\ Time!Modulus = 2 * HalfRange
    BY <1>1, SleepTyped
  <1>3. /\ duration' = duration /\ now' = now /\ origin' = origin /\ polling' = w
        /\ woken' = woken \ {w} /\ Asked' = Asked
    BY DEF Time!Poll, Asked
  <1>4. remaining <= Asked /\ Asked - remaining <= now
    BY DEF SleepInv
  <1>5. Time!Rest \in Nat /\ Time!Rest <= remaining
    BY <1>1 DEF Time!Rest, Time!TypeOK, Time!StepFits, SleepInv
  <1>6. Asked - Time!Rest <= now
    BY <1>1, <1>2, <1>4 DEF Time!Rest, Time!TypeOK, SleepInv
  <1>7. CASE Time!PollReady(w)
    <2>1. /\ Time!Rest = 0 /\ remaining' = 0 /\ done' = TRUE /\ timerSet' = timerSet
          /\ key' = key /\ cancelable' = cancelable /\ waker' = waker
          /\ timedout' = (timedout /\ remaining = 0)
          /\ armed' = IF remaining # 0 THEN 0 ELSE armed
      BY <1>7 DEF Time!PollReady
    <2>2. ~timerSet
      BY <1>1, <2>1 DEF Time!Rest, SleepInv
    <2>3. Time!TypeOK'
      BY <1>1, <1>3, <2>1 DEF Time!TypeOK
    <2>4. Time!StepFits'
      BY <2>1, <2>2 DEF Time!StepFits
    <2> QED BY <1>2, <1>3, <1>6, <2>1, <2>2, <2>3, <2>4 DEF SleepInv
  <1>8. CASE Time!PollArmed(w)
    <2>1. /\ Time!Rest # 0 /\ timerSet /\ waker' = w /\ timedout' = FALSE
          /\ timerSet' = timerSet /\ key' = key /\ cancelable' = cancelable
          /\ done' = done /\ remaining' = Time!Rest
          /\ armed' = IF timedout THEN 0 ELSE armed
      BY <1>8 DEF Time!PollArmed
    <2>2. ~timedout
      BY <2>1 DEF SleepInv
    <2>3. remaining' = remaining /\ armed' = armed
      BY <2>1, <2>2 DEF Time!Rest
    <2>4. Time!TypeOK'
      BY Zenon, <1>1, <1>3, <2>1, <2>3 DEF Time!TypeOK
    <2>5. Time!StepFits'
      BY <1>1, <2>1, <2>3 DEF Time!StepFits
    <2>6. \E d, k \in Int : Deadline(d, k)'
      <3>1. PICK d \in Int, k \in Int : Deadline(d, k)
        BY <2>1 DEF SleepInv
      <3>2. Deadline(d, k)'
        BY SMTT(30), <1>3, <2>1, <2>3, <3>1 DEF Deadline, Time!Modulus
      <3> QED BY <3>2
    <2> QED BY <1>3, <2>1, <2>2, <2>3, <2>4, <2>5, <2>6 DEF SleepInv
  <1>9. CASE Time!PollArm(w)
    <2> DEFINE step == Time!TimerStep(Time!Rest)
    <2>1. /\ Time!Rest # 0 /\ ~timerSet /\ waker' = w /\ cancelable' = TRUE
          /\ remaining' = Time!Rest /\ armed' = step /\ timedout' = FALSE
          /\ timerSet' = TRUE /\ done' = done
          /\ key' = (Time!CurrentMsec + step) % Time!Modulus
      BY <1>9 DEF Time!PollArm
    <2>2. step \in 1..(HalfRange - 1) /\ step <= Time!Rest
      BY <1>5, <2>1 DEF Time!TimerStep
    <2> HIDE DEF step
    <2>3. ~done
      BY <1>5, <2>1, <1>1 DEF SleepInv, Time!TypeOK
    <2>4. PICK q \in Int : origin + now = Time!Modulus * q + Time!CurrentMsec
      BY <1>1, SleepTyped
    <2>5. Time!CurrentMsec \in 0..(Time!Modulus - 1)
      BY <1>1, SleepTyped
    <2> DEFINE m == Time!Modulus
               z == Time!CurrentMsec + step
    <2>6. z \in Int
      BY <2>2, <2>5
    <2>7. key' \in 0..(m - 1) /\ z \div m \in Int /\ z = m * (z \div m) + key'
      BY Zenon, <1>2, <2>1, <2>6, Turns
    <2>8. Time!TypeOK'
      <3>1. key' \in 0..(Time!Modulus' - 1)
        BY <2>7 DEF Time!Modulus
      <3>2. armed' \in 0..(HalfRange - 1) /\ remaining' \in Nat
        BY <1>5, <2>1, <2>2
      <3>3. origin' \in 0..(Time!Modulus' - 1)
        BY <1>1, <1>3 DEF Time!TypeOK, Time!Modulus
      <3>4. duration' \in Time!Durations'
        BY <1>1, <1>3 DEF Time!TypeOK, Time!Durations
      <3> HIDE DEF Time!SleepAssumption
      <3> QED BY ZenonT(30), <1>1, <1>3, <2>1, <3>1, <3>2, <3>3, <3>4 DEF Time!TypeOK
    <2>9. Time!StepFits'
      BY <2>1, <2>2 DEF Time!StepFits
    <2>10. \E d, k \in Int : Deadline(d, k)'
      <3>1. PICK d \in Int, k \in Int : d = now + step /\ k = q + (z \div m)
        BY <1>1, <2>2, <2>4, <2>7 DEF Time!TypeOK
      <3>2. origin + d = m * q + z
        BY <1>1, <1>2, <2>2, <2>4, <2>5, <3>1 DEF Time!TypeOK
      <3>3. m * k = m * q + m * (z \div m)
        BY <1>2, <2>4, <2>7, <3>1
      <3>4. m * q \in Int /\ m * (z \div m) \in Int /\ m * k \in Int
        BY <1>2, <2>4, <2>7, <3>1
      <3>5. origin + d = m * k + key'
        BY <2>7, <3>2, <3>3, <3>4
      <3>6. Asked - remaining' + armed' <= d
        BY <1>1, <1>2, <1>5, <1>6, <2>1, <2>2, <3>1 DEF Time!TypeOK
      <3>7. d < now + HalfRange
        BY <1>1, <2>2, <3>1 DEF Time!TypeOK
      <3>8. Deadline(d, k)'
        BY <1>3, <3>5, <3>6, <3>7 DEF Deadline, Time!Modulus
      <3> QED BY Zenon, <3>8
    <2> QED BY <1>2, <1>3, <1>4, <1>5, <1>6, <2>1, <2>3, <2>8, <2>9, <2>10, <1>1
            DEF SleepInv, Time!TypeOK
  <1> QED BY <1>7, <1>8, <1>9 DEF Time!Poll

\* The loop expires a timer only after its deadline.
LEMMA SleepExpire ==
  ASSUME Time!SleepAssumption, SleepInv, Time!Expire
  PROVE  SleepInv'
  <1> USE DEF Time!SleepAssumption
  <1>1. Time!TypeOK /\ Time!StepFits
    BY DEF SleepInv
  <1>2. /\ Asked \in Nat /\ Time!Modulus \in Nat \ {0} /\ Time!Modulus = 2 * HalfRange
        /\ Time!CurrentMsec \in 0..(Time!Modulus - 1)
    BY <1>1, SleepTyped
  <1>3. /\ timerSet /\ timerSet' = FALSE /\ timedout' = TRUE
    BY DEF Time!Expire
  <1>4. /\ duration' = duration /\ remaining' = remaining /\ armed' = armed /\ key' = key
        /\ cancelable' = cancelable /\ polling' = polling /\ done' = done /\ now' = now
        /\ origin' = origin /\ Asked' = Asked
        /\ woken' = woken \cup ({waker} \ {NoWaker})
    BY DEF Time!Expire, Asked
  <1>5. PICK d \in Int, k \in Int : Deadline(d, k)
    BY <1>3 DEF SleepInv
  <1>6. PICK q \in Int : origin + now = Time!Modulus * q + Time!CurrentMsec
    BY <1>1, SleepTyped
  <1>7. origin + d <= origin + now
    <2>1. origin + now \in Int /\ origin + d \in Int
      BY <1>1 DEF Time!TypeOK
    <2>2. key \in 0..(2 * HalfRange - 1) /\ Time!CurrentMsec \in 0..(2 * HalfRange - 1)
      BY <1>1, <1>2 DEF Time!TypeOK
    <2>3. (Time!CurrentMsec - key) % (2 * HalfRange) <= HalfRange
      BY <1>2 DEF Time!Expire, Time!Overdue
    <2>4. origin + d < (origin + now) + HalfRange
      BY <1>1, <1>5 DEF Deadline, Time!TypeOK
    <2>5. /\ origin + d = (2 * HalfRange) * k + key
          /\ origin + now = (2 * HalfRange) * q + Time!CurrentMsec
      BY <1>2, <1>5, <1>6 DEF Deadline
    <2> QED BY SMTT(30), <2>1, <2>2, <2>3, <2>4, <2>5, HasPassed
  <1>8. Asked - remaining + armed <= now
    BY <1>1, <1>2, <1>5, <1>7 DEF Deadline, Time!TypeOK
  <1>9. Time!TypeOK'
    BY Zenon, <1>1, <1>3, <1>4 DEF Time!TypeOK, Time!Expire
  <1>10. Time!StepFits'
    BY SMTT(30), <1>1, <1>3, <1>4 DEF Time!StepFits
  <1> QED BY <1>3, <1>4, <1>8, <1>9, <1>10 DEF SleepInv

\* The clock ticks.
LEMMA SleepTick ==
  ASSUME Time!SleepAssumption, SleepInv, Time!Tick
  PROVE  SleepInv'
  <1>1. Time!TypeOK /\ Time!StepFits
    BY DEF SleepInv
  <1>2. Asked \in Nat
    BY <1>1, SleepTyped
  <1>3. /\ now' = now + 1 /\ duration' = duration /\ remaining' = remaining
        /\ armed' = armed /\ timerSet' = timerSet /\ key' = key /\ timedout' = timedout
        /\ cancelable' = cancelable /\ waker' = waker /\ woken' = woken
        /\ polling' = polling /\ done' = done /\ origin' = origin /\ Asked' = Asked
    BY DEF Time!Tick, Time!timer, Asked
  <1>4. Time!TypeOK'
    BY <1>1, <1>3 DEF Time!TypeOK
  <1>5. Time!StepFits'
    BY <1>1, <1>3 DEF Time!StepFits
  <1>6. timerSet => \E d, k \in Int : Deadline(d, k)'
    <2> SUFFICES ASSUME timerSet PROVE \E d, k \in Int : Deadline(d, k)'
      OBVIOUS
    <2>1. PICK d \in Int, k \in Int : Deadline(d, k)
      BY DEF SleepInv
    <2>2. Deadline(d, k)'
      BY SMTT(30), <1>1, <1>3, <2>1 DEF Deadline, Time!TypeOK, Time!SleepAssumption, Time!Modulus
    <2> QED BY <2>2
  <1> QED BY <1>1, <1>2, <1>3, <1>4, <1>5, <1>6 DEF SleepInv, Time!TypeOK

\* The invariant reads only the variables.
LEMMA SleepStutters ==
  ASSUME SleepInv, UNCHANGED Time!vars
  PROVE  SleepInv'
  BY DEF SleepInv, Asked, Deadline, Time!TypeOK, Time!StepFits, Time!vars, Time!timer,
         Time!MillisecondsCeil, Time!MillisecondsFloor, Time!Durations, Time!Modulus

\* The invariant implies what SleepsSafe promises.
LEMMA SleepMeaning == Time!SleepAssumption /\ SleepInv => Time!SleepsSafe
  <1> SUFFICES ASSUME Time!SleepAssumption, SleepInv PROVE Time!SleepsSafe
    OBVIOUS
  <1>1. Time!TypeOK /\ Time!StepFits
    BY DEF SleepInv
  <1>2. done => Asked <= now
    BY <1>1, SleepTyped DEF SleepInv, Time!TypeOK
  <1>3. Time!SleepsLongEnough
    BY <1>1, <1>2, CeilCovers DEF Time!SleepsLongEnough, Time!TypeOK, Asked
  <1> QED BY <1>1, <1>3 DEF Time!SleepsSafe

\* For any width of the clock and of its units, any duration, any tasks and any
\* lateness of the loop: a sleep that has ended lasted as long as it was asked to,
\* over the rounding of duration_to_milliseconds_ceil, the steps of timer_step, early
\* polls and the wrap of ngx_current_msec, and an expiry never accounts for more than
\* what remains (Sleep::poll).
THEOREM SleepsAlwaysSafe == Time!SleepAssumption => (Time!Spec => []Time!SleepsSafe)
  <1> SUFFICES ASSUME Time!SleepAssumption PROVE Time!Spec => []Time!SleepsSafe
    OBVIOUS
  <1>1. Time!Init => SleepInv
    BY SleepInits
  <1>2. SleepInv /\ [Time!Next]_(Time!vars) => SleepInv'
    BY Zenon, SleepPoll, SleepExpire, SleepTick, SleepStutters DEF Time!Next
  <1>3. SleepInv => Time!SleepsSafe
    BY SMTT(30), SleepMeaning
  <1> QED BY <1>1, <1>2, <1>3, PTL DEF Time!Spec

-----------------------------------------------------------------------------
(***************************************************************************)
(* Resolutions.                                                            *)
(***************************************************************************)
CONSTANT Names
VARIABLE res

Name == INSTANCE Resolver

ResType ==
    [ctx : {"none", "nginx", "done", "freed"}, done : {0, 1},
     owner : {"none", "pooled", "dropped"}, linked : BOOLEAN,
     completion : {"none", "pending", "ready", "failed", "canceled", "taken"},
     block : {"none", "shared", "vector", "freed"},
     future : {"none", "pending", "returned", "dropped"},
     waker : BOOLEAN, ready : BOOLEAN, quick : BOOLEAN]

\* What the state of one resolution may be while the pool is p.
ResOK(r, p) ==
    /\ r.done = IF r.ctx = "done" THEN 1 ELSE 0
    /\ r.owner = "pooled" => p = "live"
    /\ r.linked => r.owner = "pooled"
    /\ r.ctx = "nginx" <=> r.completion = "pending"
    /\ r.completion = "pending" => r.linked /\ r.future = "pending"
    /\ r.waker => r.completion = "pending"
    /\ r.block = "shared" =>
          /\ r.completion = "ready" /\ r.future = "pending"
          /\ r.linked \/ r.quick
          /\ p = "live"
    /\ r.future = "pending" => /\ r.completion # "pending" => r.ready
                               /\ r.ready \/ r.waker
    /\ r.future = "none" => r.owner = "none"

ResInv ==
    /\ pool \in {"live", "freed"} /\ res \in [Names -> ResType]
    /\ \A n \in Names : ResOK(res[n], pool)

USE DEF Name!Results

\* The invariant implies what ResolutionsSafe promises.
LEMMA ResMeaning == ResInv => Name!ResolutionsSafe
  BY SMT DEF ResInv, ResOK, ResType, Name!ResolutionsSafe, Name!TypeOK,
             Name!ReturnedOnce, Name!HandlerHasOwner, Name!BlockBeforePool,
             Name!AnswerAnnounced


\* A field of a resolution's state may be given any of its values.
LEMMA ResPut ==
  ASSUME NEW r \in ResType
  PROVE  /\ \A v \in {"none", "nginx", "done", "freed"} : [r EXCEPT !.ctx = v] \in ResType
         /\ \A v \in {0, 1} : [r EXCEPT !.done = v] \in ResType
         /\ \A v \in {"none", "pooled", "dropped"} : [r EXCEPT !.owner = v] \in ResType
         /\ \A v \in BOOLEAN : [r EXCEPT !.linked = v] \in ResType
         /\ \A v \in {"none", "pending", "ready", "failed", "canceled", "taken"} :
                [r EXCEPT !.completion = v] \in ResType
         /\ \A v \in {"none", "shared", "vector", "freed"} : [r EXCEPT !.block = v] \in ResType
         /\ \A v \in {"none", "pending", "returned", "dropped"} :
                [r EXCEPT !.future = v] \in ResType
         /\ \A v \in BOOLEAN : [r EXCEPT !.waker = v] \in ResType
         /\ \A v \in BOOLEAN : [r EXCEPT !.ready = v] \in ResType
         /\ \A v \in BOOLEAN : [r EXCEPT !.quick = v] \in ResType
  BY ZenonT(30) DEF ResType

\* The records that Resolution::new starts from.
LEMMA ResFresh ==
  /\ Name!Fresh \in ResType /\ Name!Future \in ResType /\ Name!Waiting \in ResType
  /\ ResOK(Name!Fresh, "live") /\ ResOK(Name!Waiting, "live")
  /\ Name!Waiting.ctx = "nginx"
  /\ LET r == Name!Fresh IN
        /\ r.ctx = "none" /\ r.done = 0 /\ r.owner = "none" /\ ~r.linked
        /\ r.completion = "none" /\ r.block = "none" /\ r.future = "none"
        /\ ~r.waker /\ ~r.ready /\ ~r.quick
  /\ LET r == Name!Future IN
        /\ r.ctx = "none" /\ r.done = 0 /\ r.owner = "none" /\ ~r.linked
        /\ r.completion = "none" /\ r.block = "none" /\ r.future = "pending"
        /\ ~r.waker /\ r.ready /\ ~r.quick
  <1> DEFINE fresh == Name!Fresh
             fut == Name!Future
             waiting == Name!Waiting
  <1>1. fresh \in ResType
    BY SMTT(30) DEF Name!Fresh, ResType
  <1>2. /\ fresh.ctx = "none" /\ fresh.done = 0 /\ fresh.owner = "none"
        /\ ~fresh.linked /\ fresh.completion = "none" /\ fresh.block = "none"
        /\ fresh.future = "none" /\ ~fresh.waker /\ ~fresh.ready /\ ~fresh.quick
    BY <1>1 DEF Name!Fresh, ResType
  <1>3. fut \in ResType
    BY Zenon, <1>1, ResPut DEF Name!Future
  <1>4. /\ fut.ctx = "none" /\ fut.done = 0 /\ fut.owner = "none"
        /\ ~fut.linked /\ fut.completion = "none" /\ fut.block = "none"
        /\ fut.future = "pending" /\ ~fut.waker /\ fut.ready /\ ~fut.quick
    BY <1>1, <1>2 DEF Name!Future, ResType
  <1>5. waiting \in ResType
    BY Zenon, <1>3, ResPut DEF Name!Waiting
  <1>6. /\ waiting.ctx = "nginx" /\ waiting.done = 0 /\ waiting.owner = "pooled"
        /\ waiting.linked /\ waiting.completion = "pending" /\ waiting.block = "none"
        /\ waiting.future = "pending" /\ ~waiting.waker /\ waiting.ready
        /\ ~waiting.quick
    BY SMTT(30), <1>3, <1>4 DEF Name!Waiting, ResType
  <1> HIDE DEF fresh, fut, waiting
  <1>7. ResOK(fresh, "live") /\ ResOK(waiting, "live")
    BY <1>2, <1>6 DEF ResOK
  <1> QED
    BY <1>1, <1>2, <1>3, <1>4, <1>5, <1>6, <1>7 DEF fresh, fut, waiting

\* Resolution::new when nginx answers at once, and when it fails.
LEMMA ResQuick ==
  ASSUME NEW x \in Name!Results
  PROVE  LET q == [Name!Future EXCEPT !.completion = Name!CompletionFor(x),
                           !.block = Name!BlockFor(x), !.owner = "dropped",
                           !.quick = TRUE]
         IN  q \in ResType /\ ResOK(q, "live")
  <1> DEFINE f == Name!Future
             k == Name!CompletionFor(x)
             b == Name!BlockFor(x)
             q == [f EXCEPT !.completion = k, !.block = b, !.owner = "dropped",
                            !.quick = TRUE]
  <1>1. k \in {"ready", "failed"} /\ b \in {"shared", "none"} /\ (b = "shared" => k = "ready")
    BY DEF Name!CompletionFor, Name!BlockFor
  <1>2. f \in ResType
    BY ResFresh
  <1>3. /\ f.ctx = "none" /\ f.done = 0 /\ ~f.linked /\ f.future = "pending"
        /\ ~f.waker /\ f.ready
    BY ResFresh
  <1> HIDE DEF f, k, b
  <1>4. q \in ResType
    BY Zenon, <1>1, <1>2, ResPut
  <1>5. /\ q.ctx = "none" /\ q.done = 0 /\ ~q.linked /\ q.future = "pending"
        /\ ~q.waker /\ q.ready /\ q.completion = k /\ q.block = b
        /\ q.owner = "dropped" /\ q.quick
    BY <1>2, <1>3 DEF ResType
  <1> HIDE DEF q
  <1>6. ResOK(q, "live")
    BY <1>1, <1>5 DEF ResOK
  <1> QED BY <1>4, <1>6 DEF q, f, k, b

\* Resolution::new that fails.
LEMMA ResFails ==
  ASSUME NEW named \in BOOLEAN
  PROVE  LET q == [Name!Fresh EXCEPT !.future = "dropped", !.owner = "dropped",
                            !.completion = IF named THEN "canceled" ELSE "none",
                            !.ctx = IF named THEN "freed" ELSE "none"]
         IN  q \in ResType /\ ResOK(q, "live")
  <1> DEFINE f == Name!Fresh
             k == IF named THEN "canceled" ELSE "none"
             c == IF named THEN "freed" ELSE "none"
             q == [f EXCEPT !.future = "dropped", !.owner = "dropped",
                            !.completion = k, !.ctx = c]
  <1>1. k \in {"canceled", "none"} /\ c \in {"freed", "none"}
    OBVIOUS
  <1>2. f \in ResType
    BY ResFresh
  <1>3. f.done = 0 /\ ~f.linked /\ ~f.waker /\ f.block = "none"
    BY ResFresh
  <1> HIDE DEF f, k, c
  <1>4. q \in ResType
    BY Zenon, <1>1, <1>2, ResPut
  <1>5. /\ q.ctx = c /\ q.done = 0 /\ ~q.linked /\ q.future = "dropped"
        /\ ~q.waker /\ q.completion = k /\ q.block = "none" /\ q.owner = "dropped"
    BY <1>2, <1>3 DEF ResType
  <1> HIDE DEF q
  <1>6. ResOK(q, "live")
    BY <1>1, <1>5 DEF ResOK
  <1> QED BY <1>4, <1>6 DEF q, f, k, c

\* ngx_resolve_name_done for a context that nginx has.
LEMMA ResReturn ==
  ASSUME NEW r \in ResType, r.done = 0
  PROVE  /\ Name!Return(r) = [r EXCEPT !.ctx = "done", !.done = 1]
         /\ Name!Return(r) \in ResType
  <1>1. Name!Return(r) = [r EXCEPT !.ctx = "done", !.done = 1]
    BY DEF Name!Return, ResType
  <1>2. [r EXCEPT !.ctx = "done", !.done = 1] \in ResType
    BY Zenon, ResPut
  <1> HIDE DEF Name!Return
  <1> QED BY Zenon, <1>1, <1>2

\* nginx answers a context it has.
LEMMA ResAnswer ==
  ASSUME NEW r \in ResType, NEW p, ResOK(r, p), r.ctx = "nginx", NEW x \in Name!Results
  PROVE  Name!Answer(r, x) \in ResType /\ ResOK(Name!Answer(r, x), p)
  <1> DEFINE y == r.ready \/ r.waker
             k == Name!CompletionFor(x)
             b == Name!BlockFor(x)
             s == Name!Return(r)
             a == [s EXCEPT !.completion = k, !.block = b, !.ready = y, !.waker = FALSE]
  <1>1. k \in {"ready", "failed"} /\ b \in {"shared", "none"} /\ (b = "shared" => k = "ready")
    BY DEF Name!CompletionFor, Name!BlockFor
  <1>2. r.done = 0 /\ r.linked /\ r.completion = "pending"
    BY DEF ResOK
  <1>3. s = [r EXCEPT !.ctx = "done", !.done = 1] /\ s \in ResType
    BY Zenon, <1>2, ResReturn
  <1>4. /\ s.ctx = "done" /\ s.done = 1 /\ s.linked = r.linked /\ s.owner = r.owner
        /\ s.future = r.future /\ s.ready = r.ready
    BY <1>3 DEF ResType
  <1>5. y \in BOOLEAN
    BY DEF ResType
  <1>6. Name!Answer(r, x) = a
    BY <1>2, <1>4 DEF Name!Answer
  <1> HIDE DEF k, b, s
  <1>7. a \in ResType
    <2> HIDE DEF y
    <2> QED BY Zenon, <1>1, <1>3, <1>5, ResPut
  <1>8. /\ a.ctx = "done" /\ a.done = 1 /\ a.linked = r.linked /\ a.owner = r.owner
        /\ a.future = r.future /\ a.completion = k /\ a.block = b
        /\ a.ready = y /\ ~a.waker
    BY <1>3, <1>4 DEF ResType
  <1> HIDE DEF a
  <1>9. ResOK(a, p)
    BY Zenon, <1>1, <1>2, <1>8 DEF ResOK
  <1> QED BY <1>6, <1>7, <1>9

\* ResolutionOwner::cancel: the context goes back to nginx, and the future
\* loses its owner.
LEMMA ResCancel ==
  ASSUME NEW r \in ResType, NEW p, ResOK(r, p)
  PROVE  LET c == Name!Cancel(r) IN
         /\ c \in ResType /\ c.owner = r.owner /\ ~c.linked
         /\ c.ctx = (IF r.ctx = "nginx" THEN "done" ELSE r.ctx)
         /\ c.done = (IF r.ctx = "nginx" THEN 1 ELSE r.done)
         /\ c.completion = (IF r.linked THEN "canceled" ELSE r.completion)
         /\ c.block = (IF r.linked /\ r.block = "shared" THEN "freed" ELSE r.block)
         /\ c.future = r.future /\ c.quick = r.quick
         /\ c.ready = r.ready /\ c.waker = (IF r.linked THEN FALSE ELSE r.waker)
  <1> DEFINE s == Name!Release(r)
             b == Name!Drop(s.block)
             c == [s EXCEPT !.linked = FALSE, !.completion = "canceled", !.block = b,
                            !.waker = FALSE]
  <1>1. r.ctx = "nginx" => r.done = 0 /\ r.linked
    BY DEF ResOK
  <1>2. s \in ResType
    BY ZenonT(30), <1>1, ResReturn DEF Name!Release
  <1>3. /\ s.ctx = (IF r.ctx = "nginx" THEN "done" ELSE r.ctx)
        /\ s.done = (IF r.ctx = "nginx" THEN 1 ELSE r.done)
        /\ s.linked = r.linked /\ s.owner = r.owner /\ s.completion = r.completion
        /\ s.block = r.block /\ s.future = r.future /\ s.quick = r.quick
        /\ s.ready = r.ready /\ s.waker = r.waker
    <2>1. CASE r.ctx = "nginx"
      <3>1. s = [r EXCEPT !.ctx = "done", !.done = 1]
        BY Zenon, <1>1, <2>1, ResReturn DEF Name!Release
      <3> QED BY <2>1, <3>1 DEF ResType
    <2>2. CASE r.ctx # "nginx"
      BY SMTT(30), <2>2 DEF Name!Release
    <2> QED BY <2>1, <2>2
  <1>4. b = (IF r.block = "shared" THEN "freed" ELSE r.block)
    BY <1>3 DEF Name!Drop
  <1>5. Name!Cancel(r) = IF r.linked THEN c ELSE s
    BY <1>3 DEF Name!Cancel, Name!Detach
  <1> HIDE DEF s
  <1>6. b \in {"none", "shared", "vector", "freed"}
    BY <1>4 DEF ResType
  <1> HIDE DEF b
  <1>7. c \in ResType
    BY Zenon, <1>2, <1>6, ResPut
  <1>8. /\ c.ctx = s.ctx /\ c.done = s.done /\ ~c.linked /\ c.completion = "canceled"
        /\ c.block = b /\ c.owner = s.owner /\ c.future = s.future
        /\ c.quick = s.quick /\ c.ready = s.ready /\ c.waker = FALSE
    BY <1>2 DEF ResType
  <1> HIDE DEF c
  <1>9. CASE r.linked
    BY ZenonT(30), <1>3, <1>4, <1>5, <1>7, <1>8, <1>9
  <1>10. CASE ~r.linked
    <2>1. Name!Cancel(r) = s /\ ~s.linked
      BY Zenon, <1>3, <1>5, <1>10
    <2> QED BY <1>1, <1>2, <1>3, <1>10, <2>1
  <1> QED BY Zenon, <1>9, <1>10

\* ResolutionOwner::drop, while the pool is destroyed.
LEMMA ResDropOwner ==
  ASSUME NEW r \in ResType, ResOK(r, "live"), r.owner = "pooled",
         r.quick => r.future # "pending"
  PROVE  Name!DropOwner(r) \in ResType /\ ResOK(Name!DropOwner(r), "freed")
  <1> DEFINE c == Name!Cancel(r)
             y == c.ready \/ r.waker
             d == [c EXCEPT !.owner = "dropped", !.ready = y]
  <1>1. /\ c \in ResType
        /\ c.ctx = (IF r.ctx = "nginx" THEN "done" ELSE r.ctx)
        /\ c.done = (IF r.ctx = "nginx" THEN 1 ELSE r.done)
        /\ ~c.linked /\ c.completion = (IF r.linked THEN "canceled" ELSE r.completion)
        /\ c.block = (IF r.linked /\ r.block = "shared" THEN "freed" ELSE r.block)
        /\ c.future = r.future /\ c.ready = r.ready
        /\ c.waker = (IF r.linked THEN FALSE ELSE r.waker)
    BY Zenon, ResCancel
  <1>2. Name!DropOwner(r) = d
    BY DEF Name!DropOwner
  <1> HIDE DEF c
  <1>3. y \in BOOLEAN
    BY <1>1 DEF ResType
  <1>4. d \in ResType
    <2> HIDE DEF y
    <2> QED BY Zenon, <1>1, <1>3, ResPut
  <1>5. /\ d.ctx = c.ctx /\ d.done = c.done /\ ~d.linked /\ d.completion = c.completion
        /\ d.block = c.block /\ d.future = c.future /\ d.waker = c.waker
        /\ d.owner = "dropped" /\ d.ready = y
    BY Zenon, <1>1 DEF ResType
  <1> HIDE DEF d
  <1>6. ResOK(d, "freed")
    BY Zenon, <1>1, <1>5 DEF ResOK
  <1> QED BY <1>2, <1>4, <1>6

\* Resolution::poll.
LEMMA ResPoll ==
  ASSUME NEW r \in ResType, NEW p, ResOK(r, p), r.future = "pending", r.ready
  PROVE  LET q == IF r.completion = "pending"
                  THEN [r EXCEPT !.waker = TRUE, !.ready = FALSE]
                  ELSE [r EXCEPT !.future = "returned", !.ready = FALSE,
                           !.block = IF @ = "shared" THEN "vector" ELSE @,
                           !.completion = IF @ = "canceled" THEN @ ELSE "taken"]
         IN  q \in ResType /\ ResOK(q, p)
  <1>1. CASE r.completion = "pending"
    <2> DEFINE q == [r EXCEPT !.waker = TRUE, !.ready = FALSE]
    <2>1. q \in ResType
      BY Zenon, ResPut
    <2>2. /\ q.ctx = r.ctx /\ q.done = r.done /\ q.linked = r.linked
          /\ q.completion = r.completion /\ q.block = r.block /\ q.future = r.future
          /\ q.owner = r.owner /\ q.waker
      BY SMTT(30) DEF ResType
    <2> HIDE DEF q
    <2>3. ResOK(q, p)
      BY <1>1, <2>2 DEF ResOK
    <2> QED BY <1>1, <2>1, <2>3 DEF q
  <1>2. CASE r.completion # "pending"
    <2> DEFINE b == IF r.block = "shared" THEN "vector" ELSE r.block
               k == IF r.completion = "canceled" THEN r.completion ELSE "taken"
               q == [r EXCEPT !.future = "returned", !.ready = FALSE, !.block = b,
                              !.completion = k]
    <2>1. /\ b \in {"none", "shared", "vector", "freed"} /\ b # "shared"
          /\ k \in {"canceled", "taken"}
      BY DEF ResType
    <2> HIDE DEF b, k
    <2>2. q \in ResType
      BY Zenon, <2>1, ResPut
    <2>3. /\ q.ctx = r.ctx /\ q.done = r.done /\ q.linked = r.linked
          /\ q.completion = k /\ q.block = b /\ q.future = "returned"
          /\ q.owner = r.owner /\ q.waker = r.waker
      BY SMTT(30) DEF ResType
    <2> HIDE DEF q
    <2>4. ResOK(q, p)
      BY <1>2, <2>1, <2>3 DEF ResOK
    <2> QED BY <1>2, <2>2, <2>4 DEF q, b, k
  <1> QED BY <1>1, <1>2

\* Resolution::drop.
LEMMA ResDropFuture ==
  ASSUME NEW r \in ResType, NEW p, ResOK(r, p), r.future \in {"pending", "returned"}
  PROVE  LET c == IF r.linked THEN Name!Cancel(r) ELSE r
             d == [c EXCEPT !.future = "dropped", !.block = Name!Drop(@),
                            !.ready = FALSE]
         IN  d \in ResType /\ ResOK(d, p)
  <1> DEFINE c == IF r.linked THEN Name!Cancel(r) ELSE r
             b == Name!Drop(c.block)
             d == [c EXCEPT !.future = "dropped", !.block = b, !.ready = FALSE]
  <1>1. c \in ResType
    BY Zenon, ResCancel
  <1>2. /\ c.ctx = (IF r.ctx = "nginx" THEN "done" ELSE r.ctx)
        /\ c.done = (IF r.ctx = "nginx" THEN 1 ELSE r.done)
        /\ ~c.linked /\ c.completion = (IF r.linked THEN "canceled" ELSE r.completion)
        /\ c.owner = r.owner /\ c.waker = (IF r.linked THEN FALSE ELSE r.waker)
    <2>1. CASE r.linked
      BY ZenonT(30), <2>1, ResCancel
    <2>2. CASE ~r.linked
      BY <2>2 DEF ResOK
    <2> QED BY Zenon, <2>1, <2>2
  <1> HIDE DEF c
  <1>3. b \in {"none", "shared", "vector", "freed"} /\ b # "shared"
    BY <1>1 DEF Name!Drop, ResType
  <1> HIDE DEF b
  <1>4. d \in ResType
    BY Zenon, <1>1, <1>3, ResPut
  <1>5. /\ d.ctx = c.ctx /\ d.done = c.done /\ d.linked = c.linked
        /\ d.completion = c.completion /\ d.owner = c.owner /\ d.waker = c.waker
        /\ d.block = b /\ d.future = "dropped"
    BY SMTT(30), <1>1 DEF ResType
  <1> HIDE DEF d
  <1>6. ResOK(d, p)
    BY <1>2, <1>3, <1>5 DEF ResOK
  <1> QED BY <1>4, <1>6 DEF d, b, c

\* One resolution changes, the others and the pool do not.
LEMMA ResSet ==
  ASSUME ResInv, NEW n \in Names, NEW r \in ResType, ResOK(r, pool), Name!Set(n, r)
  PROVE  ResInv'
  <1>1. res' = [res EXCEPT ![n] = r] /\ pool' = pool
    BY DEF Name!Set
  <1> QED BY <1>1 DEF ResInv

\* Every step keeps the invariant.
LEMMA ResStep == ResInv /\ [Name!Next]_(Name!vars) => ResInv'
  <1> SUFFICES ASSUME ResInv, [Name!Next]_(Name!vars) PROVE ResInv'
    OBVIOUS
  <1> USE DEF ResInv
  <1>1. CASE Name!DestroyPool
    <2>1. /\ pool = "live" /\ pool' = "freed"
          /\ res' = [n \in Names |-> IF res[n].owner = "pooled"
                                     THEN Name!DropOwner(res[n]) ELSE res[n]]
          /\ \A n \in Names : res[n].quick => res[n].future # "pending"
      BY <1>1 DEF Name!DestroyPool
    <2>2. ASSUME NEW n \in Names
          PROVE  res'[n] \in ResType /\ ResOK(res'[n], "freed")
      <3>1. CASE res[n].owner = "pooled"
        BY SMTT(30), <2>1, <3>1, ResDropOwner
      <3>2. CASE res[n].owner # "pooled"
        <4>1. res'[n] = res[n] /\ res[n] \in ResType
          BY <2>1, <3>2
        <4>2. ResOK(res[n], "live")
          BY <2>1
        <4> QED BY <2>1, <3>2, <4>1, <4>2, SMT DEF ResOK, ResType
      <3> QED BY <3>1, <3>2
    <2> QED BY <2>1, <2>2
  <1>2. ASSUME NEW n \in Names, NEW x \in Name!Results, NEW named \in BOOLEAN,
               \/ Name!Start(n) \/ Name!StartQuick(n, x) \/ Name!StartCached(n, x)
               \/ Name!StartFails(n, named)
        PROVE  ResInv'
    <2> HIDE DEF ResInv
    <2>1. pool = "live"
      BY <1>2 DEF Name!Start, Name!StartQuick, Name!StartCached, Name!StartFails,
                  Name!Begun
    <2>2. CASE Name!Start(n)
      BY <2>1, <2>2, ResFresh, ResSet DEF Name!Start
    <2>3. CASE Name!StartQuick(n, x)
      BY Zenon, <2>1, <2>3, ResQuick, ResSet DEF Name!StartQuick
    <2>4. CASE Name!StartCached(n, x)
      <3>1. /\ Name!Answer(Name!Waiting, x) \in ResType
            /\ ResOK(Name!Answer(Name!Waiting, x), "live")
        BY ResFresh, ResAnswer
      <3> QED BY SMTT(30), <2>1, <2>4, <3>1, ResSet DEF Name!StartCached
    <2>5. CASE Name!StartFails(n, named)
      BY ZenonT(30), <2>1, <2>5, ResFails, ResSet DEF Name!StartFails
    <2> QED BY <1>2, <2>2, <2>3, <2>4, <2>5
  <1>3. ASSUME NEW n \in Names, NEW x \in Name!Results, Name!Handler(n, x)
        PROVE  ResInv'
    <2>1. res[n] \in ResType /\ ResOK(res[n], pool)
      OBVIOUS
    <2> HIDE DEF ResInv
    <2> QED BY <1>3, <2>1, ResAnswer, ResSet DEF Name!Handler
  <1>4. ASSUME NEW n \in Names, Name!Poll(n) PROVE ResInv'
    <2>1. res[n] \in ResType /\ ResOK(res[n], pool)
      OBVIOUS
    <2> HIDE DEF ResInv
    <2> QED BY Zenon, <1>4, <2>1, ResPoll, ResSet DEF Name!Poll
  <1>5. ASSUME NEW n \in Names, Name!DropFuture(n) PROVE ResInv'
    <2>1. res[n] \in ResType /\ ResOK(res[n], pool)
      OBVIOUS
    <2> HIDE DEF ResInv
    <2> QED BY Zenon, <1>5, <2>1, ResDropFuture, ResSet DEF Name!DropFuture
  <1>6. CASE UNCHANGED Name!vars
    BY <1>6 DEF Name!vars
  <1> QED BY Zenon, <1>1, <1>2, <1>3, <1>4, <1>5, <1>6 DEF Name!Next

\* For any number of resolutions: a context goes back to nginx exactly once
\* (ngx_resolve_name_done), the owner that nginx's handler points to exists while
\* nginx may call it, the copied addresses are freed before their pool, and a
\* future that has its answer was woken, in whatever order nginx, the future and the
\* pool end (Resolution::new, poll and drop, ResolutionOwner).
THEOREM ResolutionsAlwaysSafe == Name!Spec => []Name!ResolutionsSafe
  <1>1. Name!Init => ResInv
    <2>1. Name!Fresh \in ResType /\ ResOK(Name!Fresh, "live")
      BY ResFresh
    <2> QED BY <2>1 DEF Name!Init, ResInv
  <1> QED BY <1>1, ResStep, ResMeaning, PTL DEF Name!Spec
=============================================================================
