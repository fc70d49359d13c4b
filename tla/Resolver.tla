------------------------------- MODULE Resolver -------------------------------
(***************************************************************************)
(* Name resolution as a future (async_/resolver.rs).  The nginx resolver   *)
(* context is owned by a ResolutionOwner in a pool; the owner and the      *)
(* future share a ResolutionShared.  nginx answers a context inside the    *)
(* call that starts it, later, by its timeout, or never; the future and    *)
(* the pool may each go first.                                             *)
(***************************************************************************)
EXTENDS Integers

CONSTANT Names    \* the resolutions

VARIABLES pool,   \* "live", or "freed" after ngx_destroy_pool
          res     \* res[n]: the state of one resolution, see Fresh

vars == <<pool, res>>

Results == {"addresses", "error"}

(* ctx: the nginx context, "nginx" while nginx may still answer it; done:  *)
(* calls of ngx_resolve_name_done for it; owner: the owner's place in the  *)
(* pool; linked: ResolutionShared::owner is Some; block: who has the copied*)
(* addresses.                                                              *)
Fresh == [ctx |-> "none", done |-> 0, owner |-> "none", linked |-> FALSE,
          completion |-> "none", block |-> "none", future |-> "none",
          waker |-> FALSE, ready |-> FALSE, quick |-> FALSE]

Init == pool = "live" /\ res = [n \in Names |-> Fresh]

CompletionFor(x) == IF x = "addresses" THEN "ready" ELSE "failed"

BlockFor(x) == IF x = "addresses" THEN "shared" ELSE "none"

Drop(block) == IF block = "shared" THEN "freed" ELSE block

(* ResolutionOwner::complete: the context is taken and made inert, the     *)
(* result copied into the pool, the context returned to nginx; a future    *)
(* that is gone, or was answered, gets nothing.                            *)
Return(r) == [r EXCEPT !.ctx = "done", !.done = @ + 1]

Answer(r, x) ==
    IF r.linked /\ r.completion = "pending"
      THEN [Return(r) EXCEPT !.completion = CompletionFor(x), !.block = BlockFor(x),
                             !.ready = @ \/ r.waker, !.waker = FALSE]
      ELSE Return(r)

(* ResolutionOwner::cancel by the future and by the pool's cleanup.        *)
Release(r) == IF r.ctx = "nginx" THEN Return(r) ELSE r

Detach(r) ==
    IF r.linked
      THEN [r EXCEPT !.linked = FALSE, !.completion = "canceled",
                     !.block = Drop(@), !.waker = FALSE]
      ELSE r

Cancel(r) == Detach(Release(r))

DropOwnerQuietly(r) == [Cancel(r) EXCEPT !.owner = "dropped"]

(* ResolutionOwner::drop wakes the waker that cancel returns.              *)
DropOwner(r) == [Cancel(r) EXCEPT !.owner = "dropped", !.ready = @ \/ r.waker]

Begun(n) == pool = "live" /\ res[n].future = "none"

Set(n, r) == res' = [res EXCEPT ![n] = r] /\ UNCHANGED pool

Future == [Fresh EXCEPT !.future = "pending", !.ready = TRUE]

(* Resolution::new whose ngx_resolve_start answers a literal address in the*)
(* temporary context: the owner is removed again.                          *)
StartQuick(n, x) ==
    /\ Begun(n)
    /\ Set(n, [Future EXCEPT !.completion = CompletionFor(x), !.block = BlockFor(x),
                             !.owner = "dropped", !.quick = TRUE])

(* Resolution::new that fails before there is a context, or whose          *)
(* ngx_resolve_name fails: nginx has freed the context, which is forgotten,*)
(* and the owner is removed.                                               *)
StartFails(n, named) ==
    /\ Begun(n)
    /\ Set(n, [Fresh EXCEPT !.future = "dropped", !.owner = "dropped",
                            !.completion = IF named THEN "canceled" ELSE "none",
                            !.ctx = IF named THEN "freed" ELSE "none"])

Waiting == [Future EXCEPT !.ctx = "nginx", !.owner = "pooled", !.linked = TRUE,
                          !.completion = "pending"]

(* Resolution::new with a context that nginx keeps, or for which it calls  *)
(* the handler before ngx_resolve_name returns.                            *)
Start(n) == Begun(n) /\ Set(n, Waiting)

StartCached(n, x) == Begun(n) /\ Set(n, Answer(Waiting, x))

(* nginx answers the context, by a response or by its timeout.             *)
Handler(n, x) == res[n].ctx = "nginx" /\ Set(n, Answer(res[n], x))

(* Resolution::poll.  The future is ready with what completion says; the   *)
(* addresses become the caller's vector.                                   *)
Poll(n) ==
    /\ res[n].future = "pending" /\ res[n].ready
    /\ Set(n, IF res[n].completion = "pending"
              THEN [res[n] EXCEPT !.waker = TRUE, !.ready = FALSE]
              ELSE [res[n] EXCEPT !.future = "returned", !.ready = FALSE,
                       !.block = IF @ = "shared" THEN "vector" ELSE @,
                       !.completion = IF @ = "canceled" THEN @ ELSE "taken"])

(* Resolution::drop, after it returned or before.                          *)
DropFuture(n) ==
    /\ res[n].future \in {"pending", "returned"}
    /\ LET r == IF res[n].linked THEN Cancel(res[n]) ELSE res[n] IN
       Set(n, [r EXCEPT !.future = "dropped", !.block = Drop(@), !.ready = FALSE])

(* ngx_destroy_pool runs the owners' cleanups, then frees the memory.  The *)
(* borrow of the pool has ended the futures that have no owner, and the    *)
(* vectors of addresses.                                                   *)
DestroyPool ==
    /\ pool = "live"
    /\ \A n \in Names : /\ res[n].block # "vector" \/ res[n].future = "dropped"
                        /\ res[n].quick => res[n].future # "pending"
    /\ pool' = "freed"
    /\ res' = [n \in Names |-> IF res[n].owner = "pooled" THEN DropOwner(res[n])
                               ELSE res[n]]

Over == pool = "freed" /\ \A n \in Names : res[n].future # "pending"

Next ==
    \/ DestroyPool
    \/ \E n \in Names :
        \/ Start(n) \/ \E x \in Results : StartQuick(n, x) \/ StartCached(n, x)
        \/ \E named \in BOOLEAN : StartFails(n, named)
        \/ \E x \in Results : Handler(n, x)
        \/ Poll(n) \/ DropFuture(n)
    \/ Over /\ UNCHANGED vars

Spec == Init /\ [][Next]_vars

(* nginx answers every context, at the latest when its timeout expires,    *)
(* and the scheduler polls a task that was woken.                          *)
FairSpec ==
    Spec /\ \A n \in Names : /\ WF_vars(Poll(n))
                            /\ WF_vars(\E x \in Results : Handler(n, x))

(* Types; an owner is linked to its future only while it is in the pool.   *)
TypeOK ==
    /\ pool \in {"live", "freed"}
    /\ \A n \in Names :
        /\ res[n] \in [ctx : {"none", "nginx", "done", "freed"}, done : 0..2,
                       owner : {"none", "pooled", "dropped"}, linked : BOOLEAN,
                       completion : {"none", "pending", "ready", "failed",
                                     "canceled", "taken"},
                       block : {"none", "shared", "vector", "freed"},
                       future : {"none", "pending", "returned", "dropped"},
                       waker : BOOLEAN, ready : BOOLEAN, quick : BOOLEAN]
        /\ res[n].linked => res[n].owner = "pooled"
        /\ pool = "freed" => res[n].owner # "pooled"

(* Each context that nginx hands out goes back to it exactly once, and the *)
(* one that nginx freed itself never.                                      *)
ReturnedOnce ==
    \A n \in Names : res[n].done = (IF res[n].ctx = "done" THEN 1 ELSE 0)

(* While nginx may call the handler, the owner its data points to exists,  *)
(* and somebody still wants the answer.                                    *)
HandlerHasOwner ==
    \A n \in Names : res[n].ctx = "nginx" =>
        res[n].owner = "pooled" /\ res[n].future = "pending"

(* The copied addresses are freed before the pool that they are in, and    *)
(* never by a completion that was replaced or forgotten.                   *)
BlockBeforePool ==
    \A n \in Names : res[n].block = "shared" =>
        /\ pool = "live" /\ res[n].completion = "ready"
        /\ res[n].future = "pending"

(* A future that is answered or canceled has been woken.                   *)
AnswerAnnounced ==
    \A n \in Names : res[n].future = "pending" =>
        (res[n].completion # "pending" => res[n].ready) /\ (res[n].ready \/ res[n].waker)

(* What holds of resolutions in every state.                               *)
ResolutionsSafe ==
    TypeOK /\ ReturnedOnce /\ HandlerHasOwner /\ BlockBeforePool /\ AnswerAnnounced

(* Every resolution that is awaited ends.                                  *)
ResolutionEnds ==
    \A n \in Names : res[n].future = "pending" ~> res[n].future # "pending"
=============================================================================
