----------------------------- MODULE RequestHold -----------------------------
(***************************************************************************)
(* The references that delayed work keeps on an nginx main request         *)
(* (http/request/continuation.rs): a context's RequestHold, the            *)
(* RequestContinuation it is turned into for one terminal operation, and   *)
(* nginx's own references, all counted in the main request's 16-bit count. *)
(***************************************************************************)
EXTENDS Integers, FiniteSets

CONSTANTS Holders,       \* the request contexts that own a hold slot
          Subrequests,   \* the holders whose request is not the main request
          CountMax,      \* the largest value of the count field (u16::MAX)
          Reserve,       \* nginx's reserved lifecycle range (1000)
          NativeMax,     \* bound: references nginx takes at one time
          PhaseMax,      \* the largest phase-handler index (ngx_int_t::MAX)
          Documented     \* continuations give their reference up before
                         \* entering nginx only where the request's ordinary
                         \* processing reference remains, as documented

ASSUME HoldAssumption ==
    /\ Subrequests \subseteq Holders /\ IsFiniteSet(Holders)
    /\ CountMax \in Nat /\ Reserve \in 0..CountMax
    /\ NativeMax \in 1..Reserve /\ PhaseMax \in Nat
    /\ Documented \in BOOLEAN

VARIABLES count,      \* r->main->count
          native,     \* native[r]: the references nginx itself has for r
          pool,       \* the request pool, and with it the request, exists
          terminated, \* r->main->terminated
          slot,       \* slot[h]: the context's Option<RequestHold> is Some
          cont,       \* cont[h]: the continuation taken from h's slot
          phase,      \* r->phase_handler
          lost        \* holds that were in their slots when the request was
                      \* freed without having been terminated

vars == <<count, native, pool, terminated, slot, cont, phase, lost>>

NoCont == [hold |-> FALSE, header |-> FALSE, body |-> FALSE, open |-> FALSE]

Taken == [hold |-> TRUE, header |-> FALSE, body |-> FALSE, open |-> TRUE]

MaxCountAfterHold == CountMax - Reserve

Requests == {"main", "sub"}

Request(h) == IF h \in Subrequests THEN "sub" ELSE "main"

Mains(n) == [r \in Requests |-> IF r = "main" THEN n ELSE 0]

Native == native["main"] + native["sub"]

Empty == [h \in Holders |-> FALSE]

Held(s) == Cardinality({h \in Holders : s[h]})

Continuing == {h \in Holders : cont[h].hold}

Holds == Held(slot) + Cardinality(Continuing)

Init ==
    /\ count = 1 /\ native = Mains(1)
    /\ pool = TRUE /\ terminated = FALSE
    /\ slot = Empty
    /\ cont = [h \in Holders |-> NoCont]
    /\ phase \in {-1, 0}
    /\ lost = {}

TypeOK ==
    /\ count \in Nat /\ native \in [Requests -> Nat]
    /\ pool \in BOOLEAN /\ terminated \in BOOLEAN
    /\ slot \in [Holders -> BOOLEAN]
    /\ cont \in [Holders -> [hold: BOOLEAN, header: BOOLEAN, body: BOOLEAN, open: BOOLEAN]]
    /\ phase \in -1..PhaseMax
    /\ lost \subseteq Holders

\* The count reaches c. At zero nginx frees the request; the pool cleanups of
\* the contexts disarm the holds still in their slots (disarm_for_cleanup).
Settle(c, n, s) ==
    /\ count' = c /\ native' = n
    /\ pool' = (c > 0)
    /\ slot' = IF c > 0 THEN s ELSE Empty
    /\ lost' = IF c > 0 \/ terminated THEN lost ELSE {h \in Holders : s[h]}

\* What the count is after one reference is released: the last reference of a
\* live request goes through ngx_http_finalize_request(NGX_DONE), that of a
\* terminated one is left to nginx's terminate handler.
release_request_reference(c) ==
    IF c > 1 THEN c - 1 ELSE IF c = 1 /\ ~terminated THEN 0 ELSE c

\* ngx_http_terminate_request: the request's cleanup cancels every context, so
\* the holds in the slots are dropped; the request itself is closed later, by
\* the posted ngx_http_terminate_handler.
Terminate(c, s) ==
    LET left == IF c > Held(s) THEN c - Held(s) ELSE 1 IN
    /\ terminated' = TRUE
    /\ Settle(left, Mains(left - Cardinality({h \in Holders : cont'[h].hold})), Empty)

\* ngx_http_finalize_request with a status that consumes a reference: nginx
\* closes it, keeps it for the pending output's writer, or terminates.
NginxFinalize(r, c, n, s) ==
    \/ terminated' = terminated /\ Settle(c - 1, [n EXCEPT ![r] = @ - 1], s)
    \/ terminated' = terminated /\ Settle(c, n, s)
    \/ Terminate(c, s)

\* ngx_http_core_run_phases: a handler suspends the phases again, or the last
\* one finalizes the request.
NginxRunPhases(r, c, n, s) ==
    \/ terminated' = terminated /\ Settle(c, n, s)
    \/ NginxFinalize(r, c, n, s)

\* nginx takes a reference: a subrequest, a client-body read, a redirect.
NginxRetain(r) ==
    /\ pool /\ Native < NativeMax
    /\ Settle(count + 1, [native EXCEPT ![r] = @ + 1], slot)
    /\ UNCHANGED <<terminated, cont, phase>>

\* nginx closes one of its own references.
NginxClose(r) ==
    /\ pool /\ native[r] > 0
    /\ Settle(count - 1, [native EXCEPT ![r] = @ - 1], slot)
    /\ UNCHANGED <<terminated, cont, phase>>

\* The client goes away outside any continuation.
NginxTerminate ==
    /\ pool /\ ~terminated
    /\ Continuing = {}
    /\ UNCHANGED <<cont, phase>>
    /\ Terminate(count, slot)

\* ngx_http_terminate_handler: count = 1, then ngx_http_close_request.
NginxTerminateHandler ==
    /\ pool /\ terminated
    /\ Continuing = {}
    /\ Settle(0, [r \in Requests |-> 0], slot)
    /\ UNCHANGED <<terminated, cont, phase>>

-----------------------------------------------------------------------------

CountAdmitsHold == count > 0 /\ count < MaxCountAfterHold

hold(h) ==
    /\ pool /\ ~slot[h]
    /\ CountAdmitsHold
    /\ Settle(count + 1, native, [slot EXCEPT ![h] = TRUE])
    /\ UNCHANGED <<terminated, cont, phase>>

TakeLeavingHold(h) ==
    /\ pool /\ slot[h] /\ count > 0
    /\ ~cont[h].open
    /\ cont' = [cont EXCEPT ![h] = Taken]
    /\ UNCHANGED <<slot, count, native, pool, terminated, phase, lost>>

\* RequestHold::take: the hold leaves the slot before the terminal operation.
take(h) ==
    /\ pool /\ slot[h] /\ count > 0
    /\ ~cont[h].open
    /\ slot' = [slot EXCEPT ![h] = FALSE]
    /\ cont' = [cont EXCEPT ![h] = Taken]
    /\ UNCHANGED <<count, native, pool, terminated, phase, lost>>

\* RequestHold::cancel, and the drop of a context that holds the request.
CancelHold(h) ==
    /\ pool /\ slot[h]
    /\ Settle(release_request_reference(count), native, [slot EXCEPT ![h] = FALSE])
    /\ UNCHANGED <<terminated, cont, phase>>

RestoreOver(h) ==
    /\ pool /\ cont[h].hold
    /\ ~cont[h].header /\ ~cont[h].body
    /\ slot' = [slot EXCEPT ![h] = TRUE]
    /\ cont' = [cont EXCEPT ![h] = NoCont]
    /\ UNCHANGED <<count, native, pool, terminated, phase, lost>>

\* RequestContinuation::restore: only an untouched continuation goes back, and
\* only to a slot that holds nothing.
restore(h) ==
    /\ pool /\ cont[h].hold
    /\ ~cont[h].header /\ ~cont[h].body
    /\ ~slot[h]
    /\ slot' = [slot EXCEPT ![h] = TRUE]
    /\ cont' = [cont EXCEPT ![h] = NoCont]
    /\ UNCHANGED <<count, native, pool, terminated, phase, lost>>

\* RequestContinuation::cancel leaves a consumed continuation behind.
cancel(h) ==
    /\ pool /\ cont[h].hold
    /\ Settle(release_request_reference(count), native, slot)
    /\ cont' = [cont EXCEPT ![h].hold = FALSE]
    /\ UNCHANGED <<terminated, phase>>

\* The continuation goes out of scope; an active one releases its reference.
DropContinuation(h) ==
    /\ cont[h].open
    /\ cont' = [cont EXCEPT ![h] = NoCont]
    /\ IF cont[h].hold
       THEN Settle(release_request_reference(count), native, slot)
       ELSE UNCHANGED <<count, native, pool, slot, lost>>
    /\ UNCHANGED <<terminated, phase>>

call_next_header(h) ==
    /\ pool /\ cont[h].hold /\ ~cont[h].header
    /\ cont' = [cont EXCEPT ![h].header = TRUE]
    /\ UNCHANGED <<count, native, pool, terminated, slot, phase, lost>>

call_next_body(h) ==
    /\ pool /\ cont[h].hold /\ ~cont[h].body
    /\ cont' = [cont EXCEPT ![h].body = TRUE]
    /\ UNCHANGED <<count, native, pool, terminated, slot, phase, lost>>

\* transfer_to_nginx: the reference becomes one of nginx's.
Transferred(h) == [native EXCEPT ![Request(h)] = @ + 1]

Consume(h) == cont' = [cont EXCEPT ![h].hold = FALSE]

finalize(h) ==
    /\ pool /\ cont[h].hold
    /\ Consume(h)
    /\ NginxFinalize(Request(h), count, Transferred(h), slot)
    /\ UNCHANGED phase

\* Whether the reference is given up before nginx is entered: not when it is
\* the last, nor when it and the parent's are the only ones.
ReleasesAfterOutput(h) == count > 1 /\ ~(h \in Subrequests /\ count = 2)

\* "The hold is the request's only live reference", the parent's aside.
OnlyHold(h) == count = 1 \/ (h \in Subrequests /\ count = 2 /\ native["main"] = 1)

finalize_after_output(h) ==
    /\ pool /\ cont[h].hold
    /\ Documented => native[Request(h)] > 0 \/ OnlyHold(h)
    /\ Consume(h)
    /\ IF ReleasesAfterOutput(h)
       THEN NginxFinalize(Request(h), count - 1, native, slot)
       ELSE NginxFinalize(Request(h), count, Transferred(h), slot)
    /\ UNCHANGED phase

\* ensure_releasable_hold
Releasable == count > 1

resume_declined(h) ==
    /\ pool /\ cont[h].hold
    /\ Releasable
    /\ Documented => native[Request(h)] > 0
    /\ Consume(h)
    /\ NginxRunPhases(Request(h), count - 1, native, slot)
    /\ UNCHANGED phase

\* prepare_preaccess_resume: a valid index with a valid successor.
resume_preaccess(h) ==
    /\ pool /\ cont[h].hold
    /\ Releasable
    /\ Documented => native[Request(h)] > 0
    /\ phase >= 0 /\ phase < PhaseMax
    /\ phase' = phase + 1
    /\ Consume(h)
    /\ NginxRunPhases(Request(h), count - 1, native, slot)

\* RequestHold::resume_phase: taken from the slot, posted for the next cycle
\* and released; every failure puts the hold back.
resume_phase(h) ==
    /\ pool /\ slot[h]
    /\ Releasable
    /\ Documented => native[Request(h)] > 0
    /\ phase >= 0
    /\ Settle(count - 1, native, [slot EXCEPT ![h] = FALSE])
    /\ UNCHANGED <<terminated, cont, phase>>

Next ==
    \/ \E r \in Requests : NginxRetain(r) \/ NginxClose(r)
    \/ NginxTerminate \/ NginxTerminateHandler
    \/ \E h \in Holders :
          \/ hold(h) \/ take(h) \/ CancelHold(h) \/ restore(h)
          \/ cancel(h) \/ DropContinuation(h)
          \/ call_next_header(h) \/ call_next_body(h)
          \/ finalize(h) \/ finalize_after_output(h)
          \/ resume_declined(h) \/ resume_preaccess(h) \/ resume_phase(h)

Spec == Init /\ [][Next]_vars

-----------------------------------------------------------------------------

\* Every reference in the count has one owner: nginx, a hold in its slot or the
\* continuation taken from it. No sequence of taking, restoring, cancelling,
\* dropping, transferring and releasing loses or doubles one
\* (RequestHold::release, transfer_to_nginx, release_for_resume).
CountExact == (pool /\ ~terminated) => count = Native + Holds

\* A request that was not terminated is never freed under a hold that a context
\* still keeps in its slot: the hold "retains the request until it is
\* transferred, released, or disarmed by cleanup", whatever the continuations
\* of the other contexts do.
HeldRequestLives == lost = {}

\* Holds leave nginx its reserved range: with NativeMax further references of
\* nginx's own the 16-bit count still does not overflow (hold's CountOverflow).
CountFits == count <= CountMax

\* Termination cancels the contexts but never closes the request under the
\* continuation that is being used: whatever it releases afterwards, the
\* request lives until nginx's terminate handler runs outside it.
ContinuationKeepsRequest == Continuing # {} => pool /\ count > 0
=============================================================================
