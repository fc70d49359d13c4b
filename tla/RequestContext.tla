---------------------------- MODULE RequestContext ----------------------------
(***************************************************************************)
(* Module contexts of one nginx request (http/request/context.rs), the     *)
(* registry that finds the contexts whose native slot nginx has cleared,   *)
(* the callback wrapper (http/request.rs), internal redirects              *)
(* (http/request/continuation.rs) and client-body reads                    *)
(* (http/request/body.rs), whose callbacks the registry's generation       *)
(* tells apart from those of a request that was redirected meanwhile.      *)
(***************************************************************************)
EXTENDS Integers, Sequences, SequencesExt, FiniteSets, FiniteSetsExt

CONSTANTS Contexts,   \* the contexts that may be constructed
          Slots,      \* the module slots of the request
          None,
          CountMax,   \* the largest reference count (u16::MAX)
          Reserve,    \* the part of it that holds leave to nginx
          UriChanges, \* redirects nginx permits
          MaxDepth    \* bound: nested callbacks and redirects

VARIABLES slot,       \* slot[s]: r->ctx[s]
          where,      \* where[c]: the slot the context was made for
          state,      \* state[c]: "unused", "live" or "dropped"
          drops,      \* drops[c]: how often the context was destroyed
          owns,       \* owns[c]: the context owns a request reference
          chain,      \* the registrations, RequestContextRegistry::first first
          cleanups,   \* the request pool's cleanups, the next to run first
          generation, \* RequestContextRegistry::generation
          read,       \* client_body_read: the generation it started in
          pending,    \* nginx is reading the client body
          displaced,  \* the request was replaced since the read started
          delivered,  \* "current" or "displaced": the last body_read call
          stack,      \* the callbacks and redirects on the native stack
          uris,       \* redirects left
          count, pool, terminated

vars == <<slot, where, state, drops, owns, chain, cleanups, generation, read,
          pending, displaced, delivered, stack, uris, count, pool, terminated>>

Registry == "registry"

Frames == [kind : {"callback", "redirect"}, from : Contexts \cup {None}]

Init ==
    /\ slot = [s \in Slots |-> None]
    /\ where = [c \in Contexts |-> None]
    /\ state = [c \in Contexts |-> "unused"]
    /\ drops = [c \in Contexts |-> 0]
    /\ owns = [c \in Contexts |-> FALSE]
    /\ chain = <<>> /\ cleanups = <<>>
    /\ generation = 0 /\ read = None
    /\ pending = FALSE /\ displaced = FALSE /\ delivered = "none"
    /\ stack = <<>> /\ uris = UriChanges
    /\ count = 1 /\ pool = TRUE /\ terminated = FALSE

TypeOK ==
    /\ slot \in [Slots -> Contexts \cup {None}]
    /\ where \in [Contexts -> Slots \cup {None}]
    /\ state \in [Contexts -> {"unused", "live", "dropped"}]
    /\ drops \in [Contexts -> Nat] /\ owns \in [Contexts -> BOOLEAN]
    /\ chain \in Seq(Contexts) /\ cleanups \in Seq(Contexts \cup {Registry})
    /\ generation \in Nat /\ read \in Nat \cup {None}
    /\ pending \in BOOLEAN /\ displaced \in BOOLEAN
    /\ delivered \in {"none", "current", "displaced"}
    /\ stack \in Seq(Frames) /\ uris \in 0..UriChanges
    /\ count \in 0..CountMax /\ pool \in BOOLEAN /\ terminated \in BOOLEAN

Registered == Registry \in ToSet(cleanups)

Running == stack # <<>>

-----------------------------------------------------------------------------

\* RequestContextRegistry::has_stale: active, but no longer in its slot.
Stale == {c \in ToSet(chain) : state[c] = "live" /\ slot[where[c]] # c}

\* The count after k references are released one by one
\* (release_request_reference): zero means nginx freed the request.
Released(c, k) ==
    IF terminated THEN Max({1, c - k}) ELSE Max({0, c - k})

Owned(C) == Cardinality({c \in C : owns[c] /\ state[c] = "live"})

\* The contexts of C are dropped, which releases the references they own.
Dropped(C) == [c \in Contexts |->
                 IF c \in C /\ state[c] = "live" THEN "dropped" ELSE state[c]]

Destroy(C) ==
    /\ drops' = [c \in Contexts |->
                   IF c \in C /\ state[c] = "live" THEN drops[c] + 1 ELSE drops[c]]
    /\ owns' = [c \in Contexts |-> owns[c] /\ c \notin C]

\* RequestContextRegistration::cancel: a context leaves the slot it is in.
OutOfSlot(C) == [s \in Slots |-> IF slot[s] \in C THEN None ELSE slot[s]]

\* cancel_stale_request_contexts: the request counts as replaced when a context
\* was found whose slot nginx had cleared.
CancelStale ==
    /\ Destroy(Stale)
    /\ generation' = IF Stale = {} THEN generation ELSE generation + 1
    /\ displaced' = (displaced \/ Stale # {})

\* The registrations reached from c: none but c itself once c was unlinked.
SuffixFrom(c) ==
    IF c \in ToSet(chain)
    THEN ToSet(SubSeq(chain, SelectInSeq(chain, LAMBDA d : d = c), Len(chain)))
    ELSE {}

\* nginx destroys the pool with the last reference (DestroyNext).
Count(c) == count' = c /\ pool' = (c > 0)

-----------------------------------------------------------------------------

\* request_callback_status, up to the handler: the request is retained for the
\* length of the callback before stale contexts are cancelled.
Enter ==
    /\ pool /\ count \in 1..CountMax - 1
    /\ Len(stack) < MaxDepth
    /\ CancelStale /\ state' = Dropped(Stale)
    /\ Count(Released(count + 1, Owned(Stale)))
    /\ stack' = <<[kind |-> "callback", from |-> None]>> \o stack
    /\ UNCHANGED <<slot, where, chain, cleanups, read, pending, delivered, uris, terminated>>

\* request_callback_status, after the handler.
Leave ==
    /\ Running /\ Head(stack).kind = "callback"
    /\ CancelStale /\ state' = Dropped(Stale)
    /\ Count(Released(count, Owned(Stale) + 1))
    /\ stack' = Tail(stack)
    /\ UNCHANGED <<slot, where, chain, cleanups, read, pending, delivered, uris, terminated>>

\* module_context and its mutable and pinned forms, and get_or_insert where the
\* slot has a context: only stale contexts are cancelled.
Access ==
    /\ Running /\ Stale # {}
    /\ CancelStale /\ state' = Dropped(Stale)
    /\ Count(Released(count, Owned(Stale)))
    /\ UNCHANGED <<slot, where, chain, cleanups, read, pending, delivered, stack, uris,
                   terminated>>

\* get_or_create_request_context_registry
WithRegistry == IF Registered THEN cleanups ELSE <<Registry>> \o cleanups

\* try_get_or_insert_pinned_module_context_with: the context is published in
\* its slot once it has its registration and its cleanup. A failed allocation
\* or constructor takes a registry made for it away again: nothing changed.
Insert(s, c) ==
    /\ Running /\ slot[s] = None /\ state[c] = "unused"
    /\ CancelStale
    /\ state' = [Dropped(Stale) EXCEPT ![c] = "live"]
    /\ Count(Released(count, Owned(Stale)))
    /\ where' = [where EXCEPT ![c] = s]
    /\ chain' = <<c>> \o chain
    /\ cleanups' = <<c>> \o WithRegistry
    /\ slot' = [slot EXCEPT ![s] = c]
    /\ UNCHANGED <<read, pending, delivered, stack, uris, terminated>>

\* The context retains the request for delayed work (RequestRefMut::hold).
Hold(c) ==
    /\ Running /\ state[c] = "live" /\ ~owns[c] /\ slot[where[c]] = c
    /\ count < CountMax - Reserve
    /\ owns' = [owns EXCEPT ![c] = TRUE]
    /\ Count(count + 1)
    /\ UNCHANGED <<slot, where, state, drops, chain, cleanups, generation, read, pending,
                   displaced, delivered, stack, uris, terminated>>

\* remove_module_context: the cleanup is unlinked, the context cancelled and
\* dropped, and its registration leaves the chain.
RemoveContext(s) ==
    LET c == slot[s] IN
    /\ Running /\ c # None
    /\ generation' = IF Stale = {} THEN generation ELSE generation + 1
    /\ displaced' = (displaced \/ Stale # {})
    /\ Destroy(Stale \cup {c})
    /\ state' = Dropped(Stale \cup {c})
    /\ slot' = OutOfSlot({c})
    /\ Count(Released(count, Owned(Stale \cup {c})))
    /\ chain' = SelectSeq(chain, LAMBDA d : d # c)
    /\ cleanups' = SelectSeq(cleanups, LAMBDA d : d # c)
    /\ UNCHANGED <<where, read, pending, delivered, stack, uris, terminated>>

\* RequestRefMut::is_current_module_context, called by delayed work that is
\* outside any callback: cancelling may release the last reference.
CheckCurrent ==
    /\ pool /\ ~Running /\ count \in 1..CountMax - 1
    /\ Stale # {}
    /\ CancelStale /\ state' = Dropped(Stale)
    /\ Count(Released(count, Owned(Stale)))
    /\ UNCHANGED <<slot, where, chain, cleanups, read, pending, delivered, stack, uris,
                   terminated>>

\* nginx clears every module context: an error page, a named location, a
\* redirect of its own or the one in Redirect.
NginxResetSlots ==
    /\ pool /\ \E s \in Slots : slot[s] # None
    /\ slot' = [s \in Slots |-> None]
    /\ UNCHANGED <<where, state, drops, owns, chain, cleanups, generation, read, pending,
                   displaced, delivered, stack, uris, count, pool, terminated>>

\* advance_request_generation: without a registry there is nothing to advance.
Advanced == IF Registered THEN generation + 1 ELSE generation

RedirectInGeneration ==
    /\ Running /\ uris > 0 /\ Len(stack) < MaxDepth /\ count < CountMax
    /\ uris' = uris - 1
    /\ displaced' = TRUE
    /\ generation' = generation
    /\ stack' = <<[kind |-> "redirect", from |-> IF chain = <<>> THEN None ELSE Head(chain)]>>
                  \o stack
    /\ Count(count + 1)
    /\ UNCHANGED <<slot, where, state, drops, owns, chain, cleanups, read, pending, delivered,
                   terminated>>

\* RequestRefMut::internal_redirect, up to nginx: the request is retained, the
\* newest registration noted and the generation advanced.
Redirect ==
    /\ Running /\ uris > 0 /\ Len(stack) < MaxDepth /\ count < CountMax
    /\ uris' = uris - 1
    /\ displaced' = TRUE
    /\ generation' = Advanced
    /\ stack' = <<[kind |-> "redirect", from |-> IF chain = <<>> THEN None ELSE Head(chain)]>>
                  \o stack
    /\ Count(count + 1)
    /\ UNCHANGED <<slot, where, state, drops, owns, chain, cleanups, read, pending, delivered,
                   terminated>>

\* internal_redirect, after nginx: cancel_request_context_generation cancels
\* the registrations that are as old as the one noted.
RedirectReturns ==
    LET C == SuffixFrom(Head(stack).from) IN
    /\ Running /\ Head(stack).kind = "redirect"
    /\ Destroy(C) /\ state' = Dropped(C) /\ slot' = OutOfSlot(C)
    /\ Count(Released(count, Owned(C) + 1))
    /\ stack' = Tail(stack)
    /\ UNCHANGED <<where, chain, cleanups, generation, read, pending, displaced, delivered,
                   uris, terminated>>

-----------------------------------------------------------------------------

\* register_client_body_read: one read at a time, whatever generation it
\* belongs to.
RegisterRead ==
    /\ read = None
    /\ cleanups' = WithRegistry
    /\ read' = generation /\ pending' = TRUE /\ displaced' = FALSE

\* clear_client_body_read: the registration is made and taken back.
ClearRead ==
    /\ read = None
    /\ cleanups' = WithRegistry
    /\ UNCHANGED <<read, pending, displaced>>

\* read_client_body: a special response or an error of nginx clears the
\* registration again.
ReadClientBody ==
    /\ Running
    /\ RegisterRead \/ ClearRead
    /\ UNCHANGED <<slot, where, state, drops, owns, chain, generation, delivered, stack, uris,
                   count, pool, terminated>>

\* ngx_http_finalize_request(NGX_ERROR): terminate_request_context_registry
\* forgets the read and cancels every context of a terminated request.
Terminate ==
    /\ terminated' = TRUE
    /\ read' = None
    /\ Destroy(ToSet(chain)) /\ state' = Dropped(ToSet(chain))
    /\ slot' = OutOfSlot(ToSet(chain))
    /\ count' = Max({1, count - Owned(ToSet(chain))}) /\ pool' = TRUE

\* take_client_body_read: what the callback finds, in the generation it runs in.
TakenRead(now) ==
    IF read = None THEN "Missing" ELSE IF read = now THEN "Current" ELSE "Stale"

\* raw_client_body_handler: a callback of the generation the read started in
\* runs the handler, an older one terminates the request.
BodyCallback ==
    /\ pool /\ pending /\ count < CountMax
    /\ pending' = FALSE
    /\ LET now == IF Stale = {} THEN generation ELSE generation + 1 IN
       \/ /\ TakenRead(now) = "Current"
          /\ read' = None
          /\ delivered' = IF displaced \/ Stale # {} THEN "displaced" ELSE "current"
          /\ CancelStale /\ state' = Dropped(Stale)
          /\ Count(Released(count, Owned(Stale)))
          /\ UNCHANGED <<slot, terminated>>
       \/ /\ TakenRead(now) = "Stale"
          /\ Terminate
          /\ generation' = now
          /\ UNCHANGED <<displaced, delivered>>
       \/ /\ TakenRead(now) = "Missing"
          /\ CancelStale /\ state' = Dropped(Stale)
          /\ Count(Released(count, Owned(Stale)))
          /\ UNCHANGED <<slot, read, delivered, terminated>>
    /\ UNCHANGED <<where, chain, cleanups, stack, uris>>

\* The request is terminated by nginx, for example when the client goes away.
NginxTerminate ==
    /\ pool /\ ~terminated
    /\ Terminate
    /\ UNCHANGED <<where, chain, cleanups, generation, pending, displaced, delivered, stack,
                   uris>>

\* nginx closes its own reference, or a terminated request, outside callbacks.
NginxClose ==
    /\ pool /\ ~Running
    /\ \/ terminated /\ Count(0)
       \/ ~terminated /\ count > Owned(Contexts) /\ Count(count - 1)
    /\ UNCHANGED <<slot, where, state, drops, owns, chain, cleanups, generation, read, pending,
                   displaced, delivered, stack, uris, terminated>>

\* The pool runs its cleanups, the newest first: RequestContextOwner::drop
\* unlinks its registration and destroys a context that is still active.
CleanupNext == 1

DestroyNext ==
    LET i == CleanupNext
        c == cleanups[i] IN
    /\ ~pool /\ cleanups # <<>>
    /\ cleanups' = SubSeq(cleanups, 1, i - 1) \o SubSeq(cleanups, i + 1, Len(cleanups))
    /\ IF c = Registry
       THEN UNCHANGED <<state, drops, owns, chain, slot>>
       ELSE /\ Destroy({c}) /\ state' = Dropped({c}) /\ slot' = OutOfSlot({c})
            /\ chain' = SelectSeq(chain, LAMBDA d : d # c)
    /\ UNCHANGED <<where, generation, read, pending, displaced, delivered, stack, uris, count,
                   pool, terminated>>

Next ==
    \/ Enter \/ Leave \/ Access \/ CheckCurrent
    \/ \E s \in Slots : RemoveContext(s) \/ \E c \in Contexts : Insert(s, c)
    \/ \E c \in Contexts : Hold(c)
    \/ NginxResetSlots \/ Redirect \/ RedirectReturns
    \/ ReadClientBody \/ BodyCallback
    \/ NginxTerminate \/ NginxClose \/ DestroyNext

Spec == Init /\ [][Next]_vars

-----------------------------------------------------------------------------

\* A context found in a slot is alive: neither a removal, a redirect, a
\* termination nor the sweep of stale contexts leaves a destroyed one there
\* (RequestContextRegistration::cancel).
PublishedIsLive == \A s \in Slots : slot[s] # None => state[slot[s]] = "live"

\* A slot that nginx cleared gets no second context while the first one still
\* lives and may own a request reference: every insertion sweeps first.
OneLivePerSlot ==
    \A c, d \in Contexts :
        (c # d /\ state[c] = "live" /\ state[d] = "live") => where[c] # where[d]

\* Whatever the contexts release while they are cancelled, the request lives
\* through every callback and redirect on the stack
\* (retain_request_for_context_cancellation).
CallbackKeepsRequest == Running => pool /\ count > 0

\* A body handler never runs for a request that was redirected, or lost a
\* context to nginx, after the read was started; it is terminated instead
\* (take_client_body_read).
BodyReadIsCurrent == delivered # "displaced"

\* Every context is destroyed at most once, and by the time the pool has run
\* its cleanups no context is left.
DestroyedOnce ==
    /\ \A c \in Contexts : drops[c] <= 1
    /\ (~pool /\ cleanups = <<>>) => \A c \in Contexts : state[c] # "live"

\* The registry outlives the registrations that point to it, so the chain is
\* empty when its own cleanup runs (cleanup_request_context_registry asserts it).
RegistryOutlivesContexts == chain # <<>> => Registered
=============================================================================
