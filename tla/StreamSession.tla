--------------------------- MODULE StreamSession ----------------------------
(***************************************************************************)
(* Stream sessions: module contexts and variable values of a session, both *)
(* backed by the pool of its client connection (src/stream/session.rs,     *)
(* src/stream/variable.rs).                                                *)
(*                                                                         *)
(* A session is [open, array, slots, cleanups, unlinked, value].  A context*)
(* is a number; `cleanups' are the contexts whose destructor the pool will *)
(* run.  A value's bytes are named by the pool that holds them, 0 standing *)
(* for static or no bytes; `via' is the session that the handler named to  *)
(* the setter.                                                             *)
(***************************************************************************)
EXTENDS Naturals, FiniteSets, Sequences

CONSTANTS Sessions, Modules,
          MaxContexts,  \* contexts ever constructed
          MaxBytes,     \* retained bytes a handler has at a time
          MaxLen,       \* StreamVariableOutput::MAX_LEN
          Lengths       \* lengths of values handlers produce

VARIABLES session, frame, bytes, drops

vars == <<session, frame, bytes, drops>>

Null == 0
NoValue == [valid |-> FALSE, absent |-> FALSE, cached |-> TRUE, pool |-> 0, via |-> 0, len |-> 0]
NoFrame == [of |-> 0, set |-> FALSE, candidate |-> NoValue]
Closed == [open |-> FALSE, array |-> FALSE, slots |-> [m \in Modules |-> Null], cleanups |-> {}, unlinked |-> {}, value |-> NoValue]

Init ==
    /\ session = [s \in Sessions |-> Closed]
    /\ frame = NoFrame /\ bytes = {} /\ drops = <<>>

\* Contexts built so far are the domain of drops, the number of times each was dropped.
Dropped(count, ids) == [i \in DOMAIN count |-> count[i] + IF i \in ids THEN 1 ELSE 0]

\* nginx opens a session; ngx_stream_init_connection allocates ctx with it, and a
\* caller of Session may present one whose array is not installed yet.
Open(s, array) ==
    /\ session[s] = Closed
    /\ session' = [session EXCEPT ![s].open = TRUE, ![s].array = array]
    /\ UNCHANGED <<frame, bytes, drops>>

\* The session ends outside any callback; its connection's pool runs the cleanups.
Close(s) ==
    /\ session[s].open /\ frame = NoFrame
    /\ session' = [session EXCEPT ![s] = Closed]
    /\ drops' = Dropped(drops, session[s].cleanups)
    /\ UNCHANGED <<frame, bytes>>

(***************************************************************************)
(* Module contexts.                                                        *)
(***************************************************************************)
\* module_context_slot and context_ptr_from_slot: MissingSlots without an array.
SlotOf(s, m) == IF session[s].array THEN session[s].slots[m] ELSE Null

Inserted(r, m, id) == [r EXCEPT !.slots[m] = id, !.cleanups = @ \cup {id}]
\* get_or_insert_module_context_with and its pinned form; the second disjunct is
\* a pool that cannot allocate, before the constructor runs.
GetOrInsert(s, m) ==
    /\ session[s].open /\ session[s].array
    /\ SlotOf(s, m) = Null
    /\ \/ /\ Len(drops) < MaxContexts
          /\ drops' = Append(drops, 0)
          /\ session' = [session EXCEPT ![s] = Inserted(@, m, Len(drops) + 1)]
       \/ UNCHANGED <<session, drops>>
    /\ UNCHANGED <<frame, bytes>>

SlotKept(found, id) == id

\* remove_module_context: the slot is cleared, then the cleanup found and run; a
\* cleanup someone unlinked is not found and the slot is put back.
SlotAfterRemove(found, id) == IF found THEN Null ELSE id
RemoveContext(s, m) ==
    /\ session[s].open /\ SlotOf(s, m) # Null
    /\ LET id == SlotOf(s, m)
           found == id \in session[s].cleanups
       IN  /\ session' = [session EXCEPT ![s].slots[m] = SlotAfterRemove(found, id), ![s].cleanups = @ \ {id}]
           /\ drops' = IF found THEN Dropped(drops, {id}) ELSE drops
    /\ UNCHANGED <<frame, bytes>>

\* An unsafe caller takes the cleanup entry out of the pool.
Unlink(s, m) ==
    /\ session[s].open /\ SlotOf(s, m) \in session[s].cleanups
    /\ session' = [session EXCEPT ![s].cleanups = @ \ {SlotOf(s, m)}, ![s].unlinked = @ \cup {SlotOf(s, m)}]
    /\ UNCHANGED <<frame, bytes, drops>>

(***************************************************************************)
(* Variable values.                                                        *)
(***************************************************************************)
\* nginx evaluates the variable of s unless its value is cached: raw_get_handler,
\* raw_prefix_get_handler (a prefix getter without a name descriptor fails).
Evaluate(s, named) ==
    /\ session[s].open /\ frame = NoFrame
    /\ ~(session[s].value.valid \/ session[s].value.absent) \/ ~session[s].value.cached
    /\ frame' = IF named THEN [NoFrame EXCEPT !.of = s] ELSE NoFrame
    /\ session' = [session EXCEPT ![s].value = IF named THEN [@ EXCEPT !.valid = FALSE, !.absent = FALSE]
                                                        ELSE [@ EXCEPT !.valid = FALSE, !.absent = TRUE]]
    /\ UNCHANGED <<bytes, drops>>

\* StreamVariablePoolBytes::copy_from_session, from any session in scope.
CopyFromSession(s, len) ==
    /\ frame # NoFrame /\ session[s].open /\ len <= MaxLen /\ Cardinality(bytes) < MaxBytes
    /\ bytes' = bytes \cup {[pool |-> IF len = 0 THEN 0 ELSE s, owner |-> s, len |-> len]}
    /\ UNCHANGED <<session, frame, drops>>

Found(pool, via, len, cacheable) ==
    [valid |-> TRUE, absent |-> FALSE, cached |-> cacheable, pool |-> IF len = 0 THEN 0 ELSE pool,
     via |-> via, len |-> len % (MaxLen + 1)]

\* set_pool, set_pool_uncached: the pool of the bytes is compared with that of the
\* session t which the handler names, the one it was called for or another.  The
\* bytes are consumed, also when refused.
PoolMatches(b, t) == b.owner = t
SetPool(b, t, cacheable) ==
    /\ frame # NoFrame /\ session[t].open
    /\ bytes' = bytes \ {b}
    /\ frame' = IF PoolMatches(b, t)
                THEN [frame EXCEPT !.set = TRUE, !.candidate = Found(b.pool, t, b.len, cacheable)]
                ELSE frame
    /\ UNCHANGED <<session, drops>>

\* set_static, set_static_uncached, set_empty: refused when too long.
SetStatic(len, cacheable) ==
    /\ frame # NoFrame /\ len <= MaxLen
    /\ frame' = [frame EXCEPT !.set = TRUE, !.candidate = Found(0, 0, len, cacheable)]
    /\ UNCHANGED <<session, bytes, drops>>

NotFound == [valid |-> FALSE, absent |-> TRUE, cached |-> FALSE, pool |-> 0, via |-> 0, len |-> 0]
SetNotFound ==
    /\ frame # NoFrame
    /\ frame' = [frame EXCEPT !.set = TRUE, !.candidate = NotFound]
    /\ UNCHANGED <<session, bytes, drops>>

\* The adapter publishes on NGX_OK; bytes of the handler's scope die with it.
\* Otherwise nginx marks the value absent and leaves its other fields.
Publish(old, f, ok) == IF ok THEN (IF f.set THEN f.candidate ELSE NotFound) ELSE [old EXCEPT !.valid = FALSE, !.absent = TRUE]
Return(ok) ==
    /\ frame # NoFrame
    /\ session' = [session EXCEPT ![frame.of].value = Publish(@, frame, ok)]
    /\ frame' = NoFrame /\ bytes' = {}
    /\ UNCHANGED drops

Next ==
    \/ \E s \in Sessions : Close(s) \/ \E array \in BOOLEAN : Open(s, array)
    \/ \E s \in Sessions, m \in Modules : GetOrInsert(s, m) \/ RemoveContext(s, m) \/ Unlink(s, m)
    \/ \E s \in Sessions, named \in BOOLEAN : Evaluate(s, named)
    \/ \E s \in Sessions, len \in Lengths : CopyFromSession(s, len)
    \/ \E b \in bytes, t \in Sessions, cacheable \in BOOLEAN : SetPool(b, t, cacheable)
    \/ \E len \in Lengths, cacheable \in BOOLEAN : SetStatic(len, cacheable)
    \/ \E ok \in BOOLEAN : Return(ok)
    \/ SetNotFound

Spec == Init /\ [][Next]_vars

(***************************************************************************)
(* Properties.                                                             *)
(***************************************************************************)
\* The pool will still drop every context it owns, exactly the undropped ones.
TypeOK ==
    \A s \in Sessions : \A id \in session[s].cleanups : drops[id] = 0

\* A context a module can reach through its slot has not been dropped, and is no
\* other session's or module's.
ReachableContextsLive ==
    \A s, t \in Sessions, m, n \in Modules :
        session[s].slots[m] # Null =>
            /\ drops[session[s].slots[m]] = 0
            /\ session[t].slots[n] = session[s].slots[m] => <<t, n>> = <<s, m>>

\* No context is dropped twice, and the slots reach exactly the contexts that
\* are still the pool's or were taken from it: none is lost to its module.
OwnedUntilDropped ==
    /\ \A id \in DOMAIN drops : drops[id] <= 1
    /\ \A s \in Sessions : session[s].cleanups \cup session[s].unlinked = {session[s].slots[m] : m \in Modules} \ {Null}

\* The bytes of a value are static or in the pool of the session that its handler
\* named to the setter.  So a handler that names the session it was called for
\* leaves no bytes that the end of another session frees; one that names another
\* does, and nothing in set_pool_with_cache refuses it.
BytesOfNamedPool ==
    \A s \in Sessions : session[s].value.pool \in {0, session[s].value.via}

\* Once evaluated, a value is found or absent: a getter that set nothing and
\* reported success leaves an absent value, not an unevaluated one.
EvaluatedIsSettled ==
    frame # NoFrame /\ frame' = NoFrame =>
        session'[frame.of].value.valid # session'[frame.of].value.absent
============================================================================
