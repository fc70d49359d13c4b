--------------------------- MODULE HttpVariables ----------------------------
(***************************************************************************)
(* Registration, lookup, evaluation and invalidation of HTTP variables     *)
(* (src/http/variable.rs).                                                 *)
(*                                                                         *)
(* Two configurations exist, as around a reload; an HttpVariableIndex made *)
(* under one may be used on a request of the other.  Evaluation is nested: *)
(* a handler may look other variables up.  A value slot of the request is  *)
(* [valid, absent (not_found), cached (~no_cacheable), len]; the ghost     *)
(* `true' is the length the last successful evaluation asked for.          *)
(***************************************************************************)
EXTENDS Naturals, Sequences, SequencesExt, FiniteSets

CONSTANTS Names,        \* names as configured, some with capitals
          Weak,         \* those registered with NGX_HTTP_VAR_WEAK
          Unhandled,    \* those that have no get_handler
          MaxHeld,      \* indices modules keep
          MaxLen,       \* HttpVariableOutput::MAX_LEN, the 28-bit field full
          Lengths,      \* lengths handlers produce
          MaxDefs,      \* indexed variables of a configuration
          MaxDepth      \* nginx's limit on nested evaluations

VARIABLES defs,     \* per configuration: the indexed definitions
          prefixes, \* the prefix variables' definitions
          held,     \* the HttpVariableIndex values modules hold
          request,  \* the request: its configuration, value array and slots
          frames,   \* running evaluations, outermost first
          last,     \* the outcome of the last lookup
          pending   \* a prepared cache invalidation

vars == <<defs, prefixes, held, request, frames, last, pending>>

Configurations == {1, 2}
NoRequest == [conf |-> 0, array |-> 0, slots |-> <<>>]
NoLookup == [asked |-> "", read |-> ""]
NoInvalidation == [on |-> FALSE, array |-> 0, keep |-> {}]
Unset == [valid |-> FALSE, absent |-> FALSE, cached |-> TRUE, len |-> 0, true |-> 0]

\* make_ascii_lowercase, and nginx's ngx_strlow.
Lower(name) == CASE name = "A" -> "a" [] name = "B" -> "b" [] OTHER -> name
\* The name an index keeps to be compared with the definition's.
IndexName(name) == Lower(name)

Init ==
    /\ defs = [c \in Configurations |-> <<>>] /\ prefixes = <<>>
    /\ held = {} /\ request = NoRequest /\ frames = <<>> /\ last = NoLookup /\ pending = NoInvalidation

(***************************************************************************)
(* Configuration.                                                          *)
(***************************************************************************)
Configuring == request = NoRequest
Complete(name) == [name |-> Lower(name), on |-> name \notin Unhandled, weak |-> name \in Weak]
Torn == [name |-> "", on |-> FALSE, weak |-> FALSE]

\* A failing ngx_http_get_variable_index or ngx_http_add_variable may leave the
\* element it pushed; the number of elements is restored.
RolledBack(array, pushed) == array

\* get_variable_index: the existing definition of that name, or a new one.
GetVariableIndex(c, name) ==
    /\ Configuring /\ Cardinality(held) < MaxHeld
    /\ LET known == {i \in DOMAIN defs[c] : defs[c][i].name = Lower(name)}
           i     == IF known = {} THEN Len(defs[c]) + 1 ELSE CHOOSE k \in known : TRUE
       IN  /\ known = {} => Len(defs[c]) < MaxDefs
           /\ \/ /\ defs' = IF known = {} THEN [defs EXCEPT ![c] = Append(@, Complete(name))] ELSE defs
                 /\ held' = held \cup {[index |-> i, name |-> IndexName(name)]}
              \/ /\ known = {}
                 /\ defs' = [defs EXCEPT ![c] = RolledBack(@, Torn)]
                 /\ UNCHANGED held
    /\ UNCHANGED <<prefixes, request, frames, last, pending>>

\* add_prefix_variable: refused with the PREFIX flag or unknown flags set.
AddPrefixVariable(flags) ==
    /\ Configuring /\ flags = "legal" /\ prefixes = <<>>
    /\ \/ prefixes' = Append(prefixes, Complete("a"))
       \/ prefixes' = RolledBack(prefixes, Torn)
    /\ UNCHANGED <<defs, held, request, frames, last, pending>>

StartRequest(c) ==
    /\ Configuring
    /\ request' = [conf |-> c, array |-> 1, slots |-> [i \in DOMAIN defs[c] |-> Unset]]
    /\ UNCHANGED <<defs, prefixes, held, frames, last, pending>>

(***************************************************************************)
(* Lookup: HttpVariableIndex::lookup and nginx's indexed evaluation.       *)
(***************************************************************************)
Mine == defs[request.conf]
ResolvesByIndex(ix) == ix.index <= Len(Mine) /\ Mine[ix.index].on

Resolves(ix) == ix.index <= Len(Mine) /\ Mine[ix.index].name = ix.name /\ Mine[ix.index].on

\* ngx_http_get_flushed_variable forgets a value that must not be cached.
Flushed(slot, flush) == IF flush /\ ~slot.cached THEN [slot EXCEPT !.valid = FALSE, !.absent = FALSE] ELSE slot

Lookup(ix, flush) ==
    /\ request # NoRequest /\ ix \in held
    /\ frames # <<>> => last = NoLookup
    /\ IF ~Resolves(ix)
       THEN UNCHANGED <<request, frames>> /\ last' = NoLookup
       ELSE LET slot == Flushed(request.slots[ix.index], flush)
            IN  /\ request' = [request EXCEPT !.slots[ix.index] = slot]
                /\ IF slot.valid \/ slot.absent
                   THEN UNCHANGED frames /\ last' = [asked |-> ix.name, read |-> Mine[ix.index].name]
                   ELSE /\ frames' = IF Len(frames) = MaxDepth THEN frames ELSE Append(frames,
                               [index |-> ix.index, asked |-> ix.name, candidate |-> "none", len |-> 0, true |-> 0, cached |-> TRUE])
                        /\ last' = NoLookup
    /\ UNCHANGED <<defs, prefixes, held, pending>>

(***************************************************************************)
(* HttpVariableOutput: the candidate of the running handler.               *)
(***************************************************************************)
Candidate(f) == frames' = Append(Front(frames), f)

LengthFits(len) == len <= MaxLen
\* set_static, set_borrowed, set_pool, copy_from_request, set_empty: the length
\* goes into a bit field.
SetFound(len, cacheable) ==
    /\ frames # <<>> /\ LengthFits(len)
    /\ Candidate([Last(frames) EXCEPT !.candidate = "found", !.len = len % (MaxLen + 1), !.true = len, !.cached = cacheable])
    /\ UNCHANGED <<defs, prefixes, held, request, last, pending>>

SetNotFound ==
    /\ frames # <<>>
    /\ Candidate([Last(frames) EXCEPT !.candidate = "absent", !.len = 0, !.true = 0, !.cached = FALSE])
    /\ UNCHANGED <<defs, prefixes, held, request, last, pending>>

\* raw_get_handler: published only with NGX_OK, as not found when nothing was
\* set; after another status nginx marks the slot and leaves its other fields.
Published(slot, f, ok) ==
    CASE ~ok                              -> [slot EXCEPT !.valid = FALSE, !.absent = TRUE]
      [] ok /\ f.candidate = "found"      -> [valid |-> TRUE, absent |-> FALSE, cached |-> f.cached, len |-> f.len, true |-> f.true]
      [] OTHER                            -> [Unset EXCEPT !.absent = TRUE, !.cached = FALSE]

Return(ok) ==
    /\ frames # <<>>
    /\ LET f == Last(frames)
       IN  /\ request' = [request EXCEPT !.slots[f.index] = Published(@, f, ok)]
           /\ last' = IF ok THEN [asked |-> f.asked, read |-> Mine[f.index].name] ELSE NoLookup
    /\ frames' = Front(frames)
    /\ UNCHANGED <<defs, prefixes, held, pending>>

Forget ==
    /\ last # NoLookup
    /\ last' = NoLookup
    /\ UNCHANGED <<defs, prefixes, held, request, frames, pending>>

(***************************************************************************)
(* HttpVariableCacheInvalidation.                                          *)
(***************************************************************************)
\* prepare: every preserved index must be one of this configuration.
Prepare(keep) ==
    /\ request # NoRequest /\ frames = <<>> /\ ~pending.on
    /\ \A ix \in keep : ix.index <= Len(Mine) /\ Mine[ix.index].name = ix.name
    /\ pending' = [on |-> TRUE, array |-> request.array, keep |-> {ix.index : ix \in keep}]
    /\ UNCHANGED <<defs, prefixes, held, request, frames, last>>

\* nginx gives the request another value array.
ReplaceValues ==
    /\ request # NoRequest /\ frames = <<>> /\ request.array = 1
    /\ request' = [request EXCEPT !.array = 2, !.slots = [i \in DOMAIN @ |-> Unset]]
    /\ last' = NoLookup
    /\ UNCHANGED <<defs, prefixes, held, frames, pending>>

SameValues == pending.array = request.array
Keeps(i) == ~Mine[i].on \/ Mine[i].weak \/ i \in pending.keep
Commit ==
    /\ pending.on /\ frames = <<>>
    /\ request' = IF SameValues
                  THEN [request EXCEPT !.slots = [i \in DOMAIN @ |->
                            IF Keeps(i) THEN @[i] ELSE [@[i] EXCEPT !.valid = FALSE, !.absent = FALSE]]]
                  ELSE request
    /\ pending' = NoInvalidation
    /\ last' = NoLookup
    /\ UNCHANGED <<defs, prefixes, held, frames>>

EndRequest ==
    /\ request # NoRequest /\ frames = <<>>
    /\ request' = NoRequest /\ last' = NoLookup /\ pending' = NoInvalidation
    /\ UNCHANGED <<defs, prefixes, held, frames>>

Next ==
    \/ \E c \in Configurations, name \in Names : GetVariableIndex(c, name)
    \/ \E c \in Configurations : StartRequest(c)
    \/ \E flags \in {"legal", "prefix"} : AddPrefixVariable(flags)
    \/ \E ix \in held, flush \in BOOLEAN : Lookup(ix, flush)
    \/ \E len \in Lengths, cacheable \in BOOLEAN : SetFound(len, cacheable)
    \/ \E ok \in BOOLEAN : Return(ok)
    \/ \E keep \in SUBSET held : Cardinality(keep) <= 1 /\ Prepare(keep)
    \/ SetNotFound \/ Forget \/ ReplaceValues \/ Commit \/ EndRequest

Spec == Init /\ [][Next]_vars

(***************************************************************************)
(* Properties.                                                             *)
(***************************************************************************)
\* Every definition the arrays count is complete, whatever registrations failed,
\* and the request has one slot for each.
TypeOK ==
    /\ Torn \notin ToSet(prefixes)
    /\ \A c \in Configurations : Torn \notin ToSet(defs[c])
    /\ request # NoRequest => DOMAIN request.slots = DOMAIN Mine

\* A lookup that succeeds read the variable it was made for, even through an
\* index kept from another configuration.
ReadsWhatWasAsked == last.asked = last.read

\* An index finds its own definition in the configuration that made it: names
\* are compared in the form nginx stores.
IndexResolvesAtHome ==
    \A ix \in held : \E c \in Configurations : ix.index <= Len(defs[c]) /\ defs[c][ix.index].name = ix.name

\* A slot holds the bytes of the last evaluation that succeeded, at their full
\* length: nothing of a failed handler's output, and no length cut to its field.
SlotExact == request # NoRequest => \A i \in DOMAIN request.slots : request.slots[i].len = request.slots[i].true

\* An invalidation clears exactly the evaluated variables that are neither weak
\* nor preserved, and only in the value array it was prepared for.
InvalidationExact ==
    pending.on /\ ~pending'.on /\ request' # NoRequest =>
        \A i \in DOMAIN request.slots :
            IF request.array = pending.array /\ Mine[i].on /\ ~Mine[i].weak /\ i \notin pending.keep
            THEN ~request'.slots[i].valid /\ ~request'.slots[i].absent
            ELSE request'.slots[i] = request.slots[i]
============================================================================
