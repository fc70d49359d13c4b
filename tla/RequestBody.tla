---------------------------- MODULE RequestBody -----------------------------
(***************************************************************************)
(* Replacement of a request's body and of the input headers that frame it  *)
(* (src/http/request/body.rs, and HttpHeadersInBuilder of headers.rs).     *)
(*                                                                         *)
(* An ngx_list_t is a structure with its first part inline and a pointer   *)
(* to its last part.  Copying the structure therefore leaves the copy's    *)
(* `last' pointing at the inline part of the original, and leaves both     *)
(* copies sharing the arrays of elements.  A memory m is a record:         *)
(*   m.at[l]     the list structure at location l,                         *)
(*   m.parts[i]  a part allocated by ngx_list_push,                        *)
(*   m.elts[a]   the entries written to array a.                           *)
(* A part is named <<"at", l>> (inline) or <<"part", i>>.  An entry is     *)
(* [key, on]: `on' is hash # 0.                                            *)
(*                                                                         *)
(* "P" is the request's input-header list, "B" the candidate list of an    *)
(* input-header builder and "C" the list of a subrequest of the request.   *)
(* A body is its length.  A header value matters only for the              *)
(* Content-Length the crate writes: `digits' is what decimal_bytes wrote.  *)
(***************************************************************************)
EXTENDS Integers, Sequences, SequencesExt

CONSTANTS Keys,         \* header names, "" among them
          MaxArrays,    \* arrays the pool has room for
          Pieces,       \* lengths appended to a body
          MaxUsize,     \* the largest usize
          MaxOff,       \* the largest off_t
          MaxCount,     \* the largest header count
          Capacities    \* capacities asked for, zero included

\* The names whose entries frame a message.
Framing == {"Content-Length", "Transfer-Encoding"}

\* The header built for a name: an empty name hashes to zero, which disables it.
Header(key) == [key |-> key, on |-> key # ""]

NoList == [elts |-> 0, nelts |-> 0, next |-> 0, nalloc |-> 0, last |-> <<"part", 0>>]

Room(m) == Len(m.elts) < MaxArrays

Part(m, ref) == IF ref[1] = "at" THEN m.at[ref[2]] ELSE m.parts[ref[2]]

RECURSIVE ChainFrom(_, _)
\* The parts from `ref' on, by their next pointers.
ChainFrom(m, ref) ==
    IF Part(m, ref).next = 0 THEN <<ref>>
    ELSE <<ref>> \o ChainFrom(m, <<"part", Part(m, ref).next>>)

Chain(m, l) == ChainFrom(m, <<"at", l>>)

Repaired(m, l) == [m EXCEPT !.at[l].last = Last(Chain(m, l))]

\* The addresses of a list's entries, in order.
Entries(m, l) ==
    FlattenSeq([i \in 1..Len(Chain(m, l)) |->
        LET p == Part(m, Chain(m, l)[i]) IN [j \in 1..p.nelts |-> <<p.elts, j>>]])

Entry(m, address) == m.elts[address[1]][address[2]]

\* The addresses and the names an iterator yields: disabled entries are skipped.
EnabledAt(m, l) == SelectSeq(Entries(m, l), LAMBDA a : Entry(m, a).on)
Read(m, l) == [i \in 1..Len(EnabledAt(m, l)) |-> Entry(m, EnabledAt(m, l)[i]).key]

Stored(array, j, header) == IF j > Len(array) THEN Append(array, header) ELSE [array EXCEPT ![j] = header]

\* A field of the part `ref', wherever that part is.
WithPart(m, ref, p) ==
    IF ref[1] = "at"
    THEN [m EXCEPT !.at[ref[2]] = [@ EXCEPT !.nelts = p.nelts, !.next = p.next]]
    ELSE [m EXCEPT !.parts[ref[2]] = p]

\* ngx_list_push follows the list's `last', which may be another list's part.
Full(m, l) == Part(m, m.at[l].last).nelts = m.at[l].nalloc
Pushed(m, l, header) ==
    LET ref == m.at[l].last
        p   == Part(m, ref)
        i   == Len(m.parts) + 1
    IN  IF ~Full(m, l)
        THEN [WithPart(m, ref, [p EXCEPT !.nelts = @ + 1])
                EXCEPT !.elts[p.elts] = Stored(@, p.nelts + 1, header)]
        ELSE [WithPart([m EXCEPT !.parts = Append(@, [elts |-> Len(m.elts) + 1, nelts |-> 1, next |-> 0])],
                       ref, [p EXCEPT !.next = i])
                EXCEPT !.elts = Append(@, <<header>>), !.at[l].last = <<"part", i>>]

\* Where a push writes.
PushedAt(m, l) ==
    LET p == Part(m, m.at[l].last)
    IN  IF Full(m, l) THEN <<Len(m.elts) + 1, 1>> ELSE <<p.elts, p.nelts + 1>>

\* append_header: repaired first, so that the push reaches this list.
Appended(m, l, header) == Pushed(Repaired(m, l), l, header)
AppendFits(m, l) == Full(Repaired(m, l), l) => Room(m)

\* create_header_list: refused for no capacity, otherwise a fresh empty list.
Created(m, l, capacity) ==
    [m EXCEPT !.at[l] = [elts |-> Len(m.elts) + 1, nelts |-> 0, next |-> 0, nalloc |-> capacity, last |-> <<"at", l>>],
              !.elts = Append(@, <<>>)]

\* A structure copy: everything but the address of the inline part moves.
Copied(m, from, to) == [m EXCEPT !.at[to] = m.at[from]]

DisabledLengthOnly(mem, address) ==
    IF Entry(mem, address).key = "Content-Length" THEN [mem EXCEPT !.elts[address[1]][address[2]].on = FALSE] ELSE mem

\* disable_framing_headers: the enabled framing entries lose their hash in place.
Disabled(mem, address) ==
    IF Entry(mem, address).key \in Framing THEN [mem EXCEPT !.elts[address[1]][address[2]].on = FALSE] ELSE mem
FramingDisabled(m, l) == FoldLeft(Disabled, Repaired(m, l), Entries(m, l))

\* append_header_slot: a slot is the chain of entries linked from it.
Bound(slots, m, address, keys) ==
    LET header == Entry(m, address)
    IN  IF header.on /\ header.key \in keys
        THEN [slots EXCEPT ![header.key] = Append(@, address)] ELSE slots

\* The entries of a list with one of its names.
EnabledWith(m, l, key) == SelectSeq(EnabledAt(m, l), LAMBDA a : Entry(m, a).key = key)

-----------------------------------------------------------------------------

VARIABLES m,        \* the header memory
          hin,      \* the other fields of the request's headers_in
          body,     \* the request body: -1 for none, otherwise its length
          b,        \* the input-header builder
          cand,     \* the body candidate: -1 when there is none
          want,     \* ghost: the names that completed operations enabled in "P", "B", "C"
          torn      \* ghost: the last publication failed after it had changed the list

vars == <<m, hin, body, b, cand, want, torn>>

Lists == {"P", "B", "C"}
Slots == {"Host", "Content-Length"}
Zeroed == [slots |-> [k \in Slots |-> <<>>], te |-> FALSE, length |-> -1, count |-> 0,
           chunked |-> FALSE, server |-> <<>>, digits |-> <<>>]
NoBuilder == [kind |-> "none", hin |-> Zeroed]

\* A request nginx has read: a chunked body, framed by Transfer-Encoding.
Init ==
    /\ m = [at |-> [l \in Lists |-> IF l = "P"
                THEN [elts |-> 1, nelts |-> 2, next |-> 0, nalloc |-> 2, last |-> <<"at", "P">>] ELSE NoList],
            parts |-> <<>>, elts |-> <<<<Header("Host"), Header("Transfer-Encoding")>>>>]
    /\ hin = [Zeroed EXCEPT !.slots["Host"] = <<<<1, 1>>>>, !.te = TRUE, !.count = 2, !.chunked = TRUE,
                            !.server = <<1, 1>>]
    /\ body \in {-1, 0}
    /\ b = NoBuilder /\ cand = -1
    /\ want = [l \in Lists |-> IF l = "P" THEN <<"Host", "Transfer-Encoding">> ELSE <<>>]
    /\ torn = FALSE

Wanted(key) == IF key = "" THEN <<>> ELSE <<key>>
Unframed(names) == SelectSeq(names, LAMBDA k : k \notin Framing)

RECURSIVE DecimalBytes(_)
\* decimal_bytes: the digits of a number, the last one computed first.
DecimalBytes(n) == (IF n < 10 THEN <<>> ELSE DecimalBytes(n \div 10)) \o <<n % 10>>

\* The number a reader of the digits gets.
Spelled(digits) == FoldLeft(LAMBDA n, d : 10 * n + d, 0, digits)

(***************************************************************************)
(* Input-header builder.                                                   *)
(***************************************************************************)
NewIn(capacity) ==
    /\ b.kind = "none" /\ cand = -1 /\ capacity > 0 /\ Room(m)
    /\ m' = Created(m, "B", capacity)
    /\ b' = [kind |-> "in", hin |-> Zeroed]
    /\ want' = [want EXCEPT !["B"] = <<>>]
    /\ UNCHANGED <<hin, body, cand, torn>>

\* bind_headers_in: the first Host also names the server.
BindHeadersIn(h, mem, address) ==
    [h EXCEPT !.slots = Bound(@, mem, address, Slots),
              !.server = IF Entry(mem, address) = Header("Host") /\ h.slots["Host"] = <<>> THEN address ELSE @]

AddIn(key) ==
    /\ b.kind = "in" /\ b.hin.count < MaxCount
    /\ \/ /\ AppendFits(m, "B")
          /\ m' = Appended(m, "B", Header(key))
          /\ b' = [b EXCEPT !.hin = BindHeadersIn([@ EXCEPT !.count = @ + 1], m', PushedAt(Repaired(m, "B"), "B"))]
          /\ want' = [want EXCEPT !["B"] = @ \o Wanted(key)]
       \/ m' = Repaired(m, "B") /\ UNCHANGED <<b, want>>
    /\ UNCHANGED <<hin, body, cand, torn>>

Forget(mem) == [mem EXCEPT !.at["B"] = NoList]

\* A builder that is dropped, or whose commit fails, reaches nothing.
DropAll == b' = NoBuilder /\ cand' = -1 /\ m' = Forget(m) /\ want' = [want EXCEPT !["B"] = <<>>]

\* publish_request_body: the whole candidate replaces headers_in.
Publish(mem, h, names, newBody) ==
    /\ m' = Forget(Repaired(Copied(mem, "B", "P"), "P"))
    /\ hin' = h /\ body' = newBody
    /\ want' = [want EXCEPT !["P"] = names, !["B"] = <<>>]
    /\ b' = NoBuilder /\ cand' = -1 /\ torn' = FALSE

CommitIn == b.kind = "in" /\ Publish(m, b.hin, want["B"], body)

\* replace_request_body_framing, on the builder's own headers.
FramedFields(h, mem, address, length) ==
    [BindHeadersIn([h EXCEPT !.slots["Content-Length"] = <<>>, !.count = @ + 1], mem, address)
        EXCEPT !.te = FALSE, !.chunked = FALSE, !.length = length, !.digits = DecimalBytes(length)]
CommitFramed(length, newBody) ==
    LET quiet == FramingDisabled(m, "B")
    IN  /\ length <= MaxOff /\ b.hin.count < MaxCount /\ AppendFits(quiet, "B")
        /\ LET full == Appended(quiet, "B", Header("Content-Length"))
           IN  Publish(full, FramedFields(b.hin, full, PushedAt(quiet, "B"), length),
                       Append(Unframed(want["B"]), "Content-Length"), newBody)

CommitWithBody == b.kind = "in" /\ cand >= 0 /\ CommitFramed(cand, cand)
CommitWithoutBody == b.kind = "in" /\ CommitFramed(0, -1)

\* Dropped, or a commit refused or out of memory.
Abandon ==
    /\ b.kind # "none" \/ cand >= 0
    /\ DropAll /\ UNCHANGED <<hin, body, torn>>

(***************************************************************************)
(* Body candidates and RequestBodyBuilder.                                 *)
(***************************************************************************)
NewBody ==
    /\ cand = -1
    /\ cand' = 0
    /\ UNCHANGED <<m, hin, body, b, want, torn>>

\* append: the total is checked before the chain is extended.
Total(length) == IF cand + length > MaxUsize THEN cand ELSE cand + length
AppendPiece(length) ==
    /\ cand >= 0
    /\ cand' = Total(length)
    /\ UNCHANGED <<m, hin, body, b, want, torn>>

\* publish_request_body_framing, on the request itself.
PublishedFields(h, address, length) ==
    [h EXCEPT !.slots["Content-Length"] = <<address>>, !.te = FALSE, !.length = length,
              !.count = @ + 1, !.chunked = FALSE, !.digits = DecimalBytes(length)]

PublishFraming(length, newBody) ==
    LET quiet == FramingDisabled(m, "P")
    IN  /\ length <= MaxOff /\ hin.count < MaxCount
        /\ b' = NoBuilder /\ cand' = -1
        /\ \/ /\ AppendFits(quiet, "P")
              /\ m' = Appended(quiet, "P", Header("Content-Length"))
              /\ hin' = PublishedFields(hin, PushedAt(quiet, "P"), length)
              /\ body' = newBody
              /\ want' = [want EXCEPT !["P"] = Append(Unframed(@), "Content-Length")]
              /\ torn' = FALSE
           \/ \* the push needs a part and the pool has none: the framing
              \* headers are disabled, and nothing else is done
              /\ Full(quiet, "P")
              /\ m' = quiet /\ torn' = TRUE
              /\ UNCHANGED <<hin, body, want>>

CommitBody == b.kind = "none" /\ cand >= 0 /\ PublishFraming(cand, cand)
ClearRequestBody == b.kind = "none" /\ cand = -1 /\ PublishFraming(0, -1)

\* add_header_in: neither slots nor count are touched.
AddHeaderIn(key) ==
    /\ b.kind = "none" /\ cand = -1 /\ key \notin Framing
    /\ \/ /\ AppendFits(m, "P")
          /\ m' = Appended(m, "P", Header(key))
          /\ want' = [want EXCEPT !["P"] = @ \o Wanted(key)]
       \/ m' = Repaired(m, "P") /\ UNCHANGED want
    /\ UNCHANGED <<hin, body, b, cand, torn>>

(***************************************************************************)
(* The headers of a subrequest: fresh, or the parent's for reading.        *)
(***************************************************************************)
Inherited(mem) == Repaired(Copied(mem, "P", "C"), "C")
BuildChild(capacity) ==
    /\ b.kind = "none" /\ cand = -1 /\ m.at["C"] = NoList
    /\ IF capacity = 0
       THEN m' = Inherited(m) /\ want' = [want EXCEPT !["C"] = Read(m, "P")]
       ELSE Room(m) /\ m' = Created(m, "C", capacity) /\ want' = [want EXCEPT !["C"] = <<>>]
    /\ UNCHANGED <<hin, body, b, cand, torn>>

FinishChild ==
    /\ m.at["C"] # NoList
    /\ m' = [m EXCEPT !.at["C"] = NoList] /\ want' = [want EXCEPT !["C"] = <<>>]
    /\ UNCHANGED <<hin, body, b, cand, torn>>

Next ==
    \/ \E k \in Keys : AddIn(k) \/ AddHeaderIn(k)
    \/ \E c \in Capacities : NewIn(c) \/ BuildChild(c)
    \/ \E n \in Pieces : AppendPiece(n)
    \/ CommitIn \/ CommitWithBody \/ CommitWithoutBody \/ Abandon
    \/ NewBody \/ CommitBody \/ ClearRequestBody \/ FinishChild

Spec == Init /\ [][Next]_vars

(***************************************************************************)
(* Properties.                                                             *)
(***************************************************************************)
FramingEntries(l) == SelectSeq(EnabledAt(m, l), LAMBDA a : Entry(m, a).key \in Framing)

\* The candidate's total never exceeds usize, and the request's list ends at its
\* own last part.
TypeOK ==
    /\ cand \in -1..MaxUsize /\ body \in -1..MaxOff /\ hin.count <= MaxCount
    /\ m.at["P"].last = Last(Chain(m, "P"))

\* The request's input headers read as completed operations left them, whatever
\* builders were dropped or refused and whatever a subrequest was given.  The one
\* operation that fails and leaves a trace is publish_request_body_framing: when
\* its push fails the framing headers are gone, and only they.
HeadersExact == Read(m, "P") = IF torn THEN Unframed(want["P"]) ELSE want["P"]

\* A candidate's slots link all enabled headers of their names in order, and the
\* server is taken from the first Host (bind_headers_in).
BuilderSlotsExact ==
    b.kind = "in" =>
        /\ Read(m, "B") = want["B"]
        /\ \A k \in Slots : b.hin.slots[k] = EnabledWith(m, "B", k)
        /\ b.hin.server = IF b.hin.slots["Host"] = <<>> THEN <<>> ELSE b.hin.slots["Host"][1]

\* Once the crate has published a length, it is the length of the body, spelled by
\* the one Content-Length entry that the slot points at, and no transfer coding is
\* left.  That entry is the only one to frame the message, unless a publication
\* failed since: then it is disabled, and nothing frames the message.
FramingMatchesBody ==
    hin.length >= 0 =>
        /\ Len(hin.slots["Content-Length"]) = 1
        /\ Entry(m, hin.slots["Content-Length"][1]).key = "Content-Length"
        /\ FramingEntries("P") = IF torn THEN <<>> ELSE hin.slots["Content-Length"]
        /\ Spelled(hin.digits) = hin.length /\ hin.digits # <<>>
        /\ hin.length = (IF body = -1 THEN 0 ELSE body)
        /\ ~hin.te /\ ~hin.chunked

\* "Request-pool builder for atomically replacing an HTTP request body and its
\* framing" (RequestBodyBuilder): a commit that does not replace the body leaves
\* the headers of the request as they were.
ReplacedAtomically ==
    [][cand >= 0 /\ cand' = -1 /\ body' = body /\ hin' = hin =>
          Read(m', "P") = Read(m, "P")]_vars

\* A subrequest built with capacity zero reads its parent's headers through a
\* list of its own (SubRequestBuilder::build repairs the copy).
ChildReadsParent ==
    m.at["C"] = NoList /\ m'.at["C"] # NoList =>
        /\ Read(m', "C") = want'["C"] /\ m'.at["C"].last = Last(Chain(m', "C"))
        /\ Read(m', "P") = Read(m, "P")
============================================================================
