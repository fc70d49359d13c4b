------------------------------ MODULE TempFile ------------------------------
(***************************************************************************)
(* Request temporary files (src/http/request/temp_file.rs).                *)
(*                                                                         *)
(* A handle names the request, the owner and the generation of the pool it *)
(* was made in, and opens its file on the first memory buffer.  Descriptors*)
(* are the lowest free ones, so a closed one is soon another file's; pool  *)
(* addresses are reused, so only the owner tells two pools apart.          *)
(***************************************************************************)
EXTENDS Naturals, Sequences, SequencesExt

CONSTANTS Handles, Requests,   \* a main request and a subrequest share the pool
          Fds,                 \* descriptors, 1 .. n; 0 is NGX_INVALID_FILE
          MaxOff,              \* the largest off_t
          MaxPools, MaxGen,    \* bounds on pools made and on redirects
          Inputs               \* chains offered to append

VARIABLES registry,  \* owner, generation and staleness of the pool at the one address
          handle,    \* every RequestTempFileHandle with its ngx_temp_file_t
          os,        \* open descriptors, and the pool's enabled file cleanups, newest first
          issued,    \* file buffers given to callers
          foreign    \* an operation went on with another pool's handle

vars == <<registry, handle, os, issued, foreign>>

None == [live |-> FALSE, request |-> "none", owner |-> 0, gen |-> 0, fd |-> 0, offset |-> 0, file |-> 0, data |-> <<>>]

Init ==
    /\ registry = [owner |-> 1, gen |-> 0, stale |-> FALSE]
    /\ handle = [t \in Handles |-> None]
    /\ os = [fds |-> [f \in Fds |-> "free"], cleanups |-> <<>>]
    /\ issued = {}
    /\ foreign = FALSE

New(t, r) ==
    /\ ~handle[t].live
    /\ handle' = [handle EXCEPT ![t] = [None EXCEPT !.live = TRUE, !.request = r, !.owner = registry.owner, !.gen = registry.gen]]
    /\ UNCHANGED <<registry, os, issued, foreign>>

\* checked_pool
Checked(t, r) ==
    /\ ~registry.stale
    /\ handle[t].owner = registry.owner /\ handle[t].gen = registry.gen /\ handle[t].request = r

(***************************************************************************)
(* Appending.                                                              *)
(***************************************************************************)
FreeFds(o) == {f \in Fds : o.fds[f] = "free"}
LowestFree(o) == CHOOSE f \in FreeFds(o) : \A g \in FreeFds(o) : f <= g
Opened(o, owner) ==
    LET f == LowestFree(o)
    IN  [fds |-> [o.fds EXCEPT ![f] = owner], cleanups |-> <<[fd |-> f, owner |-> owner]>> \o o.cleanups]

\* The native write puts n bytes at `offset' and adds n to the file's own offset.
Written(data, offset, n, tag) ==
    [i \in 1 .. (IF offset + n > Len(data) THEN offset + n ELSE Len(data)) |->
        IF i > offset /\ i <= offset + n THEN tag ELSE data[i]]

\* temp_file_range
RangeFits(offset, length) == offset + length <= MaxOff
NeverAdvanced(start, actual, end) == start

\* The offset after a write that ended at `actual' and should have ended at `end'.
Advanced(start, actual, end) == actual

\* append_memory and append_temp_file_buffer for one buffer; a = the work so far.
AppendMemory(a, t, item) ==
    LET start == a.h.offset
        end   == start + item.len
        opens == a.h.fd = 0
        o     == IF opens /\ FreeFds(a.o) # {} THEN Opened(a.o, t) ELSE a.o
        fd    == IF opens /\ FreeFds(a.o) # {} THEN LowestFree(a.o) ELSE a.h.fd
        n     == IF fd = 0 THEN 0 ELSE item.moved
        h     == [a.h EXCEPT !.fd = fd, !.file = @ + n, !.data = Written(@, start, n, item.tag),
                             !.offset = Advanced(start, a.h.file + n, end)]
    IN  IF ~RangeFits(start, item.len) THEN [a EXCEPT !.ok = FALSE]
        ELSE IF n # item.len \/ h.file # end THEN [a EXCEPT !.h = h, !.o = o, !.ok = FALSE]
        ELSE IF ~item.allocated THEN [a EXCEPT !.h = h, !.o = o, !.ok = FALSE]
        ELSE [a EXCEPT !.h = h, !.o = o,
                       !.out = @ \cup {[of |-> t, from |-> start, to |-> end, tag |-> item.tag]}]

\* Every item in order until one fails; file and control buffers leave the file alone.
Appended(t, input) ==
    FoldLeft(LAMBDA a, item : IF a.ok /\ item.memory THEN AppendMemory(a, t, item) ELSE a,
             [h |-> handle[t], o |-> os, out |-> {}, ok |-> TRUE], input)

Append_(t, r, input) ==
    /\ handle[t].live /\ Checked(t, r)
    /\ LET a == Appended(t, input)
       IN  /\ handle' = [handle EXCEPT ![t] = a.h]
           /\ os' = a.o
           /\ issued' = IF a.ok THEN issued \cup a.out ELSE issued
    /\ foreign' = (foreign \/ handle[t].owner # registry.owner)
    /\ UNCHANGED registry

(***************************************************************************)
(* Releasing.                                                              *)
(***************************************************************************)
Matches(fd) == {i \in DOMAIN os.cleanups : os.cleanups[i].fd = fd}
Newest(fd) == CHOOSE i \in Matches(fd) : \A j \in Matches(fd) : i <= j
\* The handler is disabled, then run: a disabled entry is one that is not listed.
Closed(i) ==
    [fds |-> [os.fds EXCEPT ![os.cleanups[i].fd] = "free"], cleanups |-> RemoveAt(os.cleanups, i)]

\* release consumes the handle, found or not; its buffers are given up first.
Release(t, r) ==
    /\ handle[t].live
    /\ handle' = [handle EXCEPT ![t] = None]
    /\ issued' = {b \in issued : b.of # t}
    /\ os' = IF Checked(t, r) /\ handle[t].fd # 0 /\ Matches(handle[t].fd) # {}
             THEN Closed(Newest(handle[t].fd)) ELSE os
    /\ foreign' = (foreign \/ (Checked(t, r) /\ handle[t].owner # registry.owner))
    /\ UNCHANGED registry

(***************************************************************************)
(* The rest of the request.                                                *)
(***************************************************************************)
\* Other code opens a file under the pool, or one of its own, and closes it.
OtherOpens(pooled) ==
    /\ FreeFds(os) # {} /\ \A f \in Fds : os.fds[f] # "other"
    /\ os' = IF pooled THEN Opened(os, "other") ELSE [os EXCEPT !.fds[LowestFree(os)] = "other"]
    /\ UNCHANGED <<registry, handle, issued, foreign>>
OtherCloses(f) ==
    /\ os.fds[f] = "other"
    /\ os' = IF Matches(f) # {} THEN Closed(Newest(f)) ELSE [os EXCEPT !.fds[f] = "free"]
    /\ UNCHANGED <<registry, handle, issued, foreign>>

\* An internal redirect, which may leave contexts of the old generation behind.
Redirect(stale) ==
    /\ registry.gen < MaxGen
    /\ registry' = [registry EXCEPT !.gen = @ + 1, !.stale = stale]
    /\ UNCHANGED <<handle, os, issued, foreign>>

\* The pool is destroyed, running its cleanups, and another made at its address.
Recycle ==
    /\ registry.owner < MaxPools
    /\ registry' = [owner |-> registry.owner + 1, gen |-> 0, stale |-> FALSE]
    /\ os' = [fds |-> [f \in Fds |-> IF Matches(f) # {} THEN "free" ELSE os.fds[f]], cleanups |-> <<>>]
    /\ issued' = {}
    /\ UNCHANGED <<handle, foreign>>

Next ==
    \/ Recycle
    \/ \E stale \in BOOLEAN : Redirect(stale)
    \/ \E t \in Handles, r \in Requests :
          New(t, r) \/ Release(t, r) \/ \E input \in Inputs : Append_(t, r, input)
    \/ \E pooled \in BOOLEAN : OtherOpens(pooled)
    \/ \E f \in Fds : OtherCloses(f)

Spec == Init /\ [][Next]_vars

(***************************************************************************)
(* Properties.                                                             *)
(***************************************************************************)
\* The offset the handle keeps and the one nginx keeps agree after every append,
\* also one that failed half way.
TypeOK == \A t \in Handles : handle[t].offset = handle[t].file

\* Every buffer given out reads back the bytes it was made from: later appends,
\* failed ones included, write behind it.
ReadsBack ==
    \A b \in issued : \A i \in b.from + 1 .. b.to :
        i \in DOMAIN handle[b.of].data /\ handle[b.of].data[i] = b.tag

\* Each descriptor a live handle keeps is its own file, and each enabled cleanup
\* closes the file it was made for, never one opened later under its number.
DescriptorsExact ==
    /\ \A t \in Handles :
          handle[t].live /\ handle[t].owner = registry.owner /\ handle[t].fd # 0 => os.fds[handle[t].fd] = t
    /\ \A i \in DOMAIN os.cleanups :
          os.fds[os.cleanups[i].fd] = os.cleanups[i].owner

\* No operation uses a handle whose pool is gone, though the pool and the request
\* may be at the same addresses.
NoForeignUse == ~foreign

\* No file grows past what an off_t can address.
OffsetsAddressable == \A t \in Handles : Len(handle[t].data) <= MaxOff
============================================================================
