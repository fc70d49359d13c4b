----------------------------- MODULE BufferView -----------------------------
(***************************************************************************)
(* Native buffers as core/buffer.rs reads, consumes, fills and slices      *)
(* them: an ngx_buf_t names a range of memory, a range of a file, both or  *)
(* neither, and comes from nginx, so every combination of its fields is a  *)
(* possible input.                                                         *)
(***************************************************************************)
EXTENDS Integers, Sequences, SequencesExt, FiniteSetsExt

CONSTANTS LastAddress,   \* addresses are 0 (null) .. LastAddress
          LastOffset,    \* file offsets are -1 .. LastOffset
          IsizeMax

VARIABLES buf,    \* the buffer
          want,   \* what it should read as: the bytes of its range
          filed,  \* what its file range should read as
          err     \* what the last call returned; append returns a count

vars == <<buf, want, filed, err>>

Addresses == 0..LastAddress

(* ngx_buf_t: data is what memory holds, a file holds 10 + offset.         *)
Buffers ==
    [temporary: BOOLEAN, memory: BOOLEAN, pos: Addresses, last: Addresses,
     end: Addresses, data: {[a \in Addresses |-> a]},
     in_file: BOOLEAN, file: BOOLEAN, file_pos: -1..LastOffset, file_last: -1..LastOffset]

InMemory(b) == b.temporary \/ b.memory

(* file_range: the error, or "ok".                                         *)
FileRange(b) ==
    IF b.in_file /\ (~b.file \/ b.file_pos < 0 \/ b.file_last < b.file_pos)
      THEN "InvalidFileRange" ELSE "ok"

FileLen(b) == IF b.in_file THEN b.file_last - b.file_pos ELSE 0

(* validate_native_buffer.                                                 *)
Validate(b) ==
    IF InMemory(b) /\ ( \/ b.pos = 0 \/ b.last = 0 \/ b.last < b.pos
                        \/ b.last - b.pos > IsizeMax
                        \/ (b.temporary /\ b.end # 0 /\ b.end < b.last))
      THEN "InvalidMemoryRange" ELSE FileRange(b)

(* Buffer::size of a valid buffer: memory wins over the file.              *)
Size(b) == IF InMemory(b) THEN b.last - b.pos ELSE FileLen(b)

(* Buffer::kind of a valid buffer.                                         *)
Kind(b) ==
    IF InMemory(b) /\ b.last # b.pos THEN "Memory"
    ELSE IF ~InMemory(b) /\ FileLen(b) # 0 THEN "File" ELSE "Control"

(* What a reader of the view gets.                                         *)
Bytes(b) ==
    [i \in 1..Size(b) |-> IF Kind(b) = "Memory" THEN b.data[b.pos + i - 1]
                          ELSE 10 + b.file_pos + i - 1]

FileBytes(b) == [i \in 1..FileLen(b) |-> 10 + b.file_pos + i - 1]

(* What the buffer reads as when it is first met.                          *)
Given(b) == IF Validate(b) = "ok" THEN Bytes(b) ELSE <<>>

Init ==
    /\ buf \in Buffers /\ err = Validate(buf) /\ want = Given(buf)
    /\ filed = IF FileRange(buf) = "ok" THEN FileBytes(buf) ELSE <<>>

Valid == Validate(buf) = "ok"

Returns(e) == err' = e /\ UNCHANGED <<buf, want, filed>>

(* consume moves both ranges of a buffer that has both.                    *)
Consumed(n) ==
    [buf EXCEPT !.pos = IF InMemory(buf) THEN @ + n ELSE @,
                !.file_pos = IF FileLen(buf) # 0 THEN @ + n ELSE @]

ConsumeError(n) ==
    IF ~Valid THEN Validate(buf)
    ELSE IF n > Size(buf) \/ (FileLen(buf) # 0 /\ n > FileLen(buf)) THEN "OutOfRange" ELSE "ok"

Consume(n) ==
    IF ConsumeError(n) # "ok" THEN Returns(ConsumeError(n))
    ELSE /\ err' = "ok" /\ buf' = Consumed(n)
         /\ want' = SubSeq(want, n + 1, Len(want)) /\ filed' = SubSeq(filed, n + 1, Len(filed))

(* MutableBuffer::capacity: the distance from last to end as a usize, so   *)
(* that an end before last, as a null one is, leaves more than any append. *)
Capacity(b) == (b.end - b.last) % (2 * IsizeMax + 2)

(* MutableBuffer::append trusts the buffer.  A write through null or past  *)
(* the memory that there is (LastAddress) ends the process.  What a buffer *)
(* reads as once an append makes it valid is no one's promise.             *)
AppendBytes(n) ==
    LET m == Min({n, Capacity(buf)}) IN
    /\ m # 0 => buf.last # 0
    /\ buf.last + m <= LastAddress
    /\ err' = "count"
    /\ buf' = [buf EXCEPT !.last = @ + m,
                 !.data = [a \in Addresses |-> IF a \in buf.last .. buf.last + m - 1
                                                 THEN 5 ELSE buf.data[a]]]
    /\ want' = IF ~InMemory(buf) THEN want
               ELSE IF Valid THEN want \o [i \in 1..m |-> 5] ELSE Given(buf')
    /\ UNCHANGED filed

(* empty_buffer and control_buffer: no range, pos dangling.                *)
Control ==
    [buf EXCEPT !.temporary = FALSE, !.memory = FALSE, !.pos = 1, !.last = 1, !.end = 0,
                !.in_file = FALSE, !.file = FALSE, !.file_pos = 0, !.file_last = 0]

(* reference_memory: the same bytes, read-only.                            *)
Referenced == [Control EXCEPT !.memory = TRUE, !.pos = buf.pos, !.last = buf.last, !.end = buf.last]

(* copy_buffer: create_buffer and append; a temporary buffer of its own.   *)
Copied(i, j) ==
    [Control EXCEPT !.temporary = TRUE, !.pos = 1, !.last = 1 + j - i, !.end = 1 + j - i,
                    !.data = [a \in Addresses |-> IF a \in 1 .. j - i
                                                    THEN buf.data[buf.pos + i + a - 1] ELSE 0]]

FileSlicedFromEnd(i, j) ==
    [Control EXCEPT !.in_file = TRUE, !.file = TRUE,
                    !.file_pos = buf.file_pos + i, !.file_last = buf.file_last + j]

(* build_file_buffer: offsets relative to the start of the source range.   *)
FileSliced(i, j) ==
    [Control EXCEPT !.in_file = TRUE, !.file = TRUE,
                    !.file_pos = buf.file_pos + i, !.file_last = buf.file_pos + j]

(* The call returns b, of the bytes i .. j - 1 of those there were.        *)
Becomes(b, bytes, i, j) ==
    /\ err' = "ok" /\ buf' = b
    /\ want' = SubSeq(bytes, i + 1, j)
    /\ filed' = IF b.in_file THEN SubSeq(filed, i + 1, j) ELSE <<>>

(* buffer_slice: the bytes i .. j - 1 as a new buffer.                     *)
Slice(i, j) ==
    IF ~Valid THEN Returns(Validate(buf))
    ELSE IF i > j \/ j > Size(buf) THEN Returns("OutOfRange")
    ELSE Becomes(IF i = j THEN Control
                 ELSE IF ~InMemory(buf) THEN FileSliced(i, j)
                 ELSE IF i = 0 /\ j = Size(buf) THEN Referenced ELSE Copied(i, j), want, i, j)

(* file_buffer_slice and retain_file_buffer_slice: of the file, which the  *)
(* range is tested against, whatever the buffer has in memory.             *)
FileSlice(i, j) ==
    IF FileRange(buf) # "ok" THEN Returns(FileRange(buf))
    ELSE IF FileLen(buf) = 0 THEN Returns("NotFile")
    ELSE IF i > j \/ j > FileLen(buf) THEN Returns("OutOfRange")
    ELSE Becomes(IF i = j THEN Control ELSE FileSliced(i, j), filed, i, j)

Next ==
    \/ \E n \in 0..LastAddress : Consume(n)
    \/ \E n \in 1..2 : AppendBytes(n)
    \/ \E i, j \in 0..2 : Slice(i, j) \/ FileSlice(i, j)

Spec == Init /\ [][Next]_vars

(* Types; what a slice makes is valid, and consuming leaves a valid buffer *)
(* valid.                                                                  *)
TypeOK ==
    /\ err \in {"ok", "count", "InvalidMemoryRange", "InvalidFileRange", "OutOfRange", "NotFile"}
    /\ err = "ok" => Valid

(* size is the length of the view that kind chooses, and a control buffer  *)
(* is exactly one without bytes.                                           *)
ViewsAgree == Valid =>
    /\ Size(buf) \in 0..IsizeMax \cup 0..LastOffset
    /\ (Kind(buf) = "Control") <=> (Size(buf) = 0)

(* After any sequence of consuming, appending and slicing, the buffer      *)
(* reads as exactly the bytes those calls name, whether they are in        *)
(* memory, copied or in the file, and so does the file range of a buffer   *)
(* that has both; a call that fails changes nothing.                       *)
ContentExact ==
    /\ Valid => Bytes(buf) = want
    /\ FileRange(buf) = "ok" => FileBytes(buf) = filed

(* A buffer that is both in memory and in a file is consumed in step: the  *)
(* two ranges go on naming the same bytes.                                 *)
ConsumedInStep ==
    (\E n \in 0..LastAddress : Consume(n)) /\ Valid /\ InMemory(buf) /\ FileLen(buf) # 0
        => /\ buf'.file_pos - buf'.pos = buf.file_pos - buf.pos
           /\ buf'.file_pos <= buf'.file_last
=============================================================================
