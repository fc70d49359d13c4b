---------------------------- MODULE ProxyProtocol ----------------------------
(***************************************************************************)
(* A connection's addresses and its PROXY protocol metadata                *)
(* (src/core/connection/address.rs, src/core/connection/proxy_protocol.rs).*)
(*                                                                         *)
(* The metadata is nginx's: its parser stores what the network sent, or    *)
(* the module attaches metadata of its own, and a reader parses whatever   *)
(* is there.  Header sizes are scaled down; bytes and their meaning are    *)
(* not: an entry is a type, two length bytes and the value.                *)
(***************************************************************************)
EXTENDS Naturals, Sequences, FiniteSets

CONSTANTS Bytes, MaxBytes,   \* what the network may send as TLVs
          Types,             \* types looked up
          Offered,           \* TLVs the module attaches
          U16Max, MaxHeader, HeaderLen,  \* scaled limits of a header
          Wire4, Wire6,      \* wire length of a pair of endpoints
          Lengths,           \* socklen values
          FamilyEnd, Size4, Size6, PathOffset, SizeUn \* native layout

VARIABLES carrier,   \* the socket: its type, and the family and length of its address
          metadata,  \* c->proxy_protocol: a set with at most one record
          builder,   \* a ProxyProtocolBuilder: a set with at most one
          want,      \* what a reader should find
          answer     \* how the last attach ended

vars == <<carrier, metadata, builder, want, answer>>

Transports == {"stream", "datagram"}
NoAddress == 0   \* the family of a text that is not an address
Source(family) == [family |-> family, id |-> "source"]
Destination(family) == [family |-> family, id |-> "destination"]

WireLen(address) == IF address.family = 4 THEN Wire4 ELSE Wire6
SaturatingSub(a, b) == IF a > b THEN a - b ELSE 0
Least(a, b) == IF a < b THEN a ELSE b

\* proxy_protocol_tlv_limit
TlvLimit(address, transport) ==
    LET declared == U16Max - WireLen(address)
    IN  IF transport = "stream"
        THEN Least(declared, SaturatingSub(MaxHeader, HeaderLen + WireLen(address)))
        ELSE declared

Init ==
    /\ carrier \in [type : Transports, family : {"inet", "inet6", "unix"}, len : Lengths]
    /\ metadata = {} /\ builder = {} /\ want = {}
    /\ answer = "none"

(***************************************************************************)
(* Attaching.                                                              *)
(***************************************************************************)
\* nginx's own parser, at accept time.  A version 1 header has two texts, which are
\* stored as they come; a version 2 header has endpoints of one family and TLVs.
Accepting == metadata = {} /\ builder = {} /\ answer = "none"
Parsed(source, destination, tlvs) ==
    /\ Accepting
    /\ metadata' = {[source |-> source, destination |-> destination, tlvs |-> tlvs]}
    /\ want' = metadata'
    /\ answer' = "native"
    /\ UNCHANGED <<carrier, builder>>
NativeText(f, g) == Parsed(Source(f), Destination(g), <<>>)
NativeParse(family, tlvs) ==
    /\ Len(tlvs) <= TlvLimit(Source(family), carrier.type)
    /\ Parsed(Source(family), Destination(family), tlvs)

SameFamily(source, destination) == source.family = destination.family

New(source, destination, transport) ==
    /\ builder = {}
    /\ builder' = IF SameFamily(source, destination)
                  THEN {[source |-> source, destination |-> destination, tlvs |-> <<>>, transport |-> transport]}
                  ELSE {}
    /\ UNCHANGED <<carrier, metadata, want, answer>>

Tlvs(tlvs) ==
    /\ builder # {}
    /\ builder' = {[b EXCEPT !.tlvs = tlvs] : b \in {c \in builder : Len(tlvs) <= TlvLimit(c.source, c.transport)}}
    /\ UNCHANGED <<carrier, metadata, want, answer>>

\* attach allocates the record, two texts and, if there are any, the TLVs; only
\* then is the connection made to point at the record.
Allocations(b) == IF b.tlvs = <<>> THEN 3 ELSE 4
Built(b) == [source |-> b.source, destination |-> b.destination, tlvs |-> b.tlvs]
AttachedAfter(b, made) == IF made = Allocations(b) THEN {Built(b)} ELSE metadata

TransportMatches(b) == carrier.type = b.transport
Attach(made) ==
    \E b \in builder :
        /\ made <= Allocations(b)
        /\ builder' = {}
        /\ IF TransportMatches(b)
           THEN /\ metadata' = AttachedAfter(b, made)
                /\ answer' = IF made = Allocations(b) THEN "attached" ELSE "allocation"
                /\ want' = IF answer' = "attached" THEN {Built(b)} ELSE want
           ELSE /\ answer' = "transport"
                /\ UNCHANGED <<metadata, want>>
        /\ UNCHANGED carrier

Next ==
    \/ \E f, g \in {NoAddress, 4, 6} : NativeText(f, g)
    \/ /\ Accepting
       /\ \E family \in {4, 6}, n \in 0 .. MaxBytes : \E tlvs \in [1 .. n -> Bytes] : NativeParse(family, tlvs)
    \/ \E f, g \in {4, 6}, transport \in Transports : New(Source(f), Destination(g), transport)
    \/ \E tlvs \in Offered : Tlvs(tlvs)
    \/ \E made \in 0 .. 4 : Attach(made)

Spec == Init /\ [][Next]_vars

(***************************************************************************)
(* Reading.                                                                *)
(***************************************************************************)
\* connection_proxy_protocol: the metadata, or the error it is refused with.
ReadError(m) ==
    IF NoAddress \in {m.source.family, m.destination.family} THEN "InvalidAddressText"
    ELSE IF Len(m.tlvs) > TlvLimit(m.source, carrier.type) THEN "TlvsTooLong"
    ELSE "ok"
Read == {m \in metadata : ReadError(m) = "ok"}

ShortOrExact(rest, length) == rest <= length

\* lookup_proxy_protocol_tlv: p bytes of the TLVs are behind the cursor.
Short(rest, length) == rest < length
Declined == [is |-> "declined", value |-> <<>>]
Malformed == [is |-> "error", value |-> <<>>]
LookupTlv(tlvs, type) ==
    LET from[p \in 0 .. Len(tlvs)] ==
          IF p = Len(tlvs) THEN Declined
          ELSE IF Len(tlvs) - p < 3 THEN Malformed
          ELSE LET length == 256 * tlvs[p + 2] + tlvs[p + 3]
               IN  IF Short(Len(tlvs) - p - 3, length) THEN Malformed
                   ELSE IF tlvs[p + 1] = type
                        THEN [is |-> "ok", value |-> SubSeq(tlvs, p + 4, p + 3 + length)]
                        ELSE from[p + 3 + length]
    IN  from[0]

\* parse_socket_address and its three families: the bytes of the address it reads.
LengthFits(family, len) ==
    CASE family = "inet" -> len = Size4
      [] family = "inet6" -> len = Size6
      [] family = "unix" -> len >= PathOffset /\ len <= SizeUn
BytesRead ==
    IF carrier.len < FamilyEnd \/ ~LengthFits(carrier.family, carrier.len) THEN 0
    ELSE CASE carrier.family = "inet" -> Size4
           [] carrier.family = "inet6" -> Size6
           [] carrier.family = "unix" -> carrier.len

(***************************************************************************)
(* Properties.                                                             *)
(***************************************************************************)
\* Whatever has TLVs has two endpoints of one family, as the wire format needs: a
\* builder refuses a mixture, and the texts of a version 1 header come without.
TypeOK == \A m \in metadata \cup want :
    m.tlvs # <<>> => m.source.family = m.destination.family /\ m.source.family # NoAddress

\* The metadata is what was attached last; an attach that runs out of memory at any
\* of its copies, or is refused, leaves the earlier metadata.  A reader gets it,
\* unless nginx stored a text that is no address, which is all it is refused for.
ReadsWhatWasAttached ==
    /\ metadata = want
    /\ \A m \in metadata : ReadError(m) \in {"ok", "InvalidAddressText"}
    /\ answer = "attached" => Read = want

\* Header, endpoints and TLVs fit the length field of a PROXY header, and on a
\* stream nginx's header buffer.
HeaderFits ==
    \A m \in metadata :
        /\ WireLen(m.source) + Len(m.tlvs) <= U16Max
        /\ carrier.type = "stream" => HeaderLen + WireLen(m.source) + Len(m.tlvs) <= MaxHeader

\* What the entries of TLV bytes are, without a cursor: a set of cuts, each
\* entry reaching from one cut to the next.
EntryEnd(tlvs, p) == p + 3 + 256 * tlvs[p + 2] + tlvs[p + 3]
IsCut(tlvs, cuts) ==
    /\ 0 \in cuts
    /\ \A p \in cuts : (\E q \in cuts : q > p) =>
          /\ p + 3 <= Len(tlvs)
          /\ EntryEnd(tlvs, p) \in cuts
          /\ \A q \in cuts : q > p => q >= EntryEnd(tlvs, p)
Has(tlvs, cuts, type) == \E p \in cuts : (\E q \in cuts : q > p) /\ tlvs[p + 1] = type
Reference(tlvs, type) ==
    LET cuttings == {c \in SUBSET (0 .. Len(tlvs)) : IsCut(tlvs, c)}
        found == {p \in 0 .. Len(tlvs) - 3 :
                    /\ tlvs[p + 1] = type
                    /\ \E c \in cuttings :
                          /\ {p, EntryEnd(tlvs, p)} \subseteq c
                          /\ ~Has(tlvs, {q \in c : q <= p}, type)}
    IN  IF found # {}
        THEN {[is |-> "ok", value |-> SubSeq(tlvs, p + 4, EntryEnd(tlvs, p))] : p \in found}
        ELSE IF \E c \in cuttings : Len(tlvs) \in c THEN {Declined} ELSE {Malformed}

\* A lookup finds the first entry of the type, declines only where the bytes are
\* entries to the end, and reports every truncated entry it meets.
LookupExact ==
    builder = {} => \A m \in Read, type \in Types : {LookupTlv(m.tlvs, type)} = Reference(m.tlvs, type)

\* An address is read from no more bytes than the socket length says there are.
AddressWithinLength == BytesRead <= carrier.len
============================================================================
