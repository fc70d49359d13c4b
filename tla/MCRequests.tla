------------------------------ MODULE MCRequests -----------------------------
(***************************************************************************)
(* What an HTTP request owns: its references (RequestHold), the contexts   *)
(* of its modules (RequestContext), its body and input headers             *)
(* (RequestBody), its temporary files (TempFile) and its upstream peer     *)
(* (UpstreamPeer).  A behaviour is one of the component `part'; the others *)
(* stay in their initial state.                                            *)
(***************************************************************************)
EXTENDS RequestHold

CONSTANT Nil    \* neither a context, a slot nor a generation

VARIABLES part,
    ctxSlot, where, state, drops, owns, chain, cleanups, generation, read, pending,
    displaced, delivered, stack, uris, ctxCount, ctxPool, ctxTerminated,
    m, hin, body, b, cand, want, torn,
    registry, handle, os, issued, foreign,
    sel, frames, balancer, nginx

Context == INSTANCE RequestContext WITH None <- Nil,
    Contexts <- {"c1", "c2", "c3"}, Slots <- {"a", "b"},
    CountMax <- 4, Reserve <- 1, UriChanges <- 1, MaxDepth <- 2,
    slot <- ctxSlot, count <- ctxCount, pool <- ctxPool, terminated <- ctxTerminated

\* Bodies of 0, 12, 20 and, clamped to usize, 24 bytes, of which 12 fit an off_t.
Body == INSTANCE RequestBody WITH
    Keys <- {"", "Host", "Content-Length"}, Pieces <- {0, 12, 20}, MaxUsize <- 31,
    MaxOff <- 15, MaxCount <- 4, Capacities <- {0, 1}, MaxArrays <- 3

\* Chains of one or two buffers; writes that are whole, short or fail, and a
\* buffer that cannot be allocated.
Memory(len, moved, tag) == [memory |-> TRUE, len |-> len, moved |-> moved, tag |-> tag, allocated |-> TRUE]
Control == [memory |-> FALSE, len |-> 0, moved |-> 0, tag |-> "none", allocated |-> TRUE]
File == INSTANCE TempFile WITH
    Handles <- {"t1", "t2"}, Requests <- {"main", "sub"}, Fds <- {1, 2}, MaxOff <- 3,
    MaxPools <- 2, MaxGen <- 1,
    Inputs <- {<<Control, Memory(1, 1, "y")>>, <<Memory(1, 1, "x"), Memory(2, 1, "y")>>,
               <<[Memory(1, 1, "y") EXCEPT !.allocated = FALSE]>>}

Peer == INSTANCE UpstreamPeer WITH
    N <- 3, Provided <- {"notify", "save_session"}, MaxGeneration <- 2, native <- balancer

ASSUME PeerAssumed == Peer!PeerAssumption

ctxVars == <<ctxSlot, where, state, drops, owns, chain, cleanups, generation, read, pending,
             displaced, delivered, stack, uris, ctxCount, ctxPool, ctxTerminated>>
bodyVars == <<m, hin, body, b, cand, want, torn>>
fileVars == <<registry, handle, os, issued, foreign>>
peerVars == <<sel, frames, balancer, nginx>>

RequestsInit ==
    /\ part \in {"hold", "context", "body", "file", "peer"}
    /\ Init /\ Context!Init /\ Body!Init /\ File!Init /\ Peer!Init
    /\ part # "hold" => phase = 0
    /\ part # "body" => body = -1

RequestsNext ==
    /\ UNCHANGED part
    /\ \/ part = "hold"    /\ Next         /\ UNCHANGED <<ctxVars, bodyVars, fileVars, peerVars>>
       \/ part = "context" /\ Context!Next /\ UNCHANGED <<vars, bodyVars, fileVars, peerVars>>
       \/ part = "body"    /\ Body!Next    /\ UNCHANGED <<vars, ctxVars, fileVars, peerVars>>
       \/ part = "file"    /\ File!Next    /\ UNCHANGED <<vars, ctxVars, bodyVars, peerVars>>
       \/ part = "peer"    /\ Peer!Next    /\ UNCHANGED <<vars, ctxVars, bodyVars, fileVars>>

RequestsSpec == RequestsInit /\ [][RequestsNext]_<<part, vars, ctxVars, bodyVars, fileVars, peerVars>>

\* A slot never shows a context that was destroyed or has a live predecessor; every
\* context is destroyed once, before the registry it is registered in; and a body
\* handler runs only for the request, still alive, that started the read
\* (RequestContextRegistration::cancel, take_client_body_read).
ContextsExact == part = "context" =>
    /\ Context!TypeOK /\ Context!PublishedIsLive /\ Context!OneLivePerSlot
    /\ Context!DestroyedOnce /\ Context!RegistryOutlivesContexts
    /\ Context!BodyReadIsCurrent /\ Context!CallbackKeepsRequest

\* The input headers are those completed operations left, the one that frames the
\* body spells its length, and a subrequest reads them without changing them
\* (publish_request_body_framing, SubRequestBuilder::build).
FramingMatchesBody ==
    /\ [](part = "body" => /\ Body!TypeOK /\ Body!HeadersExact
                           /\ Body!BuilderSlotsExact /\ Body!FramingMatchesBody)
    /\ [][part = "body" => Body!ChildReadsParent]_bodyVars

\* File buffers read back what was written, from a file of the request's own pool
\* and never past an off_t, and every descriptor is closed by the one owner it has
\* (RequestTempFile::append, release).
ReadsBack == part = "file" =>
    /\ File!TypeOK /\ File!ReadsBack /\ File!NoForeignUse
    /\ File!OffsetsAddressable /\ File!DescriptorsExact

\* Nested peer handlers and nginx agree on the peer that is held: none is taken
\* twice, freed twice or left behind (PeerSelectionState).
PeerExact == part = "peer" => Peer!PeerExact
=============================================================================
