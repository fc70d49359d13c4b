------------------------------ MODULE EventPeer ------------------------------
(***************************************************************************)
(* Event peers (event/peer/{builder,connection,keepalive}.rs): owners that *)
(* select an upstream peer through nginx's get callback, connect a socket, *)
(* use it, hand it to keepalive storage and back, and release the          *)
(* selection through the free callback, which may retain the connection.   *)
(***************************************************************************)
EXTENDS Integers, FiniteSets

CONSTANTS Peers,          \* the owners
          Conns,          \* nginx connections
          MaxGets,        \* bound: calls of the get callback by one owner
          PoolMayFail,    \* ngx_create_pool fails or the size is too small
          Reconnects      \* a caller connects again with a peer that was
                          \* selected and not released

None == "none"

PeersAssumption ==
    /\ MaxGets \in Nat /\ PoolMayFail \in BOOLEAN /\ Reconnects \in BOOLEAN
    /\ None \notin Conns /\ {None, "selector"} \cap Peers = {}

VARIABLES peer,   \* peer[p]: [st, selected, conn, log]
          conn,   \* conn[c]: the native connection and its two events
          gets,   \* gets[p]: selections by the get callback
          asked,  \* asked[p]: calls of the get callback
          frees   \* frees[p]: calls of the free callback

vars == <<peer, conn, asked, gets, frees>>

Owning == {"pending", "ready", "active", "idle"}

Unused == [st |-> "unused", by |-> None, handlers |-> None, data |-> None,
           pool |-> FALSE, idle |-> FALSE, timer |-> FALSE, stale |-> FALSE,
           log |-> None]

(* EventPeerBuilder::build.                                                *)
Built == [st |-> "peer", selected |-> FALSE, conn |-> None, log |-> "request"]

Init ==
    /\ peer = [p \in Peers |-> Built] /\ conn = [c \in Conns |-> Unused]
    /\ asked = [p \in Peers |-> 0] /\ gets = [p \in Peers |-> 0]
    /\ frees = [p \in Peers |-> 0]

(* EventPeer::quiesce, prepare, update_log and close_owned on the native   *)
(* connection.                                                             *)
Quiesced(c, idle) == [c EXCEPT !.timer = FALSE, !.handlers = "inert",
                               !.data = None, !.idle = idle]

Prepared(c, use) == [c EXCEPT !.pool = TRUE, !.log = use, !.data = use,
                              !.handlers = use, !.idle = (use = "keepalive")]

RelogForgotten(c, log) == c

Relogged(c, log) == [c EXCEPT !.log = log]

Closed(c) == [Quiesced(c, c.idle) EXCEPT !.st = "closed", !.pool = FALSE, !.by = None]

(* validate_keepalive: no error, end of file, timeout or unread input.     *)
Reusable(c) == ~c.stale

Become(p, st) == peer' = [peer EXCEPT ![p].st = st]

SetConn(p, c) == conn' = [conn EXCEPT ![peer[p].conn] = c]

Mine(p) == conn[peer[p].conn]

(* EventPeer::connect, when the selector's get callback does not select.   *)
Asks(p) ==
    /\ peer[p].st = "peer" /\ asked[p] < MaxGets
    /\ peer[p].selected => Reconnects
    /\ asked' = [asked EXCEPT ![p] = @ + 1]

SelectNothing(p) ==
    /\ Asks(p)
    /\ peer' = [peer EXCEPT ![p].selected = FALSE]
    /\ UNCHANGED <<conn, gets, frees>>

(* ... when it selects and the connect fails: the peer comes back.         *)
Selects(p) == Asks(p) /\ gets' = [gets EXCEPT ![p] = @ + 1]

ConnectFails(p) ==
    /\ Selects(p)
    /\ peer' = [peer EXCEPT ![p].selected = TRUE]
    /\ UNCHANGED <<conn, frees>>

(* ... when nginx connects at once, starts to connect, or the selector has *)
(* a connection of its own (NGX_DONE): classify_connect silences it.       *)
Connect(p, c, st) ==
    /\ Selects(p)
    /\ \/ conn[c].st = "unused"
       \/ conn[c].by = "selector" /\ conn[c].st = "open" /\ st = "active"
    /\ conn' = [conn EXCEPT ![c].st = "open", ![c].by = p, ![c].log = "request",
                            ![c].handlers = "inert", ![c].idle = FALSE]
    /\ peer' = [peer EXCEPT ![p] = [@ EXCEPT !.st = st, !.selected = TRUE, !.conn = c]]
    /\ UNCHANGED frees

(* EventPeerPendingConnection and EventPeerConnection::prepare.            *)
Prepare(p) ==
    /\ peer[p].st \in {"pending", "active"}
    /\ SetConn(p, Prepared(Mine(p), "request"))
    /\ UNCHANGED <<peer, asked, gets, frees>>

(* connect_ready and EventPeerConnectReady::complete, whose error drops.   *)
ConnectReady(p) ==
    /\ peer[p].st = "pending" /\ Become(p, "ready")
    /\ UNCHANGED <<conn, asked, gets, frees>>

Complete(p) ==
    /\ peer[p].st = "ready" /\ ~Mine(p).stale
    /\ Become(p, "active") /\ UNCHANGED <<conn, asked, gets, frees>>

(* The module uses its connection: it reads what is there, sets timers.    *)
Use(p) ==
    /\ peer[p].st = "active" /\ Mine(p).handlers = "request"
    /\ SetConn(p, [Mine(p) EXCEPT !.timer = TRUE, !.stale = FALSE])
    /\ UNCHANGED <<peer, asked, gets, frees>>

(* EventPeerConnection::into_keepalive: validate, quiesce, prepare for idle*)
(* use, then register the read event; a failed registration rolls back.    *)
IntoKeepalive(p, registered) ==
    /\ peer[p].st = "active" /\ Reusable(Mine(p))
    /\ LET idle == Prepared(Quiesced(Mine(p), TRUE), "keepalive") IN
       IF registered
         THEN SetConn(p, idle) /\ peer' = [peer EXCEPT ![p].st = "idle",
                                                       ![p].log = "keepalive"]
         ELSE SetConn(p, Relogged(Quiesced(idle, FALSE), "request")) /\ UNCHANGED peer
    /\ UNCHANGED <<asked, gets, frees>>

(* ... whose preparation fails, after the connection was quiesced.         *)
KeepaliveNotPrepared(p) ==
    /\ peer[p].st = "active" /\ Reusable(Mine(p)) /\ ~Mine(p).pool /\ PoolMayFail
    /\ SetConn(p, Quiesced(Mine(p), TRUE))
    /\ UNCHANGED <<peer, asked, gets, frees>>

(* EventPeerKeepalive::into_connection, refused for a stale connection.    *)
IntoConnection(p) ==
    /\ peer[p].st = "idle" /\ Reusable(Mine(p))
    /\ SetConn(p, Relogged(Quiesced(Mine(p), FALSE), "request"))
    /\ peer' = [peer EXCEPT ![p].st = "active", ![p].log = "request"]
    /\ UNCHANGED <<asked, gets, frees>>

(* EventPeer::attach_keepalive of a connection owned outside.  It quiesces *)
(* the connection and changes no log: that of the connection is still the  *)
(* previous owner's.                                                       *)
Attach(p, c) ==
    /\ peer[p].st = "peer" /\ conn[c].by = "selector" /\ conn[c].st = "open"
    /\ conn' = [conn EXCEPT ![c] = [Quiesced(@, TRUE) EXCEPT !.by = p]]
    /\ peer' = [peer EXCEPT ![p] = [@ EXCEPT !.st = "idle", !.conn = c]]
    /\ UNCHANGED <<asked, gets, frees>>

(* release and drop, of any owner: the selection is given back once, with  *)
(* a callback that may retain the connection; what is left is closed.      *)
Freed(p) == IF peer[p].selected THEN frees[p] + 1 ELSE frees[p]

Release(p, retained) ==
    /\ peer[p].st # "gone"
    /\ retained => peer[p].selected /\ peer[p].conn # None
    /\ frees' = [frees EXCEPT ![p] = Freed(p)]
    /\ peer' = [peer EXCEPT ![p] = [@ EXCEPT !.st = "gone", !.selected = FALSE,
                                             !.conn = None]]
    /\ conn' = IF peer[p].conn = None THEN conn
               ELSE [conn EXCEPT ![peer[p].conn] =
                        IF retained
                          THEN [@ EXCEPT !.by = "selector", !.handlers = "selector",
                                         !.data = "selector", !.log = "selector",
                                         !.timer = FALSE, !.idle = TRUE]
                          ELSE Closed(@)]
    /\ UNCHANGED <<asked, gets>>

(* The network: input, end of file, an error or a timeout.                 *)
Activity(c) ==
    /\ conn[c].st = "open" /\ ~conn[c].stale
    /\ conn' = [conn EXCEPT ![c].stale = TRUE]
    /\ UNCHANGED <<peer, asked, gets, frees>>

Next ==
    \/ \E p \in Peers :
        \/ SelectNothing(p) \/ ConnectFails(p) \/ Prepare(p) \/ ConnectReady(p)
        \/ Complete(p) \/ Use(p) \/ KeepaliveNotPrepared(p) \/ IntoConnection(p)
        \/ \E b \in BOOLEAN : IntoKeepalive(p, b) \/ Release(p, b)
        \/ \E c \in Conns : Attach(p, c) \/ \E st \in {"active", "pending"} :
                                               Connect(p, c, st)
    \/ \E c \in Conns : Activity(c)

Spec == Init /\ [][Next]_vars

(* Types; a closed connection is silent, without timers and data.          *)
TypeOK ==
    /\ \A p \in Peers :
        /\ peer[p] \in [st : Owning \cup {"peer", "gone"}, selected : BOOLEAN,
                        conn : Conns \cup {None},
                        log : {"request", "keepalive"}]
        /\ asked[p] \in 0..MaxGets /\ gets[p] \in 0..asked[p]
        /\ frees[p] \in 0..MaxGets
    /\ \A c \in Conns :
        /\ conn[c].st \in {"unused", "open", "closed"}
        /\ conn[c].st = "closed" =>
              conn[c].handlers = "inert" /\ conn[c].data = None /\ ~conn[c].timer

(* Every open socket has exactly one owner that will close it: a peer of   *)
(* an owning type or the selector that retained it.                        *)
OneOwner ==
    /\ \A c \in Conns : conn[c].st = "open" => conn[c].by \in Peers \cup {"selector"}
    /\ \A c \in Conns : \A p \in Peers :
          (peer[p].conn = c) <=> (conn[c].by = p)
    /\ \A p \in Peers : (peer[p].st \in Owning) <=> (peer[p].conn # None)

(* The event handlers, the timers and the data of a request are on the     *)
(* connection only while an active owner has it; an idle connection cannot *)
(* call into a request that has ended.  A connection logs where its owner  *)
(* does, but for one that was attached and is still idle, which logs where *)
(* it did before.                                                          *)
IdleIsDetached ==
    \A p \in Peers : peer[p].conn # None =>
        /\ \/ Mine(p).log = peer[p].log
           \/ peer[p].st = "idle" /\ peer[p].log = "request"
                                  /\ Mine(p).log = "selector"
        /\ peer[p].st = "idle" =>
              /\ Mine(p).handlers # "request" /\ Mine(p).data # "request"
              /\ ~Mine(p).timer

(* A selection is released exactly once, however the peer moved between    *)
(* its owner types, and nothing is released that was not selected.         *)
SelectionReleasedOnce ==
    \A p \in Peers : frees[p] + (IF peer[p].selected THEN 1 ELSE 0) = gets[p]

(* What holds of event peers in every state.                               *)
PeersExact ==
    TypeOK /\ OneOwner /\ IdleIsDetached /\ (~Reconnects => SelectionReleasedOnce)
=============================================================================
