---------------------------- MODULE UpstreamInit ----------------------------
(***************************************************************************)
(* Initialisation of upstreams and of the peer of a request through        *)
(* handlers that replace nginx's initialisers and call the replaced one    *)
(* (src/http/upstream/callback.rs, init.rs, peer_init.rs).                 *)
(*                                                                         *)
(* An upstream u has an initialiser `up' and a peer initialiser `peer',    *)
(* each "native", "none", or the handler whose callback is installed.  A   *)
(* handler keeps what it replaced in a slot of its module's configuration  *)
(* for u, with the upstream the slot belongs to.                           *)
(***************************************************************************)
EXTENDS Naturals, Sequences, SequencesExt, FiniteSets

CONSTANTS Handlers, Upstreams

VARIABLES conf,     \* per upstream: the initialisers installed
          slot,     \* per upstream and handler: the UpstreamCallbackSlot
          frames,   \* running initialisers, outermost first
          req,      \* the request being initialised
          result    \* what the last outermost call returned to nginx

vars == <<conf, slot, frames, req, result>>

Kinds == {"up", "peer"}
Empty == [owner |-> "none", original |-> "none"]

\* up: raw_init_upstream frames; peer: raw_init_peer frames.
NoRequest == [live |-> FALSE, upstream |-> 0, chain |-> <<>>, cleanups |-> {}, misused |-> FALSE]

Init ==
    /\ conf = [u \in Upstreams |-> [up |-> "native", peer |-> "none"]]
    /\ slot = [u \in Upstreams |-> [h \in Handlers |-> [k \in Kinds |-> Empty]]]
    /\ frames = <<>> /\ req = NoRequest /\ result = "none"

(***************************************************************************)
(* Installation: UpstreamCallbackSlot::install_upstream, install_peer.     *)
(***************************************************************************)
SlotFree(u, h, k) == slot[u][h][k].owner = "none"

Install(u, h, k) ==
    /\ SlotFree(u, h, k)
    /\ slot' = [slot EXCEPT ![u][h][k] = [owner |-> u, original |-> conf[u][k]]]
    /\ conf' = [conf EXCEPT ![u][k] = h]

\* install_upstream_initializer, while a directive is parsed.
InstallUpstream(u, h) ==
    /\ frames = <<>> /\ result = "none"
    /\ Install(u, h, "up")
    /\ UNCHANGED <<frames, req, result>>

\* A module that copies its server configuration copies the slot in it.
CopyConf(u, v, h) ==
    /\ frames = <<>> /\ result = "none" /\ u # v
    /\ slot[u][h]["up"].owner = u
    /\ slot' = [slot EXCEPT ![v][h] = slot[u][h]]
    /\ UNCHANGED <<conf, frames, req, result>>

\* original_upstream and original_peer: only the slot's own upstream.
Owned(u, h, k) == slot[u][h][k].owner = u

(***************************************************************************)
(* Running initialisers.                                                   *)
(***************************************************************************)
Top == Last(frames)
Frame(k, u, h) == [kind |-> k, u |-> u, handler |-> h, called |-> FALSE, inner |-> "none", live |-> TRUE,
                   upstream |-> req.upstream]

\* What the caller of a finished initialiser sees: nginx, or the frame below.
Answer(rest, status) ==
    IF rest = <<>> THEN frames' = rest /\ result' = status
    ELSE /\ frames' = Append(Front(rest), [Last(rest) EXCEPT !.inner = status])
         /\ UNCHANGED result

\* nginx calls the initialiser of an upstream, at configuration time.
StartUpstream(u) ==
    /\ frames = <<>> /\ req = NoRequest /\ conf[u].up \in Handlers
    /\ Owned(u, conf[u].up, "up")
    /\ frames' = <<Frame("up", u, conf[u].up)>>
    /\ result' = "running"
    /\ UNCHANGED <<conf, slot, req>>

\* nginx calls the peer initialiser for a request: PeerInitLiveness::register.
StartPeer(u) ==
    /\ frames = <<>> /\ req = NoRequest /\ result # "none" /\ conf[u].peer \in Handlers
    /\ Owned(u, conf[u].peer, "peer")
    /\ req' = [NoRequest EXCEPT !.live = TRUE, !.upstream = 1, !.cleanups = {1}]
    /\ frames' = <<[Frame("peer", u, conf[u].peer) EXCEPT !.upstream = 1]>>
    /\ result' = "running"
    /\ UNCHANGED <<conf, slot>>

OriginalOf(f) == slot[f.u][f.handler][f.kind].original

\* The handler on top calls an original that is another handler.
CallHandler ==
    /\ frames # <<>> /\ ~Top.called /\ OriginalOf(Top) \in Handlers
    /\ LET down == [Top EXCEPT !.called = TRUE]
           h    == OriginalOf(Top)
       IN  IF Owned(Top.u, h, Top.kind)
           THEN /\ frames' = Front(frames) \o <<down, Frame(Top.kind, Top.u, h)>>
                /\ req' = IF Top.kind = "peer" THEN [req EXCEPT !.cleanups = @ \cup {Len(frames) + 1}] ELSE req
           ELSE frames' = Append(Front(frames), [down EXCEPT !.inner = "error"]) /\ UNCHANGED req
    /\ UNCHANGED <<conf, slot, result>>

\* It calls nginx's own initialiser, which may fail, or replace the upstream of
\* the request, or end the request with its pool: the cleanups then run.
CallNative(how) ==
    /\ frames # <<>> /\ ~Top.called /\ OriginalOf(Top) = "native"
    /\ LET down == [Top EXCEPT !.called = TRUE, !.inner = IF how = "fail" THEN "error" ELSE "ok"]
       IN  IF Top.kind = "up"
           THEN /\ how \in {"ok", "fail"}
                /\ conf' = IF how = "ok" THEN [conf EXCEPT ![Top.u].peer = "native"] ELSE conf
                /\ frames' = Append(Front(frames), down) /\ UNCHANGED req
           ELSE /\ req.live
                /\ req' = CASE how = "ok" -> [req EXCEPT !.chain = <<"native">>]
                            [] how = "fail" -> req
                            [] how = "replace" -> [req EXCEPT !.upstream = 2, !.chain = <<"native">>]
                            [] how = "destroy" -> [req EXCEPT !.live = FALSE, !.cleanups = {}]
                /\ frames' = LET marked == Append(Front(frames), down)
                             IN  IF how = "destroy"
                                 THEN [i \in 1..Len(marked) |-> [marked[i] EXCEPT !.live = i \notin req.cleanups]]
                                 ELSE marked
                /\ UNCHANGED conf
    /\ UNCHANGED <<slot, result>>

\* The handler of an upstream initialiser installs a peer initialiser.
InstallPeer ==
    /\ frames # <<>> /\ Top.kind = "up"
    /\ Install(Top.u, Top.handler, "peer")
    /\ UNCHANGED <<frames, req, result>>

\* raw_init_upstream ends: Initialized needs a peer initialiser.
FinishUpstream(answer) ==
    /\ frames # <<>> /\ Top.kind = "up"
    /\ answer = "ok" => conf[Top.u].peer # "none"
    /\ Answer(Front(frames), answer)
    /\ UNCHANGED <<conf, slot, req>>

AlwaysLive(f) == TRUE

\* raw_init_peer after the handler: still live, same upstream, then install.
StillLive(f) == f.live
SameUpstream(f) == f.upstream = req.upstream

\* Drop of PeerInitLiveness: the cleanup is disabled while the pool exists.
Disarmed(f, r) == IF f.live THEN [r EXCEPT !.cleanups = @ \ {Len(frames)}] ELSE r

FinishPeer(answer) ==
    /\ frames # <<>> /\ Top.kind = "peer"
    /\ LET good == StillLive(Top) /\ SameUpstream(Top) /\ answer = "ok"
       IN  /\ req' = Disarmed(Top,
                        IF good THEN [req EXCEPT !.chain = <<Top.handler>> \o @, !.misused = @ \/ ~req.live] ELSE req)
           /\ Answer(Front(frames), IF good THEN "ok" ELSE "error")
    /\ UNCHANGED <<conf, slot>>

\* The request goes on, and ends: its pool runs the cleanups left armed.
EndRequest ==
    /\ frames = <<>> /\ req # NoRequest
    /\ req' = NoRequest
    /\ UNCHANGED <<conf, slot, frames, result>>

Next ==
    \/ \E u \in Upstreams : StartUpstream(u) \/ StartPeer(u)
    \/ \E u \in Upstreams, h \in Handlers : InstallUpstream(u, h) \/ \E v \in Upstreams : CopyConf(u, v, h)
    \/ CallHandler \/ InstallPeer \/ EndRequest
    \/ \E how \in {"ok", "fail", "replace", "destroy"} : CallNative(how)
    \/ \E answer \in {"ok", "error"} : FinishUpstream(answer) \/ FinishPeer(answer)

Spec == Init /\ [][Next]_vars

(***************************************************************************)
(* Properties.                                                             *)
(***************************************************************************)
\* Frames of one kind nest over distinct handlers.
TypeOK ==
    \A i, j \in DOMAIN frames : /\ frames[i].kind = frames[j].kind /\ frames[i].u = frames[j].u
                                /\ frames[i].handler = frames[j].handler => i = j

\* Following what each installed initialiser replaced reaches nginx's own or a slot that refuses: the
\* calls of originals end, and no handler's original is itself.
ChainFrom(u, k, n) ==
    LET f[i \in 0..n] == IF i = 0 THEN conf[u][k]
                         ELSE IF f[i - 1] \in Handlers /\ slot[u][f[i - 1]][k].owner = u
                         THEN slot[u][f[i - 1]][k].original
                         ELSE IF f[i - 1] \in Handlers THEN "refused" ELSE f[i - 1]
    IN  f[n]
ChainsEnd == \A u \in Upstreams, k \in Kinds : ChainFrom(u, k, Cardinality(Handlers)) \notin Handlers

\* A slot copied from another upstream never has its original called here.
OwnersKept == \A i \in DOMAIN frames : slot[frames[i].u][frames[i].handler][frames[i].kind].owner = frames[i].u

\* No armed pool cleanup points at the stack frame of a call that has returned.
CleanupsOfRunningFrames == req.cleanups \subseteq {i \in DOMAIN frames : frames[i].kind = "peer"}

\* A request whose pool native code destroyed is not given callbacks.
DestroyedNotTouched == ~req.misused

\* When nginx is told a peer is initialised, the request is alive, on the
\* upstream it had, and the outermost handler's callbacks are in place.
ReportedReady ==
    frames # <<>> /\ frames' = <<>> /\ Top.kind = "peer" /\ result' = "ok" =>
        req'.live /\ req'.chain # <<>> /\ Head(req'.chain) = Top.handler /\ req'.upstream = Top.upstream
============================================================================
