---------------------------- MODULE UpstreamPeer ----------------------------
(***************************************************************************)
(* Selection and release of an upstream peer through handlers that wrap    *)
(* one another (src/http/upstream/peer.rs).                                *)
(*                                                                         *)
(* Handlers 1..N are installed on one ngx_peer_connection_t, 1 outermost;  *)
(* the original of handler i is handler i + 1, and that of N is nginx's    *)
(* own balancer.  A frame is a running raw_get_peer.  What a handler does  *)
(* with its OriginalPeerGet and what it returns are free choices.          *)
(***************************************************************************)
EXTENDS Naturals, Sequences

CONSTANTS N,            \* handlers wrapped around the balancer
          Provided,     \* the optional callbacks the balancer has
          MaxGeneration \* the generation wraps after this one

VARIABLES sel,      \* PeerSelectionState of every handler
          frames,   \* the running getters, outermost first
          native,   \* what the balancer holds for this connection
          nginx     \* what nginx was told

vars == <<sel, frames, native, nginx>>

PeerAssumption == N \in Nat \ {0} /\ MaxGeneration \in Nat \ {0}

Handlers == 1..N
None == 0

\* The innermost of the getters fs, and those that wait for it.
Innermost(fs) == fs[Len(fs)]
Around(fs) == SubSeq(fs, 1, Len(fs) - 1)

Init ==
    /\ sel = [i \in Handlers |-> [generation |-> 0, active |-> None]]
    /\ frames = <<>>
    /\ native = [held |-> FALSE, overfreed |-> FALSE, doubled |-> FALSE, event |-> "none"]
    /\ nginx = [selected |-> FALSE]

(***************************************************************************)
(* PeerSelectionState.                                                     *)
(***************************************************************************)
CanBegin(i) == sel[i].active = None
NextGeneration(g) == IF g = MaxGeneration THEN 1 ELSE g + 1

\* A getter starts: begin, and a fresh outcome.
Enter(i) ==
    /\ sel' = [sel EXCEPT ![i].generation = NextGeneration(@)]
    /\ frames' = Append(frames, [handler |-> i, outcome |-> "not_called", token |-> None])

(***************************************************************************)
(* What a call returns to whoever made it: nginx, or the getter above.     *)
(***************************************************************************)
\* OriginalPeerGet::call: the outcome is recorded before the selected peer is
\* validated, and only a valid one becomes a token.
Reported(status, valid, generation) ==
    [outcome |-> IF status = "selected" THEN "selected" ELSE "unselected",
     token   |-> IF status = "selected" /\ valid THEN generation ELSE None]

Answer(rest, status, valid) ==
    IF rest = <<>>
    THEN /\ frames' = rest
         /\ nginx' = [nginx EXCEPT !.selected = @ \/ status = "selected"]
    ELSE LET top == Innermost(rest)
             got == Reported(status, valid, sel[top.handler].generation)
         IN  /\ frames' = Append(Around(rest), [top EXCEPT !.outcome = got.outcome, !.token = got.token])
             /\ UNCHANGED nginx

(***************************************************************************)
(* release_original_peer: the free callbacks from handler i inwards.  A     *)
(* handler without an active selection stops the release.                  *)
(***************************************************************************)
Stops(i) == {j \in i..N : sel[j].active = None}
Released(i) == IF Stops(i) = {} THEN i..N ELSE {j \in i..N : \A k \in Stops(i) : j < k}
Cleared(s, freed) == [j \in Handlers |-> IF j \in freed THEN [s[j] EXCEPT !.active = None] ELSE s[j]]
NativeFreed(i) ==
    IF Stops(i) = {} THEN [native EXCEPT !.held = FALSE, !.overfreed = @ \/ ~native.held] ELSE native

\* raw_free_peer, called by nginx, with or without a selection.
FreePeer ==
    /\ frames = <<>>
    /\ sel' = Cleared(sel, Released(1))
    /\ native' = NativeFreed(1)
    /\ nginx' = [nginx EXCEPT !.selected = FALSE]
    /\ UNCHANGED frames

\* raw_get_peer, called by nginx.
GetPeer ==
    /\ frames = <<>> /\ CanBegin(1)
    /\ Enter(1)
    /\ UNCHANGED <<native, nginx>>

\* The handler on top calls its original: another handler, or the balancer.
CallHandler ==
    /\ frames # <<>>
    /\ LET top == Innermost(frames)
       IN  /\ top.outcome = "not_called" /\ top.handler < N
           /\ IF CanBegin(top.handler + 1)
              THEN Enter(top.handler + 1) /\ UNCHANGED nginx
              ELSE Answer(frames, "error", FALSE) /\ UNCHANGED sel
    /\ UNCHANGED native

\* The balancer: NGX_OK, NGX_AGAIN and NGX_DONE select, with a usable peer or
\* not; other statuses select nothing.
CallBalancer(status, valid) ==
    /\ frames # <<>> /\ Innermost(frames).outcome = "not_called" /\ Innermost(frames).handler = N
    /\ native' = IF status = "selected" THEN [native EXCEPT !.held = TRUE, !.doubled = @ \/ native.held] ELSE native
    /\ Answer(frames, status, valid)
    /\ UNCHANGED sel

(***************************************************************************)
(* The handler returns: its own token, another's, no peer, or an error.    *)
(***************************************************************************)
Accepted(top, answer) ==
    /\ top.outcome = "selected" /\ answer = "token"
    /\ top.token = sel[top.handler].generation
MustReleaseErrors(top, answer) == top.outcome = "selected" /\ answer = "error"

\* The original selected and the handler did not pass its peer on.
MustRelease(top, answer) == top.outcome = "selected" /\ ~Accepted(top, answer)

ReturnSelection(answer) ==
    /\ frames # <<>>
    /\ LET top  == Innermost(frames)
           i    == top.handler
           rest == Around(frames)
       IN  /\ answer = "token" => top.token # None
           /\ IF Accepted(top, answer)
              THEN /\ sel' = [sel EXCEPT ![i].active = sel[i].generation]
                   /\ UNCHANGED native
              ELSE IF MustRelease(top, answer)
              THEN /\ sel' = Cleared(sel, Released(i + 1))
                   /\ native' = NativeFreed(i + 1)
              ELSE UNCHANGED <<sel, native>>
           /\ Answer(rest, IF Accepted(top, answer) THEN "selected" ELSE "error", TRUE)

\* raw_notify_peer, raw_set_session, raw_save_session: installed only over a
\* callback the balancer has, and passed to it through every handler.
Forward(kind) ==
    /\ frames = <<>> /\ kind \in Provided
    /\ native' = [native EXCEPT !.event = kind]
    /\ UNCHANGED <<sel, frames, nginx>>

Next ==
    \/ GetPeer \/ FreePeer \/ CallHandler
    \/ \E status \in {"selected", "error"}, valid \in BOOLEAN : CallBalancer(status, valid)
    \/ \E kind \in {"notify", "set_session", "save_session"} : Forward(kind)
    \/ \E answer \in {"token", "foreign", "unselected", "error"} : ReturnSelection(answer)

Spec == Init /\ [][Next]_vars

(***************************************************************************)
(* Properties.                                                             *)
(***************************************************************************)
\* Frames nest by handler and generations stay in range, zero only at the start.
TypeOK ==
    /\ \A i \in DOMAIN frames : frames[i].handler = i
    /\ \A i \in Handlers : /\ sel[i].generation \in 0..MaxGeneration
                           /\ sel[i].active \in {None, sel[i].generation}
                           /\ i <= Len(frames) => sel[i].generation # 0

\* Between calls, nginx holds a peer exactly when the balancer does: what a
\* handler discarded, refused or failed to return was released on the way.
HeldAgree ==
    frames = <<>> =>
        /\ native.held = nginx.selected
        /\ \A i \in Handlers : (sel[i].active # None) = nginx.selected

\* The balancer is never asked to free what it does not hold.
NeverOverfreed == ~native.overfreed

\* The balancer is never asked for a second peer while it holds one.
NeverDoubled == ~native.doubled

\* All of it: nginx, the handlers and the balancer agree on the peer.
PeerExact == TypeOK /\ HeldAgree /\ NeverOverfreed /\ NeverDoubled
============================================================================
