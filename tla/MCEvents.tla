------------------------------ MODULE MCEvents -------------------------------
(***************************************************************************)
(* Who owns an event of nginx's loop: posted events (PostedEvent), timers  *)
(* (Timer), the waits that borrow the handler of an event (Readiness), and *)
(* the connections of event peers (EventPeer).  A behaviour is one of the  *)
(* component `part'; the others stay in their initial state.               *)
(***************************************************************************)
EXTENDS PostedEvent

VARIABLES part,
    tOwner, timerSet, timedout, cancelable, tCallbackAlive, tValues, tDestroyed,
    tActive, tControl, tAlive, delivered,
    wait, native, waiters, activations,
    peer, conn, gets, asked, frees

AnyTimers == INSTANCE Timer WITH
    Timers <- {"t1", "t2"}, NoTimer <- "none", Reentrant <- TRUE,
    owner <- tOwner, callbackAlive <- tCallbackAlive, values <- tValues,
    destroyed <- tDestroyed, active <- tActive, control <- tControl, alive <- tAlive

\* The same timers, used by their callbacks through the control only.
PlainTimers == INSTANCE Timer WITH
    Timers <- {"t1", "t2"}, NoTimer <- "none", Reentrant <- FALSE,
    owner <- tOwner, callbackAlive <- tCallbackAlive, values <- tValues,
    destroyed <- tDestroyed, active <- tActive, control <- tControl, alive <- tAlive

ASSUME TimersAssumed == AnyTimers!TimersAssumption /\ PlainTimers!TimersAssumption

\* A timeout of three milliseconds, for a timer of at most two.
Waits == INSTANCE Readiness WITH
    Waits <- {"w1", "w2"}, Events <- {"e1", "e2"}, Timeouts <- {0, 5}, UnitsPerMs <- 2,
    MaxStep <- 2, MaxActive <- 1, event <- native, active <- activations

ASSUME WaitsAssumed == Waits!WaitsAssumption

Peers == INSTANCE EventPeer WITH
    Peers <- {"p1", "p2"}, Conns <- {"c1", "c2"}, MaxGets <- 2,
    PoolMayFail <- TRUE, Reconnects <- FALSE

ASSUME PeersAssumed == Peers!PeersAssumption

timerVars == <<tOwner, timerSet, timedout, cancelable, tCallbackAlive, tValues,
               tDestroyed, tActive, tControl, tAlive, delivered>>
waitVars == <<wait, native, waiters, activations>>
peerVars == <<peer, conn, gets, asked, frees>>

EventsInit ==
    /\ part \in {"posted", "timers", "plain", "waits", "peers"}
    /\ Init /\ AnyTimers!Init /\ Waits!Init /\ Peers!Init

EventsNext ==
    /\ UNCHANGED part
    /\ \/ part = "posted" /\ Next        /\ UNCHANGED <<timerVars, waitVars, peerVars>>
       \/ part = "timers" /\ AnyTimers!Next /\ UNCHANGED <<vars, waitVars, peerVars>>
       \/ part = "plain"  /\ PlainTimers!Next /\ UNCHANGED <<vars, waitVars, peerVars>>
       \/ part = "waits"  /\ Waits!Next  /\ UNCHANGED <<vars, timerVars, peerVars>>
       \/ part = "peers"  /\ Peers!Next  /\ UNCHANGED <<vars, timerVars, waitVars>>

EventsSpec == EventsInit /\ [][EventsNext]_<<part, vars, timerVars, waitVars, peerVars>>

\* Timers keep the promises of owned callbacks, whatever a callback does with the
\* owner, and report an expiry until it is observed if it does nothing with it
\* (timer_handler, Timer::drop, take_timeout).
TimersExact ==
    /\ [](part = "timers" => AnyTimers!TimersExact)
    /\ [](part = "plain" => PlainTimers!TimersExact)
    /\ AnyTimers!ImplementsOwnedCallback

\* No activation of an event is lost to a wait that ends, the module's handler is
\* back after the last one, and a wait times out after its duration, not before
\* (readiness_handler, EventReadiness::poll).
WaitsExact == part = "waits" => Waits!WaitsExact

\* Every open socket has one owner that will close it, an idle one calls into no
\* request, and a selection is released once (event/peer).
PeersExact == part = "peers" => Peers!PeersExact
=============================================================================
