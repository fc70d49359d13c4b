------------------------------ MODULE Readiness ------------------------------
(***************************************************************************)
(* Readiness futures of event peers (event/readiness.rs): a wait borrows   *)
(* the handler of one native event, is found through the thread's list of  *)
(* waiters, and gives the handler back when it ends, however it ends.      *)
(***************************************************************************)
EXTENDS Integers, Sequences, Functions

CONSTANTS Waits,      \* the EventReadiness futures
          Events,     \* native events of event peers
          Timeouts,   \* durations a wait is created with, in fine units
          UnitsPerMs, \* NANOSECONDS_PER_MILLISECOND
          MaxStep,    \* TIMER_DURATION_MAX_MILLISECONDS
          MaxActive   \* bound: activations of one event

(* A timer runs for at least a unit, and durations are not negative.       *)
WaitsAssumption == UnitsPerMs \in Nat \ {0} /\ MaxStep \in Nat \ {0} /\ Timeouts \subseteq Nat

None == "none"

NoTimeout == -1

VARIABLES wait,      \* wait[w]: the future and the state it registers
          event,     \* event[e]: handler and bits of the native event
          waiters,   \* EVENT_WAITERS, most recent first
          active     \* active[e]: activations so far

vars == <<wait, event, waiters, active>>

(* EventReadiness::new. Two fields are history: `elapsed` is what its      *)
(* timers have measured, and `stale` says whether the event had timed out  *)
(* on a timer that was not the wait's when the wait ended.                 *)
Fresh == [st |-> "new", on |-> None, installed |-> FALSE, saved |-> None,
          delivered |-> FALSE, woken |-> FALSE, waker |-> FALSE, timer |-> "off",
          remaining |-> NoTimeout, armed |-> 0, elapsed |-> 0, duration |-> NoTimeout, asked |-> None,
          result |-> None, stale |-> FALSE]

Quiet == [handler |-> "module", ready |-> FALSE, timedout |-> FALSE,
          timer_set |-> FALSE, posted |-> FALSE, unseen |-> FALSE]

Init ==
    /\ wait = [w \in Waits |-> Fresh] /\ event = [e \in Events |-> Quiet]
    /\ waiters = <<>> /\ active = [e \in Events |-> 0]

Registered(e) == {w \in Range(waiters) : wait[w].on = e}

(* readiness_handler: the waiter the list has for the event is told.       *)
Told(w) == [w EXCEPT !.delivered = TRUE, !.waker = FALSE,
                     !.woken = @ \/ w.waker]

(* nginx calls an event's handler.                                         *)
Call(e, ev) ==
    IF ev.handler = "readiness"
      THEN /\ event' = [event EXCEPT ![e] = ev]
           /\ wait' = [w \in Waits |-> IF w \in Registered(e) THEN Told(wait[w])
                                       ELSE wait[w]]
      ELSE /\ event' = [event EXCEPT ![e] = [ev EXCEPT !.unseen = FALSE]]
           /\ UNCHANGED wait

(* finish: the timer is cancelled, the waiter unlinked, the handler given  *)
(* back if it is still ours, and an activation that nobody has seen is     *)
(* posted for it. A wait that never installed leaves the event alone.      *)
Finished(w, st, result, stale) ==
    [w EXCEPT !.st = st, !.result = result, !.stale = stale, !.timer = "off", !.waker = FALSE,
              !.delivered = FALSE, !.installed = FALSE, !.saved = None]

RestoredUnposted(ev, w, forward) ==
    IF ~w.installed \/ ev.handler # "readiness" THEN ev
    ELSE [ev EXCEPT !.handler = w.saved]

Restored(ev, w, forward) ==
    IF ~w.installed \/ ev.handler # "readiness" THEN ev
    ELSE [ev EXCEPT !.handler = w.saved, !.posted = @ \/ (forward /\ w.delivered)]

(* unregister_waiter: the list without the place of w.                     *)
Unregistered(w) ==
    LET i == CHOOSE i \in DOMAIN waiters : waiters[i] = w
    IN  IF w \in Range(waiters) THEN SubSeq(waiters, 1, i - 1) \o SubSeq(waiters, i + 1, Len(waiters))
        ELSE waiters

(* duration_to_milliseconds_ceil and timeout_step.                         *)
MillisecondsCeil(d) ==
    IF d % UnitsPerMs = 0 THEN d \div UnitsPerMs ELSE d \div UnitsPerMs + 1

Step(remaining) == IF remaining > MaxStep THEN MaxStep ELSE remaining

(* timeout_result: an expired step is taken off what remains.              *)
Stepped(w) ==
    IF w.remaining \in {NoTimeout, 0} \/ w.timer # "fired" THEN w
    ELSE [w EXCEPT !.timer = "off", !.remaining = @ - w.armed, !.armed = 0]

(* arm_timeout.                                                            *)
Armed(w) ==
    IF w.remaining \in {NoTimeout, 0} \/ w.timer = "on" THEN w
    ELSE [w EXCEPT !.timer = "on", !.armed = Step(w.remaining)]

(* event_result: the bits of the event, before anything is awaited. An     *)
(* error or the end of the stream is an activation like any other.         *)
EventResult(ev) == IF ev.timedout THEN "Timeout"
                   ELSE IF ev.ready THEN "ready" ELSE None

Ends(w, x, ev, result) ==
    /\ wait' = [wait EXCEPT ![w] = Finished(x, "done", result, ev.timedout)]
    /\ event' = [event EXCEPT ![x.asked] =
                    [Restored(ev, x, FALSE) EXCEPT !.unseen = FALSE]]
    /\ waiters' = IF x.installed THEN Unregistered(w) ELSE waiters

(* install: refused while the event has a timer or a waiter; `registers`   *)
(* is the answer of ngx_handle_read_event or ngx_handle_write_event.       *)
Install(w, x, registers) ==
    LET e == x.asked
        taken == [x EXCEPT !.on = e, !.installed = TRUE, !.saved = event[e].handler]
        ev == [event[e] EXCEPT !.handler = "readiness"] IN
    IF event[e].timer_set THEN
        /\ wait' = [wait EXCEPT ![w] = Finished(x, "done", "TimerActive", FALSE)]
        /\ UNCHANGED <<event, waiters>>
    ELSE IF Registered(e) # {} THEN
        /\ wait' = [wait EXCEPT ![w] = Finished(x, "done", "AlreadyWaiting", FALSE)]
        /\ event' = [event EXCEPT ![e] = Restored(event[e], x, FALSE)]
        /\ UNCHANGED waiters
    ELSE IF ~registers THEN
        /\ wait' = [wait EXCEPT ![w] = Finished(x, "done", "EventRegistration", FALSE)]
        /\ event' = [event EXCEPT ![e] = Restored(ev, taken, FALSE)]
        /\ UNCHANGED waiters
    ELSE
        /\ wait' = [wait EXCEPT ![w] = Armed(taken)]
        /\ event' = [event EXCEPT ![e] = ev]
        /\ waiters' = <<w>> \o waiters

(* EventReadiness::poll. The connection is borrowed, so that parts() finds *)
(* it, and nothing runs between the two looks at the event.                *)
Awaiting(x) == [x EXCEPT !.delivered = FALSE, !.waker = TRUE, !.woken = FALSE]

Poll(w, registers) ==
    /\ wait[w].st = "waiting"
    /\ LET e == wait[w].asked
           x == Stepped(wait[w]) IN
       IF EventResult(event[e]) # None
         THEN Ends(w, wait[w], event[e], EventResult(event[e]))
       ELSE IF x.remaining = 0
         THEN Ends(w, x, event[e], "Timeout")
       ELSE IF ~x.installed
         THEN Install(w, Awaiting(x), registers)
       ELSE /\ wait' = [wait EXCEPT ![w] = Armed(Awaiting(x))]
            /\ event' = [event EXCEPT ![e].unseen = FALSE]
            /\ UNCHANGED waiters
    /\ UNCHANGED active

(* EventPeerConnection::readable, writable and their timeout forms.        *)
Create(w, e, t) ==
    /\ wait[w].st = "new"
    /\ wait' = [wait EXCEPT ![w] = [@ EXCEPT !.st = "waiting", !.asked = e,
                                             !.woken = TRUE, !.duration = t,
                  !.remaining = IF t = NoTimeout THEN t ELSE MillisecondsCeil(t)]]
    /\ UNCHANGED <<event, waiters, active>>

(* Dropping a wait that is not over; forgetting it leaves it registered.   *)
Drop(w) ==
    /\ wait[w].st = "waiting"
    /\ wait' = [wait EXCEPT ![w] = Finished(@, "dropped", None, FALSE)]
    /\ event' = [event EXCEPT ![wait[w].asked] = Restored(@, wait[w], TRUE)]
    /\ waiters' = IF wait[w].installed THEN Unregistered(w) ELSE waiters
    /\ UNCHANGED active

Forget(w) ==
    /\ wait[w].st = "waiting"
    /\ wait' = [wait EXCEPT ![w].st = "forgotten"]
    /\ UNCHANGED <<event, waiters, active>>

(* The timer of the wait and its callback.                                 *)
Fired(w) == [w EXCEPT !.timer = "fired", !.waker = FALSE, !.woken = @ \/ w.waker,
                      !.elapsed = @ + w.armed]

TimerFires(w) ==
    /\ wait[w].timer = "on"
    /\ wait' = [wait EXCEPT ![w] = Fired(wait[w])]
    /\ UNCHANGED <<event, waiters, active>>

(* The network activates an event, and nginx dispatches a posted one.      *)
Activate(e) ==
    /\ active[e] < MaxActive /\ ~event[e].ready
    /\ active' = [active EXCEPT ![e] = @ + 1]
    /\ Call(e, [event[e] EXCEPT !.ready = TRUE, !.unseen = TRUE])
    /\ UNCHANGED waiters

RunPosted(e) ==
    /\ event[e].posted
    /\ Call(e, [event[e] EXCEPT !.posted = FALSE])
    /\ UNCHANGED <<waiters, active>>

(* The module between waits: it reads, sets the event's own timer, which   *)
(* expires, and it replaces the handler, even one of a forgotten wait.     *)
Free(e) == \A w \in Waits : wait[w].asked = e => wait[w].st # "waiting"

Consume(e) ==
    /\ Free(e) /\ (event[e].ready \/ event[e].timedout)
    /\ event' = [event EXCEPT ![e].ready = FALSE, ![e].timedout = FALSE,
                              ![e].unseen = FALSE]
    /\ UNCHANGED <<wait, waiters, active>>

SetTimer(e) ==
    /\ Free(e) /\ ~event[e].timer_set /\ ~event[e].timedout
    /\ event' = [event EXCEPT ![e].timer_set = TRUE]
    /\ UNCHANGED <<wait, waiters, active>>

EventTimer(e) ==
    /\ event[e].timer_set
    /\ Call(e, [event[e] EXCEPT !.timer_set = FALSE, !.timedout = TRUE])
    /\ UNCHANGED <<waiters, active>>

ReplaceHandler(e) ==
    /\ Free(e) /\ event[e].handler = "readiness"
    /\ event' = [event EXCEPT ![e].handler = "module", ![e].unseen = FALSE]
    /\ UNCHANGED <<wait, waiters, active>>

Next ==
    \/ \E w \in Waits :
        \/ Drop(w) \/ Forget(w) \/ TimerFires(w)
        \/ \E registers \in BOOLEAN : Poll(w, registers)
        \/ \E e \in Events, t \in Timeouts \cup {NoTimeout} : Create(w, e, t)
    \/ \E e \in Events :
        \/ Activate(e) \/ RunPosted(e) \/ Consume(e) \/ SetTimer(e)
        \/ EventTimer(e) \/ ReplaceHandler(e)

Spec == Init /\ [][Next]_vars

(* Types; a timer is armed only by an installed wait with time left, and   *)
(* for no more than that or one step.                                      *)
TypeOK ==
    /\ \A w \in Waits :
        /\ wait[w].st \in {"new", "waiting", "done", "dropped", "forgotten"}
        /\ wait[w].timer \in {"off", "on", "fired"}
        /\ wait[w].timer # "off" =>
              wait[w].installed /\ wait[w].armed \in 1..MaxStep
        /\ wait[w].remaining \in {NoTimeout} \cup Nat
    /\ \A e \in Events : event[e].handler \in {"module", "readiness"}

(* EVENT_WAITERS has exactly the installed waits, each once, and no event  *)
(* has two, so readiness_handler cannot miss its waiter or tell another.   *)
ListExact ==
    /\ Range(waiters) = {w \in Waits : wait[w].installed}
    /\ \A i, j \in DOMAIN waiters :
          wait[waiters[i]].on = wait[waiters[j]].on => i = j

(* The borrowed handler is on an event only while a wait is registered for *)
(* it; when the last one ends the module's own handler is back.            *)
HandlerBorrowed ==
    \A e \in Events : event[e].handler = "readiness" =>
        \E w \in Waits : wait[w].installed /\ wait[w].on = e /\ wait[w].saved = "module"

(* No activation is lost: one that neither the module's handler nor a poll *)
(* has seen is with a woken wait, or posted to the module's handler.       *)
NoLostActivation ==
    \A e \in Events : event[e].unseen =>
        \/ event[e].posted
        \/ \E w \in Registered(e) : wait[w].delivered

(* A wait reports Timeout only when its event has timed out already, or    *)
(* when its own timers have measured all of the duration it was created    *)
(* with, rounded up to a millisecond and in as many steps as nginx's       *)
(* longest timer makes of it, and no more than that. One that was created  *)
(* without a duration has only the first reason.                           *)
TimeoutExact ==
    \A w \in Waits : wait[w].result = "Timeout" /\ ~wait[w].stale =>
        /\ wait[w].duration # NoTimeout
        /\ wait[w].elapsed * UnitsPerMs >= wait[w].duration
        /\ wait[w].elapsed * UnitsPerMs < wait[w].duration + UnitsPerMs

(* All of them.                                                            *)
WaitsExact == TypeOK /\ ListExact /\ HandlerBorrowed /\ NoLostActivation /\ TimeoutExact
=============================================================================
