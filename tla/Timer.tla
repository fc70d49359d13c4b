-------------------------------- MODULE Timer --------------------------------
(***************************************************************************)
(* Owned timers (src/src/event/timer.rs) on one event loop.  As for posted *)
(* events, the callback of a timer works on a copy of the event's flags,   *)
(* and may use or drop the owner of every timer.  Deadlines are left out   *)
(* (see Sleep): an armed timer may expire at any moment.                   *)
(***************************************************************************)
EXTENDS Naturals

CONSTANTS
    Timers,     \* the timers of one worker
    NoTimer,    \* no timer
    Reentrant   \* callbacks use the owner of their own timer (not only drop it)

TimersAssumption == NoTimer \notin Timers /\ Reentrant \in BOOLEAN

VARIABLES
    owner,          \* the Timer exists
    timerSet,       \* event.timer_set: it is in nginx's timer tree
    timedout,       \* event.timedout
    cancelable,     \* event.cancelable
    callbackAlive,  \* Timer::callback_alive is not null
    values,         \* where state and callback are
    destroyed,      \* how often they were destroyed
    active,         \* the timer whose handler runs
    control,        \* that handler's TimerCallbackControl
    alive,          \* that handler's `alive`
    delivered       \* expiries nginx delivered that nobody observed or discarded

event == <<owner, timerSet, timedout, cancelable, callbackAlive, values,
           destroyed>>
handler == <<active, control, alive>>
vars == <<event, handler, delivered>>

NoControl == [armed |-> FALSE, timedOut |-> FALSE, cancelable |-> FALSE,
              action |-> "None"]

TypeOK ==
    /\ owner \in [Timers -> BOOLEAN]
    /\ timerSet \in [Timers -> BOOLEAN]
    /\ timedout \in [Timers -> BOOLEAN]
    /\ cancelable \in [Timers -> BOOLEAN]
    /\ callbackAlive \in [Timers -> BOOLEAN]
    /\ values \in [Timers -> {"owner", "handler", "destroyed"}]
    /\ destroyed \in [Timers -> 0..1]
    /\ active \in Timers \cup {NoTimer}
    /\ control \in [armed: BOOLEAN, timedOut: BOOLEAN, cancelable: BOOLEAN,
                    action: {"None", "Cancel", "Rearm"}]
    /\ alive \in BOOLEAN
    /\ delivered \in [Timers -> BOOLEAN]

Init ==
    /\ owner = [t \in Timers |-> TRUE]
    /\ timerSet = [t \in Timers |-> FALSE]
    /\ timedout = [t \in Timers |-> FALSE]
    /\ cancelable = [t \in Timers |-> FALSE]
    /\ callbackAlive = [t \in Timers |-> FALSE]
    /\ values = [t \in Timers |-> "owner"]
    /\ destroyed = [t \in Timers |-> 0]
    /\ active = NoTimer /\ control = NoControl /\ alive = FALSE
    /\ delivered = [t \in Timers |-> FALSE]

-----------------------------------------------------------------------------
Usable(t) == owner[t] /\ (Reentrant \/ t # active)

\* An old expiry is discarded and nginx's timer added.
Start(t) ==
    /\ timerSet' = [timerSet EXCEPT ![t] = TRUE]
    /\ delivered' = [delivered EXCEPT ![t] = FALSE]
    /\ timedout' = [timedout EXCEPT ![t] = FALSE]

\* Timer::arm; an armed timer is an error.
Arm(t) ==
    /\ Usable(t) /\ ~timerSet[t]
    /\ Start(t)
    /\ UNCHANGED <<owner, cancelable, callbackAlive, values, destroyed, handler>>

\* Timer::rearm takes the timer out of the tree first.
Rearm(t) ==
    /\ Usable(t)
    /\ Start(t)
    /\ UNCHANGED <<owner, cancelable, callbackAlive, values, destroyed, handler>>

Cancel(t) ==
    /\ Usable(t) /\ timerSet[t]
    /\ timerSet' = [timerSet EXCEPT ![t] = FALSE]
    /\ UNCHANGED <<owner, timedout, cancelable, callbackAlive, values,
                   destroyed, handler, delivered>>

SetCancelable(t, b) ==
    /\ Usable(t)
    /\ cancelable' = [cancelable EXCEPT ![t] = b]
    /\ UNCHANGED <<owner, timerSet, timedout, callbackAlive, values, destroyed,
                   handler, delivered>>

TakeTimeout(t) ==
    /\ Usable(t) /\ timedout[t]
    /\ timedout' = [timedout EXCEPT ![t] = FALSE]
    /\ delivered' = [delivered EXCEPT ![t] = FALSE]
    /\ UNCHANGED <<owner, timerSet, cancelable, callbackAlive, values,
                   destroyed, handler>>

Destroy(t) ==
    /\ values' = [values EXCEPT ![t] = "destroyed"]
    /\ destroyed' = [destroyed EXCEPT ![t] = @ + 1]

\* Drop, by the owner or by a pool's cleanup.  A running handler is told, and
\* keeps the values.
Drop(t) ==
    /\ owner[t]
    /\ owner' = [owner EXCEPT ![t] = FALSE]
    /\ timerSet' = [timerSet EXCEPT ![t] = FALSE]
    /\ \/ callbackAlive[t] /\ alive' = FALSE /\ UNCHANGED <<values, destroyed>>
       \/ ~callbackAlive[t] /\ Destroy(t) /\ alive' = alive
    /\ UNCHANGED <<timedout, cancelable, callbackAlive, active, control,
                   delivered>>

-----------------------------------------------------------------------------
(***************************************************************************)
(* nginx's expiry and timer_handler.                                       *)
(***************************************************************************)
\* nginx takes the timer out of the tree, marks the expiry and calls the
\* handler, which takes the values out of the timer.
Expire(t) ==
    /\ active = NoTimer /\ timerSet[t]
    /\ timerSet' = [timerSet EXCEPT ![t] = FALSE]
    /\ timedout' = [timedout EXCEPT ![t] = TRUE]
    /\ delivered' = [delivered EXCEPT ![t] = TRUE]
    /\ active' = t
    /\ control' = [armed |-> FALSE, timedOut |-> TRUE,
                   cancelable |-> cancelable[t], action |-> "None"]
    /\ alive' = TRUE
    /\ callbackAlive' = [callbackAlive EXCEPT ![t] = TRUE]
    /\ values' = [values EXCEPT ![t] = "handler"]
    /\ UNCHANGED <<owner, cancelable, destroyed>>

CallbackTakeTimeout ==
    /\ active # NoTimer /\ control.timedOut
    /\ control' = [control EXCEPT !.timedOut = FALSE]
    /\ delivered' = [delivered EXCEPT ![active] = FALSE]
    /\ UNCHANGED <<event, active, alive>>

CallbackRearm ==
    /\ active # NoTimer
    /\ control' = [control EXCEPT !.armed = TRUE, !.timedOut = FALSE,
                                  !.action = "Rearm"]
    /\ delivered' = [delivered EXCEPT ![active] = FALSE]
    /\ UNCHANGED <<event, active, alive>>

CallbackCancel ==
    /\ active # NoTimer /\ control.armed
    /\ control' = [control EXCEPT !.armed = FALSE, !.action = "Cancel"]
    /\ UNCHANGED <<event, active, alive, delivered>>

CallbackSetCancelable(b) ==
    /\ active # NoTimer
    /\ control' = [control EXCEPT !.cancelable = b]
    /\ UNCHANGED <<event, active, alive, delivered>>

\* Mutant: the handler keeps callback_alive.
ApplyAlive ==
    /\ callbackAlive' = callbackAlive
    /\ values' = [values EXCEPT ![active] = "owner"]
    /\ timedout' = [timedout EXCEPT ![active] = control.timedOut]
    /\ cancelable' = [cancelable EXCEPT ![active] = control.cancelable]
    /\ timerSet' = [timerSet EXCEPT ![active] =
                       IF control.action = "None" THEN @
                       ELSE control.action = "Rearm"]

\* The handler's tail on a timer that still exists.
Apply ==
    /\ callbackAlive' = [callbackAlive EXCEPT ![active] = FALSE]
    /\ values' = [values EXCEPT ![active] = "owner"]
    /\ timedout' = [timedout EXCEPT ![active] = control.timedOut]
    /\ cancelable' = [cancelable EXCEPT ![active] = control.cancelable]
    /\ timerSet' = [timerSet EXCEPT ![active] =
                       IF control.action = "None" THEN @
                       ELSE control.action = "Rearm"]

\* The callback returns.
Return ==
    /\ active # NoTimer
    /\ \/ /\ ~alive
          /\ Destroy(active)
          /\ UNCHANGED <<callbackAlive, timedout, cancelable, timerSet>>
       \/ /\ alive
          /\ Apply
          /\ destroyed' = destroyed
    /\ active' = NoTimer /\ control' = NoControl /\ alive' = FALSE
    /\ UNCHANGED <<owner, delivered>>

Next ==
    \/ \E t \in Timers :
          \/ Arm(t) \/ Rearm(t) \/ Cancel(t) \/ TakeTimeout(t) \/ Drop(t)
          \/ \E b \in BOOLEAN : SetCancelable(t, b)
          \/ Expire(t)
    \/ CallbackTakeTimeout \/ CallbackRearm \/ CallbackCancel
    \/ \E b \in BOOLEAN : CallbackSetCancelable(b)
    \/ Return

Spec == Init /\ [][Next]_vars

-----------------------------------------------------------------------------
\* A timer that was dropped is not in the timer tree, so nginx never expires
\* freed memory, and its values were destroyed exactly once, not before its
\* handler returned.
DroppedIsGone ==
    \A t \in Timers :
        /\ ~owner[t] => ~timerSet[t]
        /\ destroyed[t] = IF owner[t] \/ t = active THEN 0 ELSE 1
        /\ t = active => values[t] = "handler"

\* What a timer is to an owned callback.
State ==
    [t \in Timers |-> IF ~owner[t] THEN "dropped"
                      ELSE IF timerSet[t] THEN "armed" ELSE "idle"]

Abstract == INSTANCE OwnedCallback
            WITH Events <- Timers, NoEvent <- NoTimer, state <- State

\* A timer keeps the promises of an owned callback: every step of owner,
\* callback and handler is one of its steps.
ImplementsOwnedCallback == Abstract!Spec

\* What the documentation of is_timed_out says: "Returns whether nginx has
\* delivered an expiry that has not yet been observed."  Outside the callback
\* the flag says exactly that, and arming discards what it said before.
TimedOutIsUnobserved ==
    \A t \in Timers :
        owner[t] /\ t # active =>
            /\ timedout[t] = delivered[t]
            /\ timerSet[t] => ~timedout[t]

\* What holds of timers in every state; the flag says what is_timed_out
\* documents when callbacks use their own timer through the control only.
TimersExact == TypeOK /\ DroppedIsGone /\ (~Reentrant => TimedOutIsUnobserved)
=============================================================================
