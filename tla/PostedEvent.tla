----------------------------- MODULE PostedEvent -----------------------------
(***************************************************************************)
(* Owned posted events (src/src/event/posted.rs) on one event loop.        *)
(*                                                                         *)
(* While the handler of an event runs, the event's state and callback live *)
(* on the handler's stack, and the callback acts on a copy of the event's  *)
(* flags (`control`) that is written back when it returns.  A callback is  *)
(* module code: it may use or drop the owner of every event, and of its    *)
(* own event too.                                                          *)
(***************************************************************************)
EXTENDS Naturals

CONSTANTS
    Events,     \* the events of one worker
    NoEvent,    \* no event
    Reentrant   \* callbacks post, cancel and shut down their own event's owner

ASSUME EventsAssumption == NoEvent \notin Events /\ Reentrant \in BOOLEAN

VARIABLES
    owner,          \* the PostedEvent exists
    posted,         \* the nginx queue the event is on
    stopped,        \* PostedEvent::stopped
    callbackAlive,  \* PostedEvent::callback_alive is not null
    values,         \* where state and callback are
    destroyed,      \* how often they were destroyed
    active,         \* the event whose handler runs
    control,        \* that handler's PostedEventCallbackControl
    alive,          \* that handler's `alive`
    shut            \* shutdown was called, by the owner or by the callback

event == <<owner, posted, stopped, callbackAlive, values, destroyed>>
handler == <<active, control, alive>>
vars == <<event, handler, shut>>

Queues == {"Normal", "Next"}
Actions == {"None", "Cancel"} \cup Queues
NoControl == [posted |-> FALSE, stopped |-> FALSE, action |-> "None"]

TypeOK ==
    /\ owner \in [Events -> BOOLEAN]
    /\ posted \in [Events -> {"none"} \cup Queues]
    /\ stopped \in [Events -> BOOLEAN]
    /\ callbackAlive \in [Events -> BOOLEAN]
    /\ values \in [Events -> {"owner", "handler", "destroyed"}]
    /\ destroyed \in [Events -> 0..1]
    /\ active \in Events \cup {NoEvent}
    /\ control \in [posted: BOOLEAN, stopped: BOOLEAN, action: Actions]
    /\ alive \in BOOLEAN
    /\ shut \in [Events -> BOOLEAN]

\* PostedEvent::new for every event.
Init ==
    /\ owner = [e \in Events |-> TRUE]
    /\ posted = [e \in Events |-> "none"]
    /\ stopped = [e \in Events |-> FALSE]
    /\ callbackAlive = [e \in Events |-> FALSE]
    /\ values = [e \in Events |-> "owner"]
    /\ destroyed = [e \in Events |-> 0]
    /\ active = NoEvent /\ control = NoControl /\ alive = FALSE
    /\ shut = [e \in Events |-> FALSE]

-----------------------------------------------------------------------------
(***************************************************************************)
(* The owner, in the loop or inside a callback.                            *)
(***************************************************************************)
Usable(e) == owner[e] /\ (Reentrant \/ e # active)

\* The queue post_owned_event leaves an event on.
PostOwned(e, stop, q) ==
    IF stop \/ posted[e] # "none" THEN posted[e] ELSE q

Post(e, q) ==
    /\ Usable(e)
    /\ posted' = [posted EXCEPT ![e] = PostOwned(e, stopped[e], q)]
    /\ UNCHANGED <<owner, stopped, callbackAlive, values, destroyed, handler,
                   shut>>

\* cancel_owned_event.
CancelOwned(e) == posted' = [posted EXCEPT ![e] = "none"]

Cancel(e) ==
    /\ Usable(e)
    /\ CancelOwned(e)
    /\ UNCHANGED <<owner, stopped, callbackAlive, values, destroyed, handler,
                   shut>>

Shutdown(e) ==
    /\ Usable(e)
    /\ stopped' = [stopped EXCEPT ![e] = TRUE]
    /\ CancelOwned(e)
    /\ shut' = [shut EXCEPT ![e] = TRUE]
    /\ UNCHANGED <<owner, callbackAlive, values, destroyed, handler>>

Destroy(e) ==
    /\ values' = [values EXCEPT ![e] = "destroyed"]
    /\ destroyed' = [destroyed EXCEPT ![e] = @ + 1]

\* Drop, by the owner or by a pool's cleanup.  A running handler is told,
\* and keeps the values.
Drop(e) ==
    /\ owner[e]
    /\ owner' = [owner EXCEPT ![e] = FALSE]
    /\ CancelOwned(e)
    /\ \/ callbackAlive[e] /\ alive' = FALSE /\ UNCHANGED <<values, destroyed>>
       \/ ~callbackAlive[e] /\ Destroy(e) /\ alive' = alive
    /\ UNCHANGED <<stopped, callbackAlive, active, control, shut>>

-----------------------------------------------------------------------------
(***************************************************************************)
(* nginx's posted queues and posted_event_handler.                         *)
(***************************************************************************)
\* At the next cycle the events of the next queue join the normal one.
MovePostedNext ==
    /\ active = NoEvent
    /\ \E e \in Events : posted[e] = "Next"
    /\ posted' = [e \in Events |->
                     IF posted[e] = "Next" THEN "Normal" ELSE posted[e]]
    /\ UNCHANGED <<owner, stopped, callbackAlive, values, destroyed, handler,
                   shut>>

\* nginx takes the event off the queue and calls its handler, which takes the
\* values out of the event.
Dispatch(e) ==
    /\ active = NoEvent /\ posted[e] = "Normal"
    /\ CancelOwned(e)
    /\ active' = e
    /\ control' = [posted |-> FALSE, stopped |-> stopped[e], action |-> "None"]
    /\ alive' = TRUE
    /\ callbackAlive' = [callbackAlive EXCEPT ![e] = TRUE]
    /\ values' = [values EXCEPT ![e] = "handler"]
    /\ UNCHANGED <<owner, stopped, destroyed, shut>>

\* PostedEventCallback::post.
CallbackPost(q) ==
    /\ active # NoEvent
    /\ ~control.stopped /\ ~control.posted
    /\ control' = [control EXCEPT !.posted = TRUE, !.action = q]
    /\ UNCHANGED <<event, active, alive, shut>>

\* What PostedEventCallback::cancel makes of a control.
Canceled(c) ==
    IF c.posted THEN [c EXCEPT !.posted = FALSE, !.action = "Cancel"] ELSE c

CallbackCancel ==
    /\ active # NoEvent
    /\ control' = Canceled(control)
    /\ UNCHANGED <<event, active, alive, shut>>

CallbackShutdown ==
    /\ active # NoEvent
    /\ control' = Canceled([control EXCEPT !.stopped = TRUE])
    /\ shut' = [shut EXCEPT ![active] = TRUE]
    /\ UNCHANGED <<event, active, alive>>

\* The handler's tail on an event that still exists: flags and request.
Apply ==
    /\ stopped' = [stopped EXCEPT ![active] = control.stopped]
    /\ posted' = [posted EXCEPT ![active] =
                     IF control.action = "None" THEN @
                     ELSE IF control.action = "Cancel" THEN "none"
                     ELSE PostOwned(active, control.stopped, control.action)]

\* Mutant: the handler does not look at `alive`.
ReturnBlindly ==
    /\ active # NoEvent
    /\ callbackAlive' = [callbackAlive EXCEPT ![active] = FALSE]
    /\ values' = [values EXCEPT ![active] = "owner"]
    /\ Apply
    /\ destroyed' = destroyed
    /\ active' = NoEvent /\ control' = NoControl /\ alive' = FALSE
    /\ UNCHANGED <<owner, shut>>

\* The callback returns.
Return ==
    /\ active # NoEvent
    /\ \/ /\ ~alive
          /\ Destroy(active)
          /\ UNCHANGED <<callbackAlive, stopped, posted>>
       \/ /\ alive
          /\ callbackAlive' = [callbackAlive EXCEPT ![active] = FALSE]
          /\ values' = [values EXCEPT ![active] = "owner"]
          /\ Apply
          /\ destroyed' = destroyed
    /\ active' = NoEvent /\ control' = NoControl /\ alive' = FALSE
    /\ UNCHANGED <<owner, shut>>

Next ==
    \/ \E e \in Events :
          \/ \E q \in Queues : Post(e, q)
          \/ Cancel(e) \/ Shutdown(e) \/ Drop(e) \/ Dispatch(e)
    \/ \E q \in Queues : CallbackPost(q)
    \/ CallbackCancel \/ CallbackShutdown \/ Return \/ MovePostedNext

Spec == Init /\ [][Next]_vars

-----------------------------------------------------------------------------
\* An event that was dropped is on no queue, so nginx never calls into freed
\* memory, and its values were destroyed exactly once, not before its handler
\* returned.
DroppedIsGone ==
    \A e \in Events :
        /\ ~owner[e] => posted[e] = "none"
        /\ destroyed[e] = IF owner[e] \/ e = active THEN 0 ELSE 1
        /\ e = active => values[e] = "handler"

\* What an event is to an owned callback.
State ==
    [e \in Events |-> IF ~owner[e] THEN "dropped"
                      ELSE IF posted[e] = "none" THEN "idle" ELSE "armed"]

Abstract == INSTANCE OwnedCallback WITH state <- State

\* A posted event keeps the promises of an owned callback: every step of owner,
\* callback and handler is one of its steps.
ImplementsOwnedCallback == Abstract!Spec

\* What the documentation of both shutdown methods says: "Permanently stops
\* this event and cancels a pending queue entry."  Once the callback is over,
\* an event that was shut down stays stopped and is not queued.
ShutdownIsPermanent ==
    \A e \in Events :
        shut[e] /\ owner[e] /\ e # active => stopped[e] /\ posted[e] = "none"
=============================================================================
