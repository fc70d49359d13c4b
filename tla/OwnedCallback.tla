---------------------------- MODULE OwnedCallback ----------------------------
(***************************************************************************)
(* What an owned event (PostedEvent, Timer) promises the code that owns    *)
(* it and the event loop that calls it.  The owner may arm, disarm and     *)
(* drop an event at any moment, even inside the event's own callback.  The *)
(* loop calls only an armed event, never one that was dropped, and the     *)
(* event's values (its state and callback) stay usable for the whole       *)
(* callback and are destroyed once.                                        *)
(***************************************************************************)
CONSTANTS Events, NoEvent

VARIABLES
    state,   \* idle, armed or dropped
    active,  \* the event whose callback runs
    values   \* where an event's values are: owner, handler or destroyed

cvars == <<state, active, values>>

Init ==
    /\ state = [e \in Events |-> "idle"]
    /\ active = NoEvent
    /\ values = [e \in Events |-> "owner"]

Arm(e) ==
    /\ state[e] = "idle"
    /\ state' = [state EXCEPT ![e] = "armed"]
    /\ UNCHANGED <<active, values>>

Disarm(e) ==
    /\ state[e] = "armed"
    /\ state' = [state EXCEPT ![e] = "idle"]
    /\ UNCHANGED <<active, values>>

Drop(e) ==
    /\ state[e] # "dropped"
    /\ state' = [state EXCEPT ![e] = "dropped"]
    /\ values' = IF e = active THEN values
                 ELSE [values EXCEPT ![e] = "destroyed"]
    /\ active' = active

Call(e) ==
    /\ active = NoEvent /\ state[e] = "armed"
    /\ state' = [state EXCEPT ![e] = "idle"]
    /\ active' = e
    /\ values' = [values EXCEPT ![e] = "handler"]

\* The callback's own request takes effect when it returns.
Return ==
    /\ active # NoEvent
    /\ active' = NoEvent
    /\ \/ /\ state[active] = "dropped"
          /\ values' = [values EXCEPT ![active] = "destroyed"]
          /\ state' = state
       \/ /\ state[active] # "dropped"
          /\ values' = [values EXCEPT ![active] = "owner"]
          /\ \E s \in {"idle", "armed"} : state' = [state EXCEPT ![active] = s]

Next ==
    \/ \E e \in Events : Arm(e) \/ Disarm(e) \/ Drop(e) \/ Call(e)
    \/ Return

Spec == Init /\ [][Next]_cvars
=============================================================================
