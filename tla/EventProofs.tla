----------------------------- MODULE EventProofs -----------------------------
(***************************************************************************)
(* Posted events and timers are owned callbacks, for any number of events  *)
(* and timers and with callbacks that use and drop any owner; and event    *)
(* peers own their connections, for any number of peers and connections.   *)
(***************************************************************************)
EXTENDS PostedEvent, TLAPS

\* The handler and the event agree: callback_alive points to the running
\* handler, whose `alive` says whether the event still exists, and the values
\* are where the destructor expects them.
HandlerInv ==
    /\ alive <=> \E e \in Events : e = active /\ owner[e]
    /\ \A e \in Events :
          /\ owner[e] => (callbackAlive[e] <=> e = active)
          /\ e # active => values[e] = IF owner[e] THEN "owner" ELSE "destroyed"

\* The inductive invariant.
IInv == TypeOK /\ DroppedIsGone /\ HandlerInv

\* The invariant holds of new events.
LEMMA InitHolds == Init => IInv
<1> SUFFICES ASSUME Init PROVE IInv
  OBVIOUS
<1>1. TypeOK
  <2>1. control \in [posted: BOOLEAN, stopped: BOOLEAN, action: Actions]
    BY DEF Init, NoControl, Actions
  <2>2. alive \in BOOLEAN
    BY Zenon DEF Init
  <2> QED
    BY <2>1, <2>2 DEF Init, TypeOK
<1>2. DroppedIsGone /\ HandlerInv
  BY EventsAssumption DEF Init, DroppedIsGone, HandlerInv
<1> QED
  BY <1>1, <1>2 DEF IInv

\* Every step of owner, callback, handler and nginx preserves it.
LEMMA StepHolds == IInv /\ [Next]_vars => IInv'
<1> SUFFICES ASSUME IInv, [Next]_vars PROVE IInv'
  OBVIOUS
<1> USE EventsAssumption DEF IInv, TypeOK, DroppedIsGone, HandlerInv, Queues
<1>1. ASSUME NEW e \in Events, NEW q \in Queues, Post(e, q) PROVE IInv'
  BY <1>1 DEF Post, PostOwned, Usable, handler
<1>2. ASSUME NEW e \in Events, Cancel(e) PROVE IInv'
  BY <1>2 DEF Cancel, CancelOwned, Usable, handler
<1>3. ASSUME NEW e \in Events, Shutdown(e) PROVE IInv'
  BY <1>3 DEF Shutdown, CancelOwned, Usable, handler
<1>4. ASSUME NEW e \in Events, Drop(e) PROVE IInv'
  <2>1. CASE callbackAlive[e]
    <3>1. /\ owner[e] /\ e = active
          /\ owner' = [owner EXCEPT ![e] = FALSE]
          /\ posted' = [posted EXCEPT ![e] = "none"]
          /\ alive' = FALSE
          /\ UNCHANGED <<values, destroyed, stopped, callbackAlive, active,
                         control, shut>>
      BY <1>4, <2>1 DEF Drop, CancelOwned
    <3>2. TypeOK'
      BY Zenon, <3>1
    <3>3. DroppedIsGone'
      BY <3>1
    <3>4. HandlerInv'
      BY <3>1
    <3> QED
      BY <3>2, <3>3, <3>4
  <2>2. CASE ~callbackAlive[e]
    <3>1. /\ owner[e] /\ e # active
          /\ owner' = [owner EXCEPT ![e] = FALSE]
          /\ posted' = [posted EXCEPT ![e] = "none"]
          /\ values' = [values EXCEPT ![e] = "destroyed"]
          /\ destroyed' = [destroyed EXCEPT ![e] = 1]
          /\ UNCHANGED <<alive, stopped, callbackAlive, active, control, shut>>
      BY <1>4, <2>2 DEF Drop, CancelOwned, Destroy
    <3>2. TypeOK'
      BY <3>1
    <3>3. DroppedIsGone'
      BY <3>1
    <3>4. HandlerInv'
      BY <3>1
    <3> QED
      BY <3>2, <3>3, <3>4
  <2> QED
    BY <2>1, <2>2
<1>5. ASSUME NEW e \in Events, Dispatch(e) PROVE IInv'
  BY <1>5 DEF Dispatch, CancelOwned, Actions
<1>6. ASSUME NEW q \in Queues, CallbackPost(q) PROVE IInv'
  BY Zenon, <1>6 DEF CallbackPost, event, Actions
<1>7. ASSUME CallbackCancel PROVE IInv'
  BY Zenon, <1>7 DEF CallbackCancel, Canceled, event, Actions
<1>8. ASSUME CallbackShutdown PROVE IInv'
  BY Zenon, <1>8 DEF CallbackShutdown, Canceled, event, Actions
<1>9. ASSUME Return PROVE IInv'
  <2>1. active \in Events /\ active' \notin Events
    BY <1>9 DEF Return
  <2>2. control' \in [posted: BOOLEAN, stopped: BOOLEAN, action: Actions]
    BY <1>9 DEF Return, NoControl, Actions
  <2>3. CASE ~alive
    <3>1. ~owner[active]
      BY <2>1, <2>3
    <3>2. /\ values' = [values EXCEPT ![active] = "destroyed"]
          /\ destroyed' = [destroyed EXCEPT ![active] = 1]
          /\ active' = NoEvent /\ alive' = FALSE
          /\ UNCHANGED <<owner, posted, stopped, callbackAlive, shut>>
      BY <1>9, <2>1, <2>3 DEF Return, Destroy
    <3>3. TypeOK'
      <4>1. destroyed' \in [Events -> 0..1]
        BY <3>2, 1 \in 0..1
      <4>2. alive' \in BOOLEAN
        BY Zenon, <3>2
      <4> QED
        BY <2>2, <3>2, <4>1, <4>2
    <3>4. DroppedIsGone' /\ HandlerInv'
      BY <2>1, <3>1, <3>2
    <3> QED
      BY <3>3, <3>4
  <2>4. CASE alive
    <3>1. owner[active]
      BY <2>1, <2>4
    <3>2. PICK q \in {"none"} \cup Queues :
             posted' = [posted EXCEPT ![active] = q]
      BY <1>9, <2>1, <2>4 DEF Return, Apply, PostOwned, Actions
    <3>3. /\ callbackAlive' = [callbackAlive EXCEPT ![active] = FALSE]
          /\ values' = [values EXCEPT ![active] = "owner"]
          /\ stopped' = [stopped EXCEPT ![active] = control.stopped]
          /\ active' = NoEvent /\ alive' = FALSE
          /\ UNCHANGED <<owner, destroyed, shut>>
      BY <1>9, <2>4 DEF Return, Apply
    <3>4. TypeOK'
      BY Zenon, <2>1, <2>2, <3>2, <3>3
    <3>5. DroppedIsGone' /\ HandlerInv'
      BY <2>1, <3>1, <3>2, <3>3
    <3> QED
      BY <3>4, <3>5
  <2> QED
    BY <2>3, <2>4
<1>10. ASSUME MovePostedNext PROVE IInv'
  BY <1>10 DEF MovePostedNext, handler
<1>11. CASE UNCHANGED vars
  BY <1>11 DEF vars, event, handler
<1> HIDE DEF IInv, Queues
<1> QED
  BY <1>1, <1>2, <1>3, <1>4, <1>5, <1>6, <1>7, <1>8, <1>9, <1>10, <1>11
  DEF Next

\* IInv holds in every state that events and handlers reach.
LEMMA Invariant == Spec => []IInv
BY InitHolds, StepHolds, PTL DEF Spec

\* For any number of events, and with callbacks that use and drop any owner,
\* nginx never calls an event that was dropped, and the values of an event live
\* through its callback and are destroyed once.
THEOREM DroppedAlwaysGone == Spec => []DroppedIsGone
<1>1. IInv => DroppedIsGone
  BY DEF IInv
<1> QED
  BY <1>1, Invariant, PTL

\* Every step of owner, callback, handler and nginx is a step of an owned
\* callback, or does not concern it.
LEMMA StepRefines ==
    IInv /\ [Next]_vars => [Abstract!Next]_<<State, active, values>>
<1> SUFFICES ASSUME IInv, [Next]_vars
             PROVE  Abstract!Next \/ UNCHANGED <<State, active, values>>
  OBVIOUS
<1> USE EventsAssumption DEF IInv, TypeOK, HandlerInv, Queues
<1>1. ASSUME NEW e \in Events, NEW q \in Queues, Post(e, q)
      PROVE  Abstract!Arm(e) \/ UNCHANGED <<State, active, values>>
  BY ZenonT(30), <1>1 DEF Post, PostOwned, Usable, handler, State, Abstract!Arm
<1>2. ASSUME NEW e \in Events, Cancel(e) \/ Shutdown(e)
      PROVE  Abstract!Disarm(e) \/ UNCHANGED <<State, active, values>>
  <2>1. /\ owner' = owner /\ posted' = [posted EXCEPT ![e] = "none"]
        /\ UNCHANGED <<active, values>>
    BY <1>2 DEF Cancel, Shutdown, CancelOwned, handler
  <2>2. CASE owner[e] /\ posted[e] # "none"
    BY ZenonT(30), <2>1, <2>2 DEF State, Abstract!Disarm
  <2>3. CASE ~owner[e] \/ posted[e] = "none"
    BY <2>1, <2>3 DEF State
  <2> QED
    BY <2>2, <2>3
<1>3. ASSUME NEW e \in Events, Drop(e) PROVE Abstract!Drop(e)
  BY Zenon, <1>3 DEF Drop, CancelOwned, Destroy, State, Abstract!Drop
<1>4. ASSUME NEW e \in Events, Dispatch(e) PROVE Abstract!Call(e)
  BY Zenon, <1>4 DEF Dispatch, CancelOwned, DroppedIsGone, State, Abstract!Call
<1>5. ASSUME Return PROVE Abstract!Return
  <2>1. active \in Events /\ active # NoEvent /\ active' = NoEvent
    BY <1>5 DEF Return
  <2>2. CASE ~alive
    <3>1. State[active] = "dropped"
      BY <2>1, <2>2 DEF State
    <3>2. /\ State' = State
          /\ values' = [values EXCEPT ![active] = "destroyed"]
      BY <1>5, <2>2 DEF Return, Destroy, State
    <3> QED
      BY <2>1, <3>1, <3>2 DEF Abstract!Return
  <2>3. CASE alive
    <3>1. State[active] # "dropped" /\ owner[active]
      BY <2>1, <2>3 DEF State
    <3>2. PICK q \in {"none"} \cup Queues :
             posted' = [posted EXCEPT ![active] = q]
      BY <1>5, <2>1, <2>3 DEF Return, Apply, PostOwned, Actions
    <3>3. owner' = owner /\ values' = [values EXCEPT ![active] = "owner"]
      BY <1>5, <2>3 DEF Return, Apply
    <3>4. \E s \in {"idle", "armed"} : State' = [State EXCEPT ![active] = s]
      <4>1. CASE q = "none"
        <5>1. State' = [State EXCEPT ![active] = "idle"]
          BY Zenon, <2>1, <3>1, <3>2, <3>3, <4>1 DEF State
        <5> QED
          BY <5>1
      <4>2. CASE q # "none"
        <5>1. State' = [State EXCEPT ![active] = "armed"]
          BY Zenon, <2>1, <3>1, <3>2, <3>3, <4>2 DEF State
        <5> QED
          BY <5>1
      <4> QED
        BY <4>1, <4>2
    <3> QED
      BY Zenon, <2>1, <3>1, <3>3, <3>4 DEF Abstract!Return
  <2> QED
    BY <2>2, <2>3
<1>6. ASSUME \/ \E q \in Queues : CallbackPost(q)
             \/ CallbackCancel \/ CallbackShutdown \/ UNCHANGED vars
      PROVE  UNCHANGED <<State, active, values>>
  BY <1>6 DEF CallbackPost, CallbackCancel, CallbackShutdown, vars, event,
              handler, State
<1>7. ASSUME MovePostedNext PROVE UNCHANGED <<State, active, values>>
  BY <1>7 DEF MovePostedNext, handler, State
<1> HIDE DEF IInv, Queues
<1> QED
  BY <1>1, <1>2, <1>3, <1>4, <1>5, <1>6, <1>7 DEF Next, Abstract!Next

\* A posted event implements an owned callback.
THEOREM Refinement == Spec => ImplementsOwnedCallback
<1>1. Init => Abstract!Init
  BY DEF Init, Abstract!Init, State
<1> QED
  BY <1>1, Invariant, StepRefines, PTL
  DEF Spec, ImplementsOwnedCallback, Abstract!Spec, Abstract!cvars

-----------------------------------------------------------------------------
(***************************************************************************)
(* Timers.  The names of the variables a timer shares with a posted event  *)
(* are PostedEvent's.                                                      *)
(***************************************************************************)
CONSTANTS Timers, NoTimer
VARIABLES timerSet, timedout, cancelable, delivered

Timer == INSTANCE Timer

\* The timer and its running handler agree, as for a posted event.
TimerHandlerInv ==
    /\ alive <=> \E t \in Timers : t = active /\ owner[t]
    /\ \A t \in Timers :
          /\ owner[t] => (callbackAlive[t] <=> t = active)
          /\ t # active => values[t] = IF owner[t] THEN "owner" ELSE "destroyed"

\* While the callback runs, its control knows of the expiry what the event's
\* flag says afterwards, and only the control can arm the timer.
ControlInv ==
    ~Reentrant => \A t \in Timers : t = active /\ owner[t] =>
        /\ control.timedOut = delivered[t]
        /\ control.action = "Rearm" => ~control.timedOut
        /\ ~timerSet[t]

\* The inductive invariant of timers.
TimerInv == Timer!TimersExact /\ TimerHandlerInv /\ ControlInv

\* The invariant holds of new timers.
LEMMA TimerInitHolds == Timer!TimersAssumption /\ Timer!Init => TimerInv
<1> SUFFICES ASSUME Timer!TimersAssumption, Timer!Init PROVE TimerInv
  OBVIOUS
<1> USE DEF Timer!TimersAssumption, Timer!Init
<1>1. control \in [armed: BOOLEAN, timedOut: BOOLEAN, cancelable: BOOLEAN,
                   action: {"None", "Cancel", "Rearm"}]
  BY DEF Timer!NoControl
<1>2. alive \in BOOLEAN
  OBVIOUS
<1>3. Timer!TypeOK
  BY <1>1, <1>2 DEF Timer!TypeOK
<1>4. Timer!DroppedIsGone /\ Timer!TimedOutIsUnobserved
  BY DEF Timer!DroppedIsGone, Timer!TimedOutIsUnobserved
<1>5. TimerHandlerInv /\ ControlInv
  BY Zenon DEF TimerHandlerInv, ControlInv
<1> QED
  BY <1>3, <1>4, <1>5 DEF TimerInv, Timer!TimersExact

\* Every step of owner, callback, handler and nginx preserves it.
LEMMA TimerStepHolds ==
    Timer!TimersAssumption /\ TimerInv /\ [Timer!Next]_Timer!vars => TimerInv'
<1> SUFFICES ASSUME Timer!TimersAssumption, TimerInv, [Timer!Next]_Timer!vars
             PROVE  TimerInv'
  OBVIOUS
<1> USE DEF Timer!TimersAssumption, TimerInv, Timer!TimersExact, Timer!TypeOK,
            Timer!DroppedIsGone, Timer!TimedOutIsUnobserved, TimerHandlerInv,
            ControlInv
<1>1. ASSUME NEW t \in Timers, Timer!Arm(t) \/ Timer!Rearm(t) PROVE TimerInv'
  <2>1. /\ owner[t] /\ (Reentrant \/ t # active)
        /\ timerSet' = [timerSet EXCEPT ![t] = TRUE]
        /\ delivered' = [delivered EXCEPT ![t] = FALSE]
        /\ timedout' = [timedout EXCEPT ![t] = FALSE]
        /\ UNCHANGED <<owner, cancelable, callbackAlive, values, destroyed,
                       active, control, alive>>
    BY <1>1 DEF Timer!Arm, Timer!Rearm, Timer!Start, Timer!Usable, Timer!handler
  <2>2. Timer!TypeOK'
    BY <2>1
  <2>3. Timer!DroppedIsGone' /\ TimerHandlerInv' /\ ControlInv'
    BY <2>1
  <2>4. ~Reentrant => Timer!TimedOutIsUnobserved'
    BY ZenonT(30), <2>1
  <2> QED
    BY <2>2, <2>3, <2>4
<1>2. ASSUME NEW t \in Timers, Timer!Cancel(t) PROVE TimerInv'
  BY <1>2 DEF Timer!Cancel, Timer!Usable, Timer!handler
<1>3. ASSUME NEW t \in Timers, NEW b \in BOOLEAN, Timer!SetCancelable(t, b)
      PROVE  TimerInv'
  BY <1>3 DEF Timer!SetCancelable, Timer!handler
<1>4. ASSUME NEW t \in Timers, Timer!TakeTimeout(t) PROVE TimerInv'
  BY ZenonT(30), <1>4 DEF Timer!TakeTimeout, Timer!Usable, Timer!handler
<1>5. ASSUME NEW t \in Timers, Timer!Drop(t) PROVE TimerInv'
  <2>1. /\ owner[t]
        /\ owner' = [owner EXCEPT ![t] = FALSE]
        /\ timerSet' = [timerSet EXCEPT ![t] = FALSE]
        /\ UNCHANGED <<timedout, cancelable, callbackAlive, active, control,
                       delivered>>
    BY <1>5 DEF Timer!Drop
  <2>2. CASE callbackAlive[t]
    <3>1. t = active /\ alive' = FALSE /\ UNCHANGED <<values, destroyed>>
      BY <1>5, <2>2 DEF Timer!Drop
    <3> QED
      BY ZenonT(30), <2>1, <3>1
  <2>3. CASE ~callbackAlive[t]
    <3>1. /\ t # active /\ alive' = alive
          /\ values' = [values EXCEPT ![t] = "destroyed"]
          /\ destroyed' = [destroyed EXCEPT ![t] = 1]
      BY <1>5, <2>3 DEF Timer!Drop, Timer!Destroy
    <3> QED
      BY <2>1, <3>1
  <2> QED
    BY <2>2, <2>3
<1>6. ASSUME NEW t \in Timers, Timer!Expire(t) PROVE TimerInv'
  BY <1>6 DEF Timer!Expire
<1>7. ASSUME Timer!CallbackTakeTimeout PROVE TimerInv'
  BY ZenonT(30), <1>7 DEF Timer!CallbackTakeTimeout, Timer!event
<1>8. ASSUME Timer!CallbackRearm PROVE TimerInv'
  BY ZenonT(30), <1>8 DEF Timer!CallbackRearm, Timer!event
<1>9. ASSUME Timer!CallbackCancel PROVE TimerInv'
  BY Zenon, <1>9 DEF Timer!CallbackCancel, Timer!event
<1>10. ASSUME NEW b \in BOOLEAN, Timer!CallbackSetCancelable(b) PROVE TimerInv'
  BY <1>10 DEF Timer!CallbackSetCancelable, Timer!event
<1>11. ASSUME Timer!Return PROVE TimerInv'
  <2>1. active \in Timers /\ active' \notin Timers /\ active' = NoTimer
    BY <1>11 DEF Timer!Return
  <2>2. control' \in [armed: BOOLEAN, timedOut: BOOLEAN, cancelable: BOOLEAN,
                      action: {"None", "Cancel", "Rearm"}]
    BY <1>11 DEF Timer!Return, Timer!NoControl
  <2>3. alive' \in BOOLEAN /\ alive' = FALSE
    BY Zenon, <1>11 DEF Timer!Return
  <2>4. CASE ~alive
    <3>1. ~owner[active]
      BY <2>1, <2>4
    <3>2. /\ values' = [values EXCEPT ![active] = "destroyed"]
          /\ destroyed' = [destroyed EXCEPT ![active] = 1]
          /\ UNCHANGED <<owner, callbackAlive, timedout, cancelable, timerSet,
                         delivered>>
      BY <1>11, <2>1, <2>4 DEF Timer!Return, Timer!Destroy
    <3>3. destroyed' \in [Timers -> 0..1]
      BY <3>2, 1 \in 0..1
    <3> QED
      BY <2>1, <2>2, <2>3, <3>1, <3>2, <3>3
  <2>5. CASE alive
    <3>1. owner[active]
      BY <2>1, <2>5
    <3> DEFINE set == IF control.action = "None" THEN timerSet[active]
                      ELSE control.action = "Rearm"
    <3>2. set \in BOOLEAN /\ timerSet' = [timerSet EXCEPT ![active] = set]
      BY Zenon, <1>11, <2>1, <2>5 DEF Timer!Return, Timer!Apply
    <3>3. /\ callbackAlive' = [callbackAlive EXCEPT ![active] = FALSE]
          /\ values' = [values EXCEPT ![active] = "owner"]
          /\ timedout' = [timedout EXCEPT ![active] = control.timedOut]
          /\ cancelable' = [cancelable EXCEPT ![active] = control.cancelable]
          /\ UNCHANGED <<owner, destroyed, delivered>>
      BY <1>11, <2>5 DEF Timer!Return, Timer!Apply
    <3>4. Timer!TypeOK'
      BY <2>1, <2>2, <2>3, <3>2, <3>3
    <3>5. Timer!DroppedIsGone' /\ TimerHandlerInv' /\ ControlInv'
      BY <2>1, <2>3, <3>1, <3>2, <3>3
    <3>6. ~Reentrant => Timer!TimedOutIsUnobserved'
      BY <2>1, <3>1, <3>2, <3>3
    <3> QED
      BY <3>4, <3>5, <3>6
  <2> QED
    BY <2>4, <2>5
<1>12. CASE UNCHANGED Timer!vars
  BY <1>12 DEF Timer!vars, Timer!event, Timer!handler
<1> HIDE DEF TimerInv
<1> QED
  BY <1>1, <1>2, <1>3, <1>4, <1>5, <1>6, <1>7, <1>8, <1>9, <1>10, <1>11, <1>12
  DEF Timer!Next

\* TimerInv holds in every state that timers and handlers reach.
LEMMA TimerInvariant == Timer!TimersAssumption => (Timer!Spec => []TimerInv)
<1> SUFFICES ASSUME Timer!TimersAssumption PROVE Timer!Spec => []TimerInv
  OBVIOUS
<1>1. Timer!Init => TimerInv
  BY TimerInitHolds
<1>2. TimerInv /\ [Timer!Next]_Timer!vars => TimerInv'
  BY TimerStepHolds
<1> QED
  BY <1>1, <1>2, PTL DEF Timer!Spec

\* Every step of owner, callback, handler and nginx is a step of an owned
\* callback, or does not concern it.
LEMMA TimerStepRefines ==
    Timer!TimersAssumption /\ TimerInv /\ [Timer!Next]_Timer!vars
        => [Timer!Abstract!Next]_<<Timer!State, active, values>>
<1> SUFFICES ASSUME Timer!TimersAssumption, TimerInv, [Timer!Next]_Timer!vars
             PROVE  \/ Timer!Abstract!Next
                    \/ UNCHANGED <<Timer!State, active, values>>
  OBVIOUS
<1> USE DEF Timer!TimersAssumption, TimerInv, Timer!TimersExact, Timer!TypeOK,
            TimerHandlerInv
<1>1. ASSUME NEW t \in Timers, Timer!Arm(t) \/ Timer!Rearm(t)
      PROVE  Timer!Abstract!Arm(t) \/ UNCHANGED <<Timer!State, active, values>>
  <2>1. /\ owner[t] /\ owner' = owner
        /\ timerSet' = [timerSet EXCEPT ![t] = TRUE]
        /\ UNCHANGED <<active, values>>
    BY <1>1 DEF Timer!Arm, Timer!Rearm, Timer!Start, Timer!Usable, Timer!handler
  <2> QED
    BY Zenon, <2>1 DEF Timer!State, Timer!Abstract!Arm
<1>2. ASSUME NEW t \in Timers, Timer!Cancel(t) PROVE Timer!Abstract!Disarm(t)
  BY Zenon, <1>2 DEF Timer!Cancel, Timer!Usable, Timer!handler, Timer!State,
              Timer!Abstract!Disarm
<1>3. ASSUME NEW t \in Timers, Timer!Drop(t) PROVE Timer!Abstract!Drop(t)
  BY Zenon, <1>3 DEF Timer!Drop, Timer!Destroy, Timer!State, Timer!Abstract!Drop
<1>4. ASSUME NEW t \in Timers, Timer!Expire(t) PROVE Timer!Abstract!Call(t)
  <2>1. /\ owner[t] /\ timerSet[t] /\ active = NoTimer
        /\ timerSet' = [timerSet EXCEPT ![t] = FALSE]
        /\ active' = t /\ values' = [values EXCEPT ![t] = "handler"]
        /\ owner' = owner
    BY <1>4 DEF Timer!Expire, Timer!DroppedIsGone
  <2>2. /\ Timer!State[t] = "armed"
        /\ Timer!State' = [Timer!State EXCEPT ![t] = "idle"]
    BY Zenon, <2>1 DEF Timer!State
  <2> QED
    BY <2>1, <2>2 DEF Timer!Abstract!Call
<1>5. ASSUME Timer!Return PROVE Timer!Abstract!Return
  <2>1. active \in Timers /\ active # NoTimer /\ active' = NoTimer
    BY <1>5 DEF Timer!Return
  <2>2. CASE ~alive
    <3>1. Timer!State[active] = "dropped"
      BY <2>1, <2>2 DEF Timer!State
    <3>2. /\ Timer!State' = Timer!State
          /\ values' = [values EXCEPT ![active] = "destroyed"]
      BY <1>5, <2>2 DEF Timer!Return, Timer!Destroy, Timer!State
    <3> QED
      BY <2>1, <3>1, <3>2 DEF Timer!Abstract!Return
  <2>3. CASE alive
    <3>1. Timer!State[active] # "dropped" /\ owner[active]
      BY <2>1, <2>3 DEF Timer!State
    <3> DEFINE set == IF control.action = "None" THEN timerSet[active]
                      ELSE control.action = "Rearm"
    <3>2. set \in BOOLEAN /\ timerSet' = [timerSet EXCEPT ![active] = set]
      BY Zenon, <1>5, <2>1, <2>3 DEF Timer!Return, Timer!Apply
    <3>3. owner' = owner /\ values' = [values EXCEPT ![active] = "owner"]
      BY <1>5, <2>3 DEF Timer!Return, Timer!Apply
    <3> HIDE DEF set
    <3>4. \E st \in {"idle", "armed"} :
             Timer!State' = [Timer!State EXCEPT ![active] = st]
      <4>1. CASE set
        <5>1. Timer!State' = [Timer!State EXCEPT ![active] = "armed"]
          BY Zenon, <2>1, <3>1, <3>2, <3>3, <4>1 DEF Timer!State
        <5> QED
          BY <5>1
      <4>2. CASE ~set
        <5>1. Timer!State' = [Timer!State EXCEPT ![active] = "idle"]
          BY Zenon, <2>1, <3>1, <3>2, <3>3, <4>2 DEF Timer!State
        <5> QED
          BY <5>1
      <4> QED
        BY <4>1, <4>2
    <3> QED
      BY Zenon, <2>1, <3>1, <3>3, <3>4 DEF Timer!Abstract!Return
  <2> QED
    BY <2>2, <2>3
<1>6. ASSUME \/ Timer!CallbackTakeTimeout \/ Timer!CallbackRearm
             \/ Timer!CallbackCancel
             \/ \E b \in BOOLEAN : Timer!CallbackSetCancelable(b)
             \/ UNCHANGED Timer!vars
      PROVE  UNCHANGED <<Timer!State, active, values>>
  BY <1>6 DEF Timer!CallbackTakeTimeout, Timer!CallbackRearm,
              Timer!CallbackCancel, Timer!CallbackSetCancelable, Timer!vars,
              Timer!event, Timer!handler, Timer!State
<1>7. ASSUME NEW t \in Timers, \/ Timer!TakeTimeout(t)
                               \/ \E b \in BOOLEAN : Timer!SetCancelable(t, b)
      PROVE  UNCHANGED <<Timer!State, active, values>>
  BY <1>7 DEF Timer!TakeTimeout, Timer!SetCancelable, Timer!handler, Timer!State
<1> HIDE DEF TimerInv
<1> QED
  BY <1>1, <1>2, <1>3, <1>4, <1>5, <1>6, <1>7
  DEF Timer!Next, Timer!Abstract!Next

\* For any number of timers, whatever a callback does with the owner of any
\* timer: a dropped timer is never expired, the values of a timer live through
\* its callback and are destroyed once, and every step is one of an owned
\* callback's.  If callbacks use their own timer through the control only, the
\* timeout flag says outside of them what is_timed_out documents.
THEOREM TimersAlwaysExact ==
    Timer!TimersAssumption =>
        (Timer!Spec => []Timer!TimersExact /\ Timer!ImplementsOwnedCallback)
<1> SUFFICES ASSUME Timer!TimersAssumption
             PROVE  Timer!Spec => /\ []Timer!TimersExact
                                  /\ Timer!ImplementsOwnedCallback
  OBVIOUS
<1>1. Timer!Init => Timer!Abstract!Init
  BY DEF Timer!Init, Timer!Abstract!Init, Timer!State
<1>2. TimerInv => Timer!TimersExact
  BY DEF TimerInv
<1>3. TimerInv /\ [Timer!Next]_Timer!vars
         => [Timer!Abstract!Next]_<<Timer!State, active, values>>
  BY TimerStepRefines
<1>4. Timer!Spec => []TimerInv
  BY TimerInvariant
<1> QED
  BY <1>1, <1>2, <1>3, <1>4, PTL
  DEF Timer!Spec, Timer!ImplementsOwnedCallback, Timer!Abstract!Spec,
      Timer!Abstract!cvars

-----------------------------------------------------------------------------
(***************************************************************************)
(* Event peers.                                                            *)
(***************************************************************************)
CONSTANTS Peers, Conns, MaxGets, PoolMayFail, Reconnects
VARIABLES peer, conn, gets, asked, frees

Peer == INSTANCE EventPeer

\* What handlers, data and log of a connection may belong to.
ConnUsers == {"none", "inert", "request", "keepalive", "selector"}

PeerLogs == {"request", "keepalive"}

PeerType ==
    [st : Peer!Owning \cup {"peer", "gone"}, selected : BOOLEAN,
     conn : Conns \cup {"none"}, log : PeerLogs]

ConnType ==
    [st : {"unused", "open", "closed"}, by : Peers \cup {"none", "selector"},
     handlers : ConnUsers, data : ConnUsers, pool : BOOLEAN, idle : BOOLEAN,
     timer : BOOLEAN, stale : BOOLEAN, log : ConnUsers]

\* What a connection record may be: an open connection has an owner, one that
\* the selector retained has the selector's log, a closed one is silent.
ConnOK(C) ==
    /\ C.st = "open" <=> C.by # "none"
    /\ C.by = "selector" => C.log = "selector"
    /\ C.st = "closed" => C.handlers = "inert" /\ C.data = "none" /\ ~C.timer

\* What a peer record may be: it owns as its type says, and logs for its
\* request until it is stored.
PeerOK(P) ==
    /\ P.st \in Peer!Owning <=> P.conn # "none"
    /\ P.st \in {"peer", "pending", "ready", "active"} => P.log = "request"

\* What the connection of a peer is to it.
Fits(P, C) ==
    /\ \/ C.log = P.log
       \/ P.st = "idle" /\ P.log = "request" /\ C.log = "selector"
    /\ P.st = "idle" => C.handlers # "request" /\ C.data # "request" /\ ~C.timer

\* The inductive form of who owns which connection and what is left on it.
OwnerInv ==
    /\ peer \in [Peers -> PeerType] /\ conn \in [Conns -> ConnType]
    /\ \A p \in Peers : PeerOK(peer[p])
    /\ \A c \in Conns : ConnOK(conn[c])
    /\ \A p \in Peers : \A c \in Conns : peer[p].conn = c <=> conn[c].by = p
    /\ \A p \in Peers : peer[p].conn # "none" => Fits(peer[p], conn[peer[p].conn])

\* The counters of the callbacks: no more is released than was selected, and
\* nothing else if no caller connects a selected peer again.
CallbackInv ==
    /\ asked \in [Peers -> Nat] /\ gets \in [Peers -> Nat]
    /\ frees \in [Peers -> Nat]
    /\ \A p \in Peers :
          /\ gets[p] <= asked[p] /\ asked[p] <= MaxGets
          /\ frees[p] + (IF peer[p].selected THEN 1 ELSE 0) <= gets[p]
          /\ ~Reconnects =>
                frees[p] + (IF peer[p].selected THEN 1 ELSE 0) = gets[p]

\* The inductive invariant gives what is promised of peers.
LEMMA OwnerExact ==
    Peer!PeersAssumption /\ OwnerInv /\ CallbackInv => Peer!PeersExact
<1> SUFFICES ASSUME Peer!PeersAssumption, OwnerInv, CallbackInv
             PROVE  Peer!PeersExact
  OBVIOUS
<1> USE DEF Peer!PeersAssumption, OwnerInv, PeerType, PeerLogs, ConnType, Peer!None
<1>1. ASSUME NEW p \in Peers
      PROVE  /\ asked[p] \in 0..MaxGets /\ gets[p] \in 0..asked[p]
             /\ frees[p] \in 0..MaxGets
  BY DEF CallbackInv
<1>2. Peer!TypeOK
  BY <1>1 DEF Peer!TypeOK, ConnOK
<1>3. Peer!OneOwner
  BY DEF Peer!OneOwner, PeerOK, ConnOK
<1>4. Peer!IdleIsDetached
  BY DEF Peer!IdleIsDetached, Peer!Mine, Fits
<1>5. ~Reconnects => Peer!SelectionReleasedOnce
  BY DEF CallbackInv, Peer!SelectionReleasedOnce
<1> QED
  BY <1>2, <1>3, <1>4, <1>5 DEF Peer!PeersExact

\* New peers own nothing and have selected nothing.
LEMMA PeerInitHolds ==
    Peer!PeersAssumption /\ Peer!Init => OwnerInv /\ CallbackInv
<1> SUFFICES ASSUME Peer!PeersAssumption, Peer!Init
             PROVE  OwnerInv /\ CallbackInv
  OBVIOUS
<1> USE DEF Peer!PeersAssumption, Peer!Init, Peer!Built, Peer!Unused, Peer!None
<1>1. OwnerInv
  BY DEF OwnerInv, PeerType, PeerLogs, ConnType, PeerOK, ConnOK, ConnUsers,
     Peer!Owning
<1>2. CallbackInv
  BY DEF CallbackInv
<1> QED
  BY <1>1, <1>2

\* A step that concerns one peer and one connection, its own or one that no
\* peer has, keeps the owners if it leaves the two of them in order.
LEMMA PeerMoves ==
    ASSUME Peer!PeersAssumption, OwnerInv, NEW p \in Peers, NEW c \in Conns,
           NEW P \in PeerType, NEW C \in ConnType,
           peer' = [peer EXCEPT ![p] = P], conn' = [conn EXCEPT ![c] = C],
           peer[p].conn = c \/ (peer[p].conn = "none" /\ conn[c].by \notin Peers),
           PeerOK(P), ConnOK(C),
           \/ P.conn = c /\ C.by = p /\ Fits(P, C)
           \/ P.conn = "none" /\ C.by \notin Peers
    PROVE  OwnerInv'
<1> USE DEF Peer!PeersAssumption, Peer!None
<1>1. peer' \in [Peers -> PeerType] /\ conn' \in [Conns -> ConnType]
  BY DEF OwnerInv
<1>2. /\ peer'[p] = P /\ \A q \in Peers \ {p} : peer'[q] = peer[q]
      /\ conn'[c] = C /\ \A d \in Conns \ {c} : conn'[d] = conn[d]
  BY DEF OwnerInv
<1>3. \A q \in Peers : PeerOK(peer'[q])
  BY <1>2 DEF OwnerInv
<1>4. \A d \in Conns : ConnOK(conn'[d])
  BY <1>2 DEF OwnerInv
<1>5. \A q \in Peers \ {p} : peer[q].conn # c /\ peer[q].conn \in Conns \cup {"none"}
  BY DEF OwnerInv, PeerType
<1>6. \A q \in Peers : \A d \in Conns : peer'[q].conn = d <=> conn'[d].by = q
  BY <1>2, <1>5 DEF OwnerInv
<1>7. \A q \in Peers : peer'[q].conn # "none" => Fits(peer'[q], conn'[peer'[q].conn])
  BY <1>2, <1>5 DEF OwnerInv
<1> QED
  BY <1>1, <1>3, <1>4, <1>6, <1>7 DEF OwnerInv

\* So does one that changes a peer and leaves its connection alone.
LEMMA PeerKeeps ==
    ASSUME OwnerInv, NEW p \in Peers, NEW P \in PeerType,
           peer' = [peer EXCEPT ![p] = P], conn' = conn, PeerOK(P),
           P.conn = peer[p].conn,
           P.conn # "none" => Fits(P, conn[P.conn])
    PROVE  OwnerInv'
BY DEF OwnerInv

\* Every call of a peer's caller, and the network, keeps the owners.
LEMMA OwnerStep ==
    Peer!PeersAssumption /\ OwnerInv /\ [Peer!Next]_Peer!vars => OwnerInv'
<1> SUFFICES ASSUME Peer!PeersAssumption, OwnerInv, [Peer!Next]_Peer!vars
             PROVE  OwnerInv'
  OBVIOUS
<1> USE DEF Peer!None, Peer!Owning, Peer!Mine, Peer!Quiesced, Peer!Prepared,
            Peer!Relogged, PeerLogs
<1>1. ASSUME NEW p \in Peers
      PROVE  peer[p] \in PeerType /\ PeerOK(peer[p])
  BY DEF OwnerInv
<1>2. ASSUME NEW c \in Conns
      PROVE  conn[c] \in ConnType /\ ConnOK(conn[c])
  BY DEF OwnerInv
<1>3. ASSUME NEW p \in Peers, peer[p].st \in Peer!Owning
      PROVE  /\ peer[p].conn \in Conns /\ peer[p].conn # "none"
             /\ conn[peer[p].conn].by = p /\ conn[peer[p].conn].st = "open"
             /\ Fits(peer[p], conn[peer[p].conn])
  BY <1>1, <1>2, <1>3 DEF OwnerInv, PeerType, PeerOK, ConnOK, Peer!PeersAssumption
<1>4. ASSUME NEW p \in Peers, Peer!SelectNothing(p) \/ Peer!ConnectFails(p)
      PROVE  OwnerInv'
  <2>1. PICK b \in BOOLEAN : peer' = [peer EXCEPT ![p].selected = b]
    BY Zenon, <1>4 DEF Peer!SelectNothing, Peer!ConnectFails
  <2> DEFINE P == [peer[p] EXCEPT !.selected = b]
  <2>2. P \in PeerType /\ PeerOK(P) /\ P.conn = "none" /\ peer[p].conn = "none"
    BY <1>1, <1>4, <2>1 DEF PeerType, PeerOK, Peer!SelectNothing,
       Peer!ConnectFails, Peer!Selects, Peer!Asks
  <2>3. peer' = [peer EXCEPT ![p] = P] /\ conn' = conn
    BY <1>4, <2>1 DEF Peer!SelectNothing, Peer!ConnectFails
  <2> HIDE DEF P
  <2> QED
    BY Zenon, <2>2, <2>3, PeerKeeps
<1>5. ASSUME NEW p \in Peers, NEW c \in Conns, NEW st \in {"active", "pending"},
             Peer!Connect(p, c, st)
      PROVE  OwnerInv'
  <2> DEFINE P == [peer[p] EXCEPT !.st = st, !.selected = TRUE, !.conn = c]
             C == [conn[c] EXCEPT !.st = "open", !.by = p, !.log = "request",
                                  !.handlers = "inert", !.idle = FALSE]
  <2>0. conn[c] \in ConnType /\ peer[p] \in PeerType
    BY <1>1, <1>2
  <2>1. P \in PeerType /\ C \in ConnType
    <3>1. P \in PeerType
      BY Zenon, <2>0 DEF PeerType
    <3>2. C \in ConnType
      BY Zenon, <2>0 DEF ConnType, ConnUsers
    <3> QED
      BY <3>1, <3>2
  <2>2. /\ peer' = [peer EXCEPT ![p] = P] /\ conn' = [conn EXCEPT ![c] = C]
        /\ peer[p].st = "peer"
        /\ conn[c].st = "unused" \/ conn[c].by = "selector"
    BY Zenon, <1>5 DEF Peer!Connect, Peer!Selects, Peer!Asks
  <2>3. peer[p].conn = "none" /\ conn[c].by \notin Peers
    BY <1>1, <1>2, <2>2 DEF PeerOK, ConnOK, Peer!PeersAssumption
  <2>4. /\ PeerOK(P) /\ ConnOK(C) /\ P.conn = c /\ C.by = p /\ Fits(P, C)
    BY <1>1, <1>2, <2>2 DEF PeerType, ConnType, PeerOK, ConnOK, Fits,
       Peer!PeersAssumption
  <2> HIDE DEF P, C
  <2> QED
    BY Zenon, <2>1, <2>2, <2>3, <2>4, PeerMoves
<1>6. ASSUME NEW p \in Peers, Peer!Prepare(p) PROVE OwnerInv'
  <2> DEFINE k == peer[p].conn
             P == peer[p]
             C == Peer!Prepared(conn[k], "request")
  <2>1. peer[p].st \in Peer!Owning
    BY <1>6 DEF Peer!Prepare
  <2>2. /\ k \in Conns /\ conn[k] \in ConnType /\ ConnOK(conn[k])
        /\ Fits(peer[p], conn[k]) /\ conn[k].by = p /\ conn[k].st = "open"
    BY <1>2, <1>3, <2>1
  <2>3. P \in PeerType /\ C \in ConnType
    BY Zenon, <1>1, <2>2 DEF PeerType, ConnType, ConnUsers
  <2>4. peer' = [peer EXCEPT ![p] = P] /\ conn' = [conn EXCEPT ![k] = C]
    BY <1>1, <1>6 DEF OwnerInv, PeerType, Peer!Prepare, Peer!SetConn
  <2>5. PeerOK(P) /\ ConnOK(C) /\ P.conn = k /\ C.by = p /\ Fits(P, C)
    BY <1>1, <1>6, <2>1, <2>2
    DEF PeerType, ConnType, PeerOK, ConnOK, Fits, Peer!Prepare
  <2> HIDE DEF P, C
  <2> QED
    BY Zenon, <2>2, <2>3, <2>4, <2>5, PeerMoves
<1>7. ASSUME NEW p \in Peers, Peer!ConnectReady(p) PROVE OwnerInv'
  <2> DEFINE k == peer[p].conn
             P == [peer[p] EXCEPT !.st = "ready"]
             C == conn[k]
  <2>1. peer[p].st \in Peer!Owning
    BY <1>7 DEF Peer!ConnectReady
  <2>2. /\ k \in Conns /\ conn[k] \in ConnType /\ ConnOK(conn[k])
        /\ Fits(peer[p], conn[k]) /\ conn[k].by = p /\ conn[k].st = "open"
    BY <1>2, <1>3, <2>1
  <2>3. P \in PeerType /\ C \in ConnType
    BY <1>1, <2>2 DEF PeerType, ConnType, ConnUsers
  <2>4. peer' = [peer EXCEPT ![p] = P] /\ conn' = [conn EXCEPT ![k] = C]
    BY <1>1, <1>7 DEF OwnerInv, PeerType, Peer!ConnectReady, Peer!Become
  <2>5. PeerOK(P) /\ ConnOK(C) /\ P.conn = k /\ C.by = p /\ Fits(P, C)
    BY <1>1, <1>7, <2>1, <2>2
    DEF PeerType, ConnType, PeerOK, ConnOK, Fits, Peer!ConnectReady
  <2> HIDE DEF P, C
  <2> QED
    BY Zenon, <2>2, <2>3, <2>4, <2>5, PeerMoves
<1>8. ASSUME NEW p \in Peers, Peer!Complete(p) PROVE OwnerInv'
  <2> DEFINE k == peer[p].conn
             P == [peer[p] EXCEPT !.st = "active"]
             C == conn[k]
  <2>1. peer[p].st \in Peer!Owning
    BY <1>8 DEF Peer!Complete
  <2>2. /\ k \in Conns /\ conn[k] \in ConnType /\ ConnOK(conn[k])
        /\ Fits(peer[p], conn[k]) /\ conn[k].by = p /\ conn[k].st = "open"
    BY <1>2, <1>3, <2>1
  <2>3. P \in PeerType /\ C \in ConnType
    BY <1>1, <2>2 DEF PeerType, ConnType, ConnUsers
  <2>4. peer' = [peer EXCEPT ![p] = P] /\ conn' = [conn EXCEPT ![k] = C]
    BY <1>1, <1>8 DEF OwnerInv, PeerType, Peer!Complete, Peer!Become
  <2>5. PeerOK(P) /\ ConnOK(C) /\ P.conn = k /\ C.by = p /\ Fits(P, C)
    BY <1>1, <1>8, <2>1, <2>2
    DEF PeerType, ConnType, PeerOK, ConnOK, Fits, Peer!Complete
  <2> HIDE DEF P, C
  <2> QED
    BY Zenon, <2>2, <2>3, <2>4, <2>5, PeerMoves
<1>9. ASSUME NEW p \in Peers, Peer!Use(p) PROVE OwnerInv'
  <2> DEFINE k == peer[p].conn
             P == peer[p]
             C == [conn[k] EXCEPT !.timer = TRUE, !.stale = FALSE]
  <2>1. peer[p].st \in Peer!Owning
    BY <1>9 DEF Peer!Use
  <2>2. /\ k \in Conns /\ conn[k] \in ConnType /\ ConnOK(conn[k])
        /\ Fits(peer[p], conn[k]) /\ conn[k].by = p /\ conn[k].st = "open"
    BY <1>2, <1>3, <2>1
  <2>3. P \in PeerType /\ C \in ConnType
    BY Zenon, <1>1, <2>2 DEF PeerType, ConnType, ConnUsers
  <2>4. peer' = [peer EXCEPT ![p] = P] /\ conn' = [conn EXCEPT ![k] = C]
    BY <1>1, <1>9 DEF OwnerInv, PeerType, Peer!Use, Peer!SetConn
  <2>5. PeerOK(P) /\ ConnOK(C) /\ P.conn = k /\ C.by = p /\ Fits(P, C)
    BY <1>1, <1>9, <2>1, <2>2
    DEF PeerType, ConnType, PeerOK, ConnOK, Fits, Peer!Use
  <2> HIDE DEF P, C
  <2> QED
    BY Zenon, <2>2, <2>3, <2>4, <2>5, PeerMoves
<1>10. ASSUME NEW p \in Peers, Peer!IntoKeepalive(p, TRUE) PROVE OwnerInv'
  <2> DEFINE k == peer[p].conn
             P == [peer[p] EXCEPT !.st = "idle", !.log = "keepalive"]
             C == Peer!Prepared(Peer!Quiesced(conn[k], TRUE), "keepalive")
  <2>1. peer[p].st \in Peer!Owning
    BY <1>10 DEF Peer!IntoKeepalive
  <2>2. /\ k \in Conns /\ conn[k] \in ConnType /\ ConnOK(conn[k])
        /\ Fits(peer[p], conn[k]) /\ conn[k].by = p /\ conn[k].st = "open"
    BY <1>2, <1>3, <2>1
  <2>3. P \in PeerType /\ C \in ConnType
    BY ZenonT(30), <1>1, <2>2 DEF PeerType, ConnType, ConnUsers
  <2>4. peer' = [peer EXCEPT ![p] = P] /\ conn' = [conn EXCEPT ![k] = C]
    BY ZenonT(30), <1>1, <1>10 DEF OwnerInv, PeerType, Peer!IntoKeepalive, Peer!SetConn
  <2>5. PeerOK(P) /\ ConnOK(C) /\ P.conn = k /\ C.by = p /\ Fits(P, C)
    BY <1>1, <1>10, <2>1, <2>2
    DEF PeerType, ConnType, PeerOK, ConnOK, Fits, Peer!IntoKeepalive
  <2> HIDE DEF P, C
  <2> QED
    BY Zenon, <2>2, <2>3, <2>4, <2>5, PeerMoves
<1>11. ASSUME NEW p \in Peers, Peer!IntoKeepalive(p, FALSE) PROVE OwnerInv'
  <2> DEFINE k == peer[p].conn
             P == peer[p]
             C == Peer!Relogged(Peer!Quiesced(Peer!Prepared(
                     Peer!Quiesced(conn[k], TRUE), "keepalive"), FALSE),
                     "request")
  <2>1. peer[p].st \in Peer!Owning
    BY <1>11 DEF Peer!IntoKeepalive
  <2>2. /\ k \in Conns /\ conn[k] \in ConnType /\ ConnOK(conn[k])
        /\ Fits(peer[p], conn[k]) /\ conn[k].by = p /\ conn[k].st = "open"
    BY <1>2, <1>3, <2>1
  <2>3. P \in PeerType /\ C \in ConnType
    BY Zenon, <1>1, <2>2 DEF PeerType, ConnType, ConnUsers
  <2>4. peer' = [peer EXCEPT ![p] = P] /\ conn' = [conn EXCEPT ![k] = C]
    BY <1>1, <1>11 DEF OwnerInv, PeerType, Peer!IntoKeepalive, Peer!SetConn
  <2>5. PeerOK(P) /\ ConnOK(C) /\ P.conn = k /\ C.by = p /\ Fits(P, C)
    BY <1>1, <1>11, <2>1, <2>2
    DEF PeerType, ConnType, PeerOK, ConnOK, Fits, Peer!IntoKeepalive
  <2> HIDE DEF P, C
  <2> QED
    BY Zenon, <2>2, <2>3, <2>4, <2>5, PeerMoves
<1>12. ASSUME NEW p \in Peers, Peer!KeepaliveNotPrepared(p) PROVE OwnerInv'
  <2> DEFINE k == peer[p].conn
             P == peer[p]
             C == Peer!Quiesced(conn[k], TRUE)
  <2>1. peer[p].st \in Peer!Owning
    BY <1>12 DEF Peer!KeepaliveNotPrepared
  <2>2. /\ k \in Conns /\ conn[k] \in ConnType /\ ConnOK(conn[k])
        /\ Fits(peer[p], conn[k]) /\ conn[k].by = p /\ conn[k].st = "open"
    BY <1>2, <1>3, <2>1
  <2>3. P \in PeerType /\ C \in ConnType
    BY Zenon, <1>1, <2>2 DEF PeerType, ConnType, ConnUsers
  <2>4. peer' = [peer EXCEPT ![p] = P] /\ conn' = [conn EXCEPT ![k] = C]
    BY <1>1, <1>12 DEF OwnerInv, PeerType, Peer!KeepaliveNotPrepared, Peer!SetConn
  <2>5. PeerOK(P) /\ ConnOK(C) /\ P.conn = k /\ C.by = p /\ Fits(P, C)
    BY <1>1, <1>12, <2>1, <2>2
    DEF PeerType, ConnType, PeerOK, ConnOK, Fits, Peer!KeepaliveNotPrepared
  <2> HIDE DEF P, C
  <2> QED
    BY Zenon, <2>2, <2>3, <2>4, <2>5, PeerMoves
<1>13. ASSUME NEW p \in Peers, Peer!IntoConnection(p) PROVE OwnerInv'
  <2> DEFINE k == peer[p].conn
             P == [peer[p] EXCEPT !.st = "active", !.log = "request"]
             C == Peer!Relogged(Peer!Quiesced(conn[k], FALSE), "request")
  <2>1. peer[p].st \in Peer!Owning
    BY <1>13 DEF Peer!IntoConnection
  <2>2. /\ k \in Conns /\ conn[k] \in ConnType /\ ConnOK(conn[k])
        /\ Fits(peer[p], conn[k]) /\ conn[k].by = p /\ conn[k].st = "open"
    BY <1>2, <1>3, <2>1
  <2>3. P \in PeerType /\ C \in ConnType
    BY ZenonT(30), <1>1, <2>2 DEF PeerType, ConnType, ConnUsers
  <2>4. peer' = [peer EXCEPT ![p] = P] /\ conn' = [conn EXCEPT ![k] = C]
    BY Zenon, <1>1, <1>13 DEF OwnerInv, PeerType, Peer!IntoConnection, Peer!SetConn
  <2>5. PeerOK(P) /\ ConnOK(C) /\ P.conn = k /\ C.by = p /\ Fits(P, C)
    <3>1. /\ C.st = "open" /\ C.by = p /\ C.log = "request"
          /\ P.st = "active" /\ P.conn = k /\ P.log = "request"
      BY <1>1, <2>2 DEF PeerType, ConnType
    <3>2. k # "none" /\ p # "none" /\ p # "selector"
      BY <2>2 DEF Peer!PeersAssumption
    <3> HIDE DEF P, C, k
    <3> QED
      BY <3>1, <3>2 DEF PeerOK, ConnOK, Fits
  <2> HIDE DEF P, C
  <2> QED
    BY Zenon, <2>2, <2>3, <2>4, <2>5, PeerMoves
<1>14. ASSUME NEW p \in Peers, NEW c \in Conns, Peer!Attach(p, c) PROVE OwnerInv'
  <2> DEFINE P == [peer[p] EXCEPT !.st = "idle", !.conn = c]
             C == [Peer!Quiesced(conn[c], TRUE) EXCEPT !.by = p]
  <2>1. /\ peer' = [peer EXCEPT ![p] = P] /\ conn' = [conn EXCEPT ![c] = C]
        /\ peer[p].st = "peer" /\ conn[c].by = "selector"
    BY <1>14 DEF Peer!Attach
  <2>2. conn[c].log = "selector" /\ conn[c].st = "open"
    BY <1>2, <2>1 DEF ConnOK
  <2>3. P \in PeerType /\ C \in ConnType
    <3>1. P \in PeerType
      BY Zenon, <1>1, <2>2 DEF PeerType
    <3>2. C \in ConnType
      BY Zenon, <1>2 DEF ConnType, ConnUsers
    <3> QED
      BY <3>1, <3>2
  <2>4. peer[p].conn = "none" /\ conn[c].by \notin Peers
    BY <1>1, <2>1 DEF PeerOK, Peer!PeersAssumption
  <2>5. PeerOK(P) /\ ConnOK(C) /\ P.conn = c /\ C.by = p /\ Fits(P, C)
    BY <1>1, <1>2, <2>1, <2>2 DEF PeerType, ConnType, PeerOK, ConnOK, Fits,
       Peer!PeersAssumption
  <2> HIDE DEF P, C
  <2> QED
    BY Zenon, <2>1, <2>3, <2>4, <2>5, PeerMoves
<1>15. ASSUME NEW p \in Peers, NEW r \in BOOLEAN, Peer!Release(p, r)
       PROVE  OwnerInv'
  <2> DEFINE k == peer[p].conn
             P == [peer[p] EXCEPT !.st = "gone", !.selected = FALSE,
                                  !.conn = "none"]
             C == IF r THEN [conn[k] EXCEPT !.by = "selector",
                                !.handlers = "selector", !.data = "selector",
                                !.log = "selector", !.timer = FALSE, !.idle = TRUE]
                  ELSE Peer!Closed(conn[k])
  <2>1. P \in PeerType /\ PeerOK(P) /\ P.conn = "none"
    BY Zenon, <1>1 DEF PeerType, PeerOK
  <2>2. peer' = [peer EXCEPT ![p] = P]
    BY <1>15 DEF Peer!Release
  <2>3. CASE k = "none"
    <3>1. conn' = conn
      BY <1>15, <2>3 DEF Peer!Release
    <3> HIDE DEF P
    <3> QED
      BY Zenon, <2>1, <2>2, <2>3, <3>1, PeerKeeps
  <2>4. CASE k # "none"
    <3>1. k \in Conns /\ conn[k] \in ConnType
      BY <1>1, <1>2, <2>4 DEF PeerType
    <3>2. C \in ConnType /\ ConnOK(C) /\ C.by \notin Peers
      <4>1. CASE r
        <5>1. C \in ConnType
          BY ZenonT(30), <3>1, <4>1 DEF ConnType, ConnUsers
        <5>2. C.by = "selector" /\ C.log = "selector" /\ C.st = "open"
          BY <1>15, <1>2, <1>3, <2>4, <3>1, <4>1, <1>1 DEF ConnType, PeerOK
        <5> QED
          BY <5>1, <5>2 DEF ConnOK, Peer!PeersAssumption
      <4>2. CASE ~r
        <5>1. C \in ConnType
          BY Zenon, <3>1, <4>2 DEF ConnType, ConnUsers, Peer!Closed
        <5>2. /\ C.by = "none" /\ C.st = "closed" /\ C.handlers = "inert"
              /\ C.data = "none" /\ C.timer = FALSE
          BY <3>1, <4>2 DEF ConnType, Peer!Closed
        <5> QED
          BY <5>1, <5>2 DEF ConnOK, Peer!PeersAssumption
      <4> QED
        BY <4>1, <4>2
    <3>3. conn' = [conn EXCEPT ![k] = C]
      BY <1>15, <2>4 DEF Peer!Release
    <3> HIDE DEF P, C
    <3> QED
      BY Zenon, <2>1, <2>2, <3>1, <3>2, <3>3, PeerMoves
  <2> QED
    BY <2>3, <2>4
<1>16. ASSUME NEW c \in Conns, Peer!Activity(c) PROVE OwnerInv'
  <2> DEFINE C == [conn[c] EXCEPT !.stale = TRUE]
  <2>1. peer' = peer /\ conn' = [conn EXCEPT ![c] = C]
    BY <1>16 DEF Peer!Activity
  <2>2. C \in ConnType
    BY Zenon, <1>2 DEF ConnType
  <2>3. /\ C.st = conn[c].st /\ C.by = conn[c].by /\ C.log = conn[c].log
        /\ C.handlers = conn[c].handlers /\ C.data = conn[c].data
        /\ C.timer = conn[c].timer
    BY <1>2 DEF ConnType
  <2> HIDE DEF C
  <2>4. ConnOK(C) /\ \A p \in Peers : Fits(peer[p], conn[c]) => Fits(peer[p], C)
    BY <1>2, <2>3 DEF ConnOK, Fits
  <2>5. \A d \in Conns : conn'[d] = IF d = c THEN C ELSE conn[d]
    BY <2>1 DEF OwnerInv
  <2>6. conn' \in [Conns -> ConnType]
    BY <2>1, <2>2 DEF OwnerInv
  <2>7. \A p \in Peers : peer[p].conn \in Conns \cup {"none"}
    BY <1>1 DEF PeerType
  <2> QED
    BY <2>1, <2>3, <2>4, <2>5, <2>6, <2>7 DEF OwnerInv
<1>17. CASE UNCHANGED Peer!vars
  BY <1>17 DEF Peer!vars, OwnerInv
<1> QED
  BY Zenon, <1>4, <1>5, <1>6, <1>7, <1>8, <1>9, <1>10, <1>11, <1>12, <1>13, <1>14,
     <1>15, <1>16, <1>17
  DEF Peer!Next

\* The counters of one peer follow its calls of the two callbacks.
LEMMA CallbackStep ==
    Peer!PeersAssumption /\ OwnerInv /\ CallbackInv /\ [Peer!Next]_Peer!vars
        => CallbackInv'
<1> SUFFICES ASSUME Peer!PeersAssumption, OwnerInv, CallbackInv,
                    [Peer!Next]_Peer!vars
             PROVE  CallbackInv'
  OBVIOUS
<1> USE DEF Peer!None
<1>1. ASSUME NEW p \in Peers PROVE peer[p] \in PeerType
  BY DEF OwnerInv
<1>2. ASSUME NEW p \in Peers, NEW P \in PeerType, NEW a \in Nat, NEW g \in Nat,
             NEW f \in Nat, peer' = [peer EXCEPT ![p] = P],
             asked' = [asked EXCEPT ![p] = a], gets' = [gets EXCEPT ![p] = g],
             frees' = [frees EXCEPT ![p] = f], g <= a, a <= MaxGets,
             f + (IF P.selected THEN 1 ELSE 0) <= g,
             ~Reconnects => f + (IF P.selected THEN 1 ELSE 0) = g
      PROVE  CallbackInv'
  BY <1>2 DEF CallbackInv, OwnerInv
<1>3. ASSUME asked' = asked, gets' = gets, frees' = frees, peer' \in [Peers -> PeerType],
             \A p \in Peers : peer'[p].selected = peer[p].selected
      PROVE  CallbackInv'
  BY <1>3 DEF CallbackInv
<1>4. ASSUME NEW p \in Peers, Peer!SelectNothing(p) PROVE CallbackInv'
  <2> DEFINE P == [peer[p] EXCEPT !.selected = FALSE]
  <2>1. P \in PeerType /\ P.selected = FALSE
    BY Zenon, <1>1 DEF PeerType
  <2>2. /\ peer' = [peer EXCEPT ![p] = P] /\ asked' = [asked EXCEPT ![p] = asked[p] + 1]
        /\ gets' = [gets EXCEPT ![p] = gets[p]] /\ frees' = [frees EXCEPT ![p] = frees[p]]
        /\ asked[p] < MaxGets /\ (peer[p].selected => Reconnects)
    BY <1>4 DEF Peer!SelectNothing, Peer!Asks, CallbackInv
  <2> HIDE DEF P
  <2>3. /\ asked[p] + 1 \in Nat /\ gets[p] \in Nat /\ frees[p] \in Nat
        /\ gets[p] <= asked[p] + 1 /\ asked[p] + 1 <= MaxGets
        /\ frees[p] + (IF P.selected THEN 1 ELSE 0) <= gets[p]
        /\ ~Reconnects => frees[p] + (IF P.selected THEN 1 ELSE 0) = gets[p]
    BY <2>1, <2>2 DEF CallbackInv, Peer!PeersAssumption
  <2> QED
    BY Zenon, <1>2, <2>1, <2>2, <2>3
<1>5. ASSUME NEW p \in Peers, NEW P \in PeerType, P.selected,
             peer' = [peer EXCEPT ![p] = P], Peer!Selects(p), frees' = frees
      PROVE  CallbackInv'
  <2>1. /\ asked' = [asked EXCEPT ![p] = asked[p] + 1]
        /\ gets' = [gets EXCEPT ![p] = gets[p] + 1]
        /\ frees' = [frees EXCEPT ![p] = frees[p]]
        /\ asked[p] < MaxGets /\ (peer[p].selected => Reconnects)
    BY <1>5 DEF Peer!Selects, Peer!Asks, CallbackInv
  <2>2. /\ asked[p] + 1 \in Nat /\ gets[p] + 1 \in Nat /\ frees[p] \in Nat
        /\ gets[p] + 1 <= asked[p] + 1 /\ asked[p] + 1 <= MaxGets
        /\ frees[p] + 1 <= gets[p] + 1
        /\ (~Reconnects => frees[p] + 1 = gets[p] + 1)
    BY <2>1 DEF CallbackInv, Peer!PeersAssumption
  <2> QED
    BY Zenon, <1>2, <1>5, <2>1, <2>2
<1>6. ASSUME NEW p \in Peers, Peer!ConnectFails(p) PROVE CallbackInv'
  <2> DEFINE P == [peer[p] EXCEPT !.selected = TRUE]
  <2>1. P \in PeerType /\ P.selected
    BY Zenon, <1>1 DEF PeerType
  <2>2. peer' = [peer EXCEPT ![p] = P] /\ Peer!Selects(p) /\ frees' = frees
    BY <1>6 DEF Peer!ConnectFails
  <2> HIDE DEF P
  <2> QED
    BY Zenon, <1>5, <2>1, <2>2
<1>7. ASSUME NEW p \in Peers, NEW c \in Conns, NEW st \in {"active", "pending"},
             Peer!Connect(p, c, st)
      PROVE  CallbackInv'
  <2> DEFINE P == [peer[p] EXCEPT !.st = st, !.selected = TRUE, !.conn = c]
  <2>1. P \in PeerType /\ P.selected
    BY Zenon, <1>1 DEF PeerType, Peer!Owning
  <2>2. peer' = [peer EXCEPT ![p] = P] /\ Peer!Selects(p) /\ frees' = frees
    BY <1>7 DEF Peer!Connect
  <2> HIDE DEF P
  <2> QED
    BY Zenon, <1>5, <2>1, <2>2
<1>8. ASSUME NEW p \in Peers, NEW r \in BOOLEAN, Peer!Release(p, r)
      PROVE  CallbackInv'
  <2> DEFINE P == [peer[p] EXCEPT !.st = "gone", !.selected = FALSE,
                                  !.conn = "none"]
             f == Peer!Freed(p)
  <2>1. P \in PeerType /\ P.selected = FALSE
    BY Zenon, <1>1 DEF PeerType
  <2>2. /\ peer' = [peer EXCEPT ![p] = P] /\ frees' = [frees EXCEPT ![p] = f]
        /\ asked' = [asked EXCEPT ![p] = asked[p]] /\ gets' = [gets EXCEPT ![p] = gets[p]]
    BY <1>8 DEF Peer!Release, CallbackInv
  <2>3. peer[p].selected \in BOOLEAN
    BY <1>1 DEF PeerType
  <2>4. /\ asked[p] \in Nat /\ gets[p] \in Nat /\ f \in Nat
        /\ gets[p] <= asked[p] /\ asked[p] <= MaxGets
        /\ f + (IF P.selected THEN 1 ELSE 0) <= gets[p]
        /\ ~Reconnects => f + (IF P.selected THEN 1 ELSE 0) = gets[p]
    BY <2>1, <2>3 DEF CallbackInv, Peer!Freed
  <2> HIDE DEF P, f
  <2> QED
    BY Zenon, <1>2, <2>1, <2>2, <2>4
<1>9. ASSUME peer' \in [Peers -> PeerType],
             \/ \E p \in Peers :
                  \/ Peer!Prepare(p) \/ Peer!ConnectReady(p) \/ Peer!Complete(p)
                  \/ Peer!Use(p) \/ Peer!KeepaliveNotPrepared(p)
                  \/ Peer!IntoConnection(p)
                  \/ \E b \in BOOLEAN : Peer!IntoKeepalive(p, b)
                  \/ \E c \in Conns : Peer!Attach(p, c)
             \/ \E c \in Conns : Peer!Activity(c)
             \/ UNCHANGED Peer!vars
      PROVE  CallbackInv'
  <2>1. asked' = asked /\ gets' = gets /\ frees' = frees
    BY ZenonT(30), <1>9 DEF Peer!Prepare, Peer!ConnectReady, Peer!Complete, Peer!Use,
       Peer!KeepaliveNotPrepared, Peer!IntoConnection, Peer!IntoKeepalive,
       Peer!Attach, Peer!Activity, Peer!vars
  <2>2. \/ peer' = peer
        \/ \E p \in Peers : \E st \in Peer!Owning, log \in PeerLogs :
              \/ peer' = [peer EXCEPT ![p].st = st]
              \/ peer' = [peer EXCEPT ![p].st = st, ![p].log = log]
        \/ \E p \in Peers, c \in Conns : peer' = [peer EXCEPT ![p] =
              [peer[p] EXCEPT !.st = "idle", !.conn = c]]
    BY ZenonT(30), <1>9 DEF Peer!Prepare, Peer!ConnectReady, Peer!Complete, Peer!Use,
       Peer!KeepaliveNotPrepared, Peer!IntoConnection, Peer!IntoKeepalive,
       Peer!Attach, Peer!Activity, Peer!vars, Peer!Become, Peer!Owning, PeerLogs
  <2>3. ASSUME NEW q \in Peers PROVE peer'[q].selected = peer[q].selected
    <3>1. ASSUME NEW p \in Peers, NEW P, peer' = [peer EXCEPT ![p] = P],
                 P.selected = peer[p].selected
          PROVE  peer'[q].selected = peer[q].selected
      BY <3>1 DEF OwnerInv
    <3>2. ASSUME NEW p \in Peers, NEW st,
                 peer' = [peer EXCEPT ![p].st = st]
          PROVE  peer'[q].selected = peer[q].selected
      BY <1>1, <3>2 DEF PeerType, OwnerInv
    <3>3. ASSUME NEW p \in Peers, NEW st, NEW log,
                 peer' = [peer EXCEPT ![p].st = st, ![p].log = log]
          PROVE  peer'[q].selected = peer[q].selected
      BY <1>1, <3>3 DEF PeerType, OwnerInv
    <3>4. ASSUME NEW p \in Peers, NEW c \in Conns, peer' = [peer EXCEPT ![p] =
                   [peer[p] EXCEPT !.st = "idle", !.conn = c]]
          PROVE  peer'[q].selected = peer[q].selected
      <4> DEFINE P == [peer[p] EXCEPT !.st = "idle", !.conn = c]
      <4>1. P.selected = peer[p].selected
        BY <1>1 DEF PeerType
      <4>2. peer' = [peer EXCEPT ![p] = P]
        BY <3>4
      <4> HIDE DEF P
      <4> QED
        BY <3>1, <4>1, <4>2
    <3> QED
      BY Zenon, <2>2, <3>2, <3>3, <3>4
  <2> QED
    BY <1>3, <1>9, <2>1, <2>3
<1>10. peer' \in [Peers -> PeerType]
  BY OwnerStep DEF OwnerInv
<1> QED
  BY <1>4, <1>6, <1>7, <1>8, <1>9, <1>10 DEF Peer!Next

\* Both parts of the inductive invariant hold in every state.
LEMMA PeerInvariant ==
    Peer!PeersAssumption => (Peer!Spec => [](OwnerInv /\ CallbackInv))
<1> SUFFICES ASSUME Peer!PeersAssumption
             PROVE  Peer!Spec => [](OwnerInv /\ CallbackInv)
  OBVIOUS
<1>1. Peer!Init => OwnerInv /\ CallbackInv
  BY PeerInitHolds
<1>2. OwnerInv /\ CallbackInv /\ [Peer!Next]_Peer!vars => OwnerInv' /\ CallbackInv'
  BY OwnerStep, CallbackStep
<1> QED
  BY <1>1, <1>2, PTL DEF Peer!Spec

\* For any number of peers and connections and any sequence of the callers'
\* calls, answers of the selector and socket events: every open socket has one
\* owner that will close it; a connection that is stored for keepalive has no
\* handler, timer or data of a request and logs where its owner does, or where
\* it did before it was attached; and, unless a caller connects a selected peer
\* again, what the get callback selected is freed once (event/peer/*.rs).
THEOREM PeersAlwaysExact ==
    Peer!PeersAssumption => (Peer!Spec => []Peer!PeersExact)
<1> SUFFICES ASSUME Peer!PeersAssumption
             PROVE  Peer!Spec => []Peer!PeersExact
  OBVIOUS
<1>1. OwnerInv /\ CallbackInv => Peer!PeersExact
  BY OwnerExact
<1> QED
  BY <1>1, PeerInvariant, PTL
=============================================================================
