-------------------------------- MODULE Sleep --------------------------------
(***************************************************************************)
(* The sleep future (src/src/async_/sleep.rs) on its nginx timer.          *)
(*                                                                         *)
(* nginx's millisecond clock wraps around, and a deadline lies ahead when  *)
(* its signed distance is positive.  A timer therefore reaches no further  *)
(* than the largest signed value, and a longer sleep arms it in steps.     *)
(*                                                                         *)
(* The future is polled by tasks, each with its waker.  A waker schedules  *)
(* its task, which is polled later: no poll runs inside the timer's        *)
(* callback.                                                               *)
(***************************************************************************)
EXTENDS Integers

CONSTANTS
    Wakers,       \* the tasks that may poll the sleep
    NoWaker,      \* no waker
    HalfRange,    \* ngx_msec_int_t::MAX + 1
    NanosPerMs,   \* NANOSECONDS_PER_MILLISECOND
    MsPerSec,     \* MILLISECONDS_PER_SECOND
    MaxSecs,      \* bound on the seconds of a duration
    MaxLate       \* bound on how late the event loop looks at a timer

VARIABLES
    duration,    \* the requested Duration
    remaining,   \* Sleep::remaining_milliseconds
    armed,       \* Sleep::armed_milliseconds
    timerSet, key, timedout, cancelable,   \* the timer's event
    waker,       \* SleepTimerState::waker
    woken,       \* tasks that will be polled
    polling,     \* the task that polled last
    done,        \* poll has returned Ready
    now,         \* milliseconds since the first poll
    origin       \* ngx_current_msec at the first poll

timer == <<timerSet, key, timedout, cancelable>>
vars == <<duration, remaining, armed, timer, waker, woken, polling, done, now,
          origin>>

\* A step of the timer is at least a millisecond.
SleepAssumption ==
    /\ HalfRange \in Nat /\ HalfRange > 1 /\ NanosPerMs \in Nat \ {0}
    /\ MsPerSec \in Nat /\ MaxSecs \in Nat /\ MaxLate \in Nat

Modulus == 2 * HalfRange
CurrentMsec == (origin + now) % Modulus
Durations == [secs: 0..MaxSecs, nanos: 0..(MsPerSec * NanosPerMs - 1)]

\* Mutant: the duration is rounded down.
MillisecondsFloor(d) == d.secs * MsPerSec + d.nanos \div NanosPerMs

\* duration_to_milliseconds_ceil.
MillisecondsCeil(d) ==
    IF d.nanos % NanosPerMs = 0 THEN MillisecondsFloor(d)
                                ELSE MillisecondsFloor(d) + 1

\* bounded_milliseconds and timer_step, of a remainder that is not zero.
TimerStep(rest) == IF rest < HalfRange THEN rest ELSE HalfRange - 1

TypeOK ==
    /\ duration \in Durations
    /\ remaining \in Nat /\ armed \in 0..(HalfRange - 1)
    /\ timerSet \in BOOLEAN /\ key \in 0..(Modulus - 1)
    /\ timedout \in BOOLEAN /\ cancelable \in BOOLEAN
    /\ waker \in Wakers \cup {NoWaker}
    /\ woken \subseteq Wakers
    /\ polling \in Wakers \cup {NoWaker}
    /\ done \in BOOLEAN
    /\ now \in Nat /\ origin \in 0..(Modulus - 1)

Init ==
    /\ duration \in Durations
    /\ remaining = MillisecondsCeil(duration)
    /\ armed = 0
    /\ timerSet = FALSE /\ key = 0 /\ timedout = FALSE /\ cancelable = FALSE
    /\ waker = NoWaker /\ woken = {} /\ polling = NoWaker
    /\ done = FALSE
    /\ now = 0
    /\ origin \in 0..(Modulus - 1)

-----------------------------------------------------------------------------
\* What is left after the poll has looked for an expiry.
Rest == IF timedout /\ remaining # 0 THEN remaining - armed ELSE remaining

PollReady(w) ==
    /\ Rest = 0
    /\ remaining' = 0
    /\ armed' = IF remaining # 0 THEN 0 ELSE armed
    /\ timedout' = (timedout /\ remaining = 0)
    /\ done' = TRUE
    /\ UNCHANGED <<timerSet, key, cancelable, waker>>

\* Mutant: the timer keeps the waker of an earlier poll.
PollArmedKeepWaker(w) ==
    /\ Rest # 0 /\ timerSet
    /\ waker' = waker
    /\ remaining' = Rest
    /\ armed' = IF timedout THEN 0 ELSE armed
    /\ timedout' = FALSE
    /\ UNCHANGED <<timerSet, key, cancelable, done>>

PollArmed(w) ==
    /\ Rest # 0 /\ timerSet
    /\ waker' = w
    /\ remaining' = Rest
    /\ armed' = IF timedout THEN 0 ELSE armed
    /\ timedout' = FALSE
    /\ UNCHANGED <<timerSet, key, cancelable, done>>

\* The next step of the sleep: Timer::arm.
PollArm(w) ==
    /\ Rest # 0 /\ ~timerSet
    /\ waker' = w
    /\ cancelable' = TRUE
    /\ remaining' = Rest
    /\ armed' = TimerStep(Rest)
    /\ timedout' = FALSE
    /\ timerSet' = TRUE
    /\ key' = (CurrentMsec + TimerStep(Rest)) % Modulus
    /\ UNCHANGED done

\* Sleep::poll by the task of waker w: the first poll, a poll that follows a
\* wakeup, or a poll for another reason, perhaps by
\* another task that the future was moved to.
Poll(w) ==
    /\ PollReady(w) \/ PollArmed(w) \/ PollArm(w)
    /\ polling' = w
    /\ woken' = woken \ {w}
    /\ UNCHANGED <<duration, now, origin>>

\* How long ago the deadline was; more than HalfRange when it lies ahead.
Overdue == (CurrentMsec - key) % Modulus

\* The clock.  The loop expires a timer and polls the task it woke before
\* more than MaxLate milliseconds have gone by.
Tick ==
    /\ polling # NoWaker /\ ~done
    /\ Overdue \notin MaxLate..(HalfRange - 1)
    /\ now' = now + 1
    /\ UNCHANGED <<duration, remaining, armed, timer, waker, woken, polling,
                   done, origin>>

\* ngx_event_expire_timers, timer_handler and sleep_timer_callback.
Expire ==
    /\ timerSet /\ Overdue <= HalfRange
    /\ timerSet' = FALSE
    /\ timedout' = TRUE
    /\ waker' = NoWaker
    /\ woken' = woken \cup ({waker} \ {NoWaker})
    /\ UNCHANGED <<duration, remaining, armed, key, cancelable, polling, done,
                   now, origin>>

\* The task that has the future is polled after it was woken.
PollWoken == polling \in woken /\ Poll(polling)

Next == (\E w \in Wakers : Poll(w)) \/ Tick \/ Expire

\* The clock goes on, the loop expires timers and a woken task is polled.
Fairness == WF_vars(Tick) /\ WF_vars(Expire) /\ WF_vars(PollWoken)

Spec == Init /\ [][Next]_vars /\ Fairness

-----------------------------------------------------------------------------
\* "Puts the current task to sleep for at least the specified amount of time",
\* over rounding, steps, early polls and the wrap of the clock.
SleepsLongEnough ==
    done => now * NanosPerMs >=
               duration.secs * MsPerSec * NanosPerMs + duration.nanos

\* An expiry accounts for the step that was armed: poll's checked_sub cannot
\* fail, and the steps done and the step under way are inside the duration.
\* A sleep never holds up a worker's graceful exit.
StepFits ==
    /\ armed <= remaining \/ remaining = 0
    /\ timedout /\ ~done => armed > 0
    /\ timerSet => armed > 0 /\ cancelable

\* What holds of a sleep in every state.
SleepsSafe == TypeOK /\ SleepsLongEnough /\ StepFits

\* A sleep ends, whichever task polled it last.
SleepEnds == polling # NoWaker ~> done
=============================================================================
