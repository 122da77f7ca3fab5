------------------------------- MODULE Alarm -------------------------------
(***************************************************************************)
(* The millisecond and microsecond alarms of alarm.c.  Every instance has  *)
(* one of each kind; both run the same code on another timer.  A request   *)
(* longer than the timer can hold is a chain of timers (mWrapData).  Time  *)
(* is kept as what is left of it; only the clock the stack reads is a      *)
(* point in time, and it wraps.                                            *)
(*                                                                         *)
(* Sleep closes the system: it says when the main loop runs.               *)
(***************************************************************************)
EXTENDS Integers

CONSTANTS
    NumInstances,  \* OPENTHREAD_CONFIG_MULTIPLE_INSTANCE_NUM
    Wrap,          \* the clocks count modulo this (2^32)
    MaxMs,         \* sl_sleeptimer_get_max_ms32_conversion
    Dts,           \* the durations the stack asks for
    MaxFired       \* bound: expiries of one alarm waiting to be processed

ASSUME AlarmAssumption ==
    /\ NumInstances \in Nat \ {0}
    /\ Wrap \in Nat /\ Wrap > 1
    /\ MaxMs \in 1..(Wrap - 1)
    /\ Dts \subseteq 0..(Wrap - 1)
    /\ MaxFired \in Nat \ {0}

VARIABLES
    now,               \* mTimerGetNow
    timer,             \* what is left on each timer, Off if it does not run
    mIsRunning, mFiredCount, overflow_counter, overflow_max,
    asked,             \* time left until what the stack asked for, or None
    crossed,           \* alarms whose aT0 was read before the clock wrapped
    wrapped,           \* a chain has gone from one timer to the next
    halted             \* an OT_ASSERT failed

handleVars == <<timer, mIsRunning, mFiredCount, overflow_counter, overflow_max>>
askedVars  == <<asked, crossed, wrapped>>
alarmVars  == <<now, handleVars, askedVars, halted>>

Kinds   == {"ms", "us"}
Handles == Kinds \X (1..NumInstances)
Off     == -1
None    == -1

\* The longest time the timer of h takes.
TimerMax(h) == IF h[1] = "ms" THEN MaxMs ELSE Wrap - 1

AlarmInit ==
    /\ now \in 0..(Wrap - 1)
    /\ timer = [h \in Handles |-> Off]
    /\ mIsRunning = [h \in Handles |-> FALSE]
    /\ mFiredCount = [h \in Handles |-> 0]
    /\ overflow_counter = [h \in Handles |-> 0]
    /\ overflow_max = [h \in Handles |-> 0]
    /\ asked = [h \in Handles |-> None]
    /\ crossed = {} /\ wrapped = FALSE /\ halted = FALSE

\* The clock is cut to 32 bits.  Mutation: it is not.
LongClock == now + 1
Clock     == (now + 1) % Wrap

\* One unit of time passes.  Interrupts are served within it.
Tick ==
    /\ \A h \in Handles : timer[h] # 0
    /\ now' = Clock
    /\ timer' = [h \in Handles |-> IF timer[h] = Off THEN Off ELSE timer[h] - 1]
    /\ asked' = [h \in Handles |-> IF asked[h] <= 0 THEN asked[h] ELSE asked[h] - 1]
    /\ UNCHANGED <<mIsRunning, mFiredCount, overflow_counter, overflow_max,
                   crossed, wrapped, halted>>

-----------------------------------------------------------------------------
(* A timer expires.                                                        *)

isAlarmOverflowInProgress(h) == overflow_counter[h] < overflow_max[h]

\* The next timer of a chain: from here on mIsRunning is FALSE.
\* Mutation: the chain goes on with what the first timer had.
ChainRepeats(h) == TimerMax(h) - 1
ChainLength(h) == TimerMax(h)

ContinueChain(h) ==
    /\ isAlarmOverflowInProgress(h)
    /\ mIsRunning' = [mIsRunning EXCEPT ![h] = FALSE]
    /\ overflow_counter' = [overflow_counter EXCEPT ![h] = @ + 1]
    /\ timer' = [timer EXCEPT ![h] = ChainLength(h)]
    /\ wrapped' = TRUE
    /\ UNCHANGED <<mFiredCount, overflow_max, asked, crossed>>

FireAlarm(h) ==
    /\ ~isAlarmOverflowInProgress(h)
    /\ mFiredCount[h] < MaxFired
    /\ mFiredCount' = [mFiredCount EXCEPT ![h] = @ + 1]
    /\ timer' = [timer EXCEPT ![h] = Off]
    /\ mIsRunning' = [mIsRunning EXCEPT ![h] = FALSE]
    /\ asked' = [asked EXCEPT ![h] = None]
    /\ crossed' = crossed \ {h}
    /\ UNCHANGED <<overflow_counter, overflow_max, wrapped>>

\* The interrupt of a timer; Signals says whether it ends with
\* otSysEventSignalPending.
AlarmCallback(h) ==
    /\ timer[h] = 0
    /\ ContinueChain(h) \/ FireAlarm(h)
    /\ UNCHANGED <<now, halted>>
Signals(h) == ~isAlarmOverflowInProgress(h)

-----------------------------------------------------------------------------
(* Calls of the stack, each in a critical section.                         *)

\* The timer of h once StopActiveAlarm has run.
\* Mutation: StartAlarmAt starts the timer without stopping it.
NotStopped(h) == timer[h]
Stopped(h) == IF mIsRunning[h] THEN Off ELSE timer[h]

\* otPlatAlarmMilliStartAt and MicroStartAt with an aT0 read lag units ago.
T0(lag)            == (now - lag) % Wrap
Remaining(lag, dt) == T0(lag) + dt - now
Crossed(h, lag)    == IF T0(lag) > now THEN crossed \cup {h} ELSE crossed \ {h}

StartInThePast(h, lag, dt) ==
    /\ Remaining(lag, dt) <= 0
    /\ mFiredCount[h] < MaxFired
    /\ mFiredCount' = [mFiredCount EXCEPT ![h] = @ + 1]
    /\ timer' = [timer EXCEPT ![h] = Stopped(h)]
    /\ mIsRunning' = [mIsRunning EXCEPT ![h] = FALSE]
    /\ asked' = [asked EXCEPT ![h] = None]
    /\ crossed' = crossed \ {h}
    /\ UNCHANGED <<overflow_counter, overflow_max, halted>>

\* SetAlarmWrappedDuration: the first timer, and how many follow it.
Overflows(h, remaining) == remaining > TimerMax(h)
FirstTimer(h, remaining) ==
    IF Overflows(h, remaining) THEN remaining % TimerMax(h) ELSE remaining
TimersAfter(h, remaining) ==
    IF Overflows(h, remaining) THEN remaining \div TimerMax(h) ELSE 0

\* msTimerStart asserts that the timer could be started; RAIL starts anew.
StartInTheFuture(h, lag, dt) ==
    LET remaining == Remaining(lag, dt) IN
    /\ remaining > 0
    /\ overflow_counter' = [overflow_counter EXCEPT ![h] = 0]
    /\ overflow_max' = [overflow_max EXCEPT ![h] = TimersAfter(h, remaining)]
    /\ timer' = [timer EXCEPT ![h] = FirstTimer(h, remaining)]
    /\ mIsRunning' = [mIsRunning EXCEPT ![h] = TRUE]
    /\ halted' = (h[1] = "ms" /\ Stopped(h) # Off)
    /\ asked' = [asked EXCEPT ![h] = IF dt > lag THEN dt - lag ELSE 0]
    /\ crossed' = Crossed(h, lag)
    /\ UNCHANGED mFiredCount

StartAlarmAt(h, lag, dt) ==
    /\ StartInThePast(h, lag, dt) \/ StartInTheFuture(h, lag, dt)
    /\ UNCHANGED <<now, wrapped>>
SignalsAt(lag, dt) == Remaining(lag, dt) <= 0

\* otPlatAlarmMilliStop and MicroStop.
StopActiveAlarm(h) ==
    /\ timer' = [timer EXCEPT ![h] = Stopped(h)]
    /\ mIsRunning' = [mIsRunning EXCEPT ![h] = FALSE]
    /\ asked' = [asked EXCEPT ![h] = None]
    /\ crossed' = crossed \ {h}
    /\ UNCHANGED <<now, mFiredCount, overflow_counter, overflow_max,
                   wrapped, halted>>

-----------------------------------------------------------------------------
(* What the main loop and the sleep hooks read.                            *)

FiredFrom(kind, i) == {k \in i..NumInstances : mFiredCount[<<kind, k>>] > 0}
HasAnyAlarmFired   == \E h \in Handles : mFiredCount[h] > 0

\* ProcessAlarm takes the count; the callbacks follow.
TakeFired(h) ==
    /\ mFiredCount' = [mFiredCount EXCEPT ![h] = 0]
    /\ UNCHANGED <<now, timer, mIsRunning, overflow_counter, overflow_max,
                   askedVars, halted>>

efr32AlarmIsRunning(i) == mIsRunning[<<"ms", i>>]

-----------------------------------------------------------------------------
AlarmTypeOK ==
    /\ now \in 0..(Wrap - 1)
    /\ timer \in [Handles -> Nat \cup {Off}]
    /\ mIsRunning \in [Handles -> BOOLEAN]
    /\ mFiredCount \in [Handles -> 0..MaxFired]
    /\ overflow_counter \in [Handles -> Nat]
    /\ overflow_max \in [Handles -> Nat]
    /\ asked \in [Handles -> Nat \cup {None}]
    /\ crossed \subseteq Handles
    /\ wrapped \in BOOLEAN /\ halted \in BOOLEAN

\* An alarm expires exactly when the stack asked for it: what is left on its
\* timer and on the timers that follow is what is left of the request.  It is
\* a period of the clock late when the clock wrapped between the reading of
\* aT0 and the start.
AlarmOnTime ==
    \A h \in Handles :
        asked[h] # None /\ h \notin crossed /\ ~halted =>
            /\ timer[h] # Off
            /\ timer[h] + (overflow_max[h] - overflow_counter[h]) * TimerMax(h)
                 = asked[h]

\* Until a chain has gone on to its next timer, mIsRunning says whether the
\* timer runs, so that a stop stops it; and no assertion on a timer fails.
AlarmTracked ==
    ~wrapped => /\ ~halted
                /\ \A h \in Handles : mIsRunning[h] <=> timer[h] # Off
=============================================================================
