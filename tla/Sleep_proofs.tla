---------------------------- MODULE Sleep_proofs ----------------------------
(***************************************************************************)
(* The alarms and the sleep hooks under the main loop, for any number of   *)
(* instances and any width of the clocks.  Invariant Tracked ties each     *)
(* timer to mIsRunning, Due to the time the stack asked for, and Awake     *)
(* the wake requirement to what it was set from.                           *)
(***************************************************************************)
EXTENDS Sleep, TLAPS

\* Where the power manager decides: no step of the stack comes between.
Deciding == {"sleep", "asleep", "isrExit"}

Awake ==
    /\ pc \in Deciding => (sWakeRequirementSet <=> shouldStayAwake)
    /\ AsleepMeansIdle

LEMMA AwakeInit == WakeInit => Awake
  BY DEF WakeInit, Awake, Deciding, AsleepMeansIdle

\* Only an expiry, a start in the past or the main loop changes what has fired.
LEMMA FiredSame ==
    ASSUME UNCHANGED mFiredCount
    PROVE  HasAnyAlarmFired' <=> HasAnyAlarmFired
  BY DEF HasAnyAlarmFired

LEMMA TimerAwake ==
    ASSUME Awake, NEW h \in Handles, TimerInterrupt(h)
    PROVE  Awake'
<1>1. pc' # "asleep"
  BY DEF TimerInterrupt, Interrupts
<1>2. pc' \in Deciding => pc \in Deciding
  BY DEF TimerInterrupt, Interrupts, Deciding
<1>3. CASE Signals(h)
  BY <1>1, <1>3 DEF TimerInterrupt, sl_ot_sleep_update, Awake, AsleepMeansIdle
<1>4. CASE ~Signals(h)
  <2>1. UNCHANGED <<mFiredCount, uartReady, allowSleep, sWakeRequirementSet>>
    BY <1>4 DEF TimerInterrupt, AlarmCallback, ContinueChain, FireAlarm, Signals, NotSignalled
  <2>2. shouldStayAwake' <=> shouldStayAwake
    BY <2>1, FiredSame DEF shouldStayAwake, isPlatformEventPending
  <2> QED BY <1>1, <1>2, <2>1, <2>2 DEF Awake, AsleepMeansIdle
<1> QED BY <1>3, <1>4

LEMMA UartAwake == ASSUME Awake, UartInterrupt PROVE Awake'
<1>1. pc' # "asleep"
  BY DEF UartInterrupt, Interrupts
<1> QED BY <1>1 DEF UartInterrupt, sl_ot_sleep_update, Awake, AsleepMeansIdle

LEMMA OthersAwake ==
    ASSUME Awake, TimePasses \/ UNCHANGED wakeVars
    PROVE  Awake'
<1>1. UNCHANGED <<mFiredCount, sWakeRequirementSet, uartReady, allowSleep, tasklets, pc>>
  BY DEF TimePasses, Tick, sleepVars, loopVars, wakeVars, alarmVars, handleVars
<1>2. (HasAnyAlarmFired' <=> HasAnyAlarmFired) /\ (shouldStayAwake' <=> shouldStayAwake)
  BY <1>1, FiredSame DEF shouldStayAwake, isPlatformEventPending
<1> QED BY <1>1, <1>2 DEF Awake, AsleepMeansIdle

LEMMA StackAwake == ASSUME Stack PROVE Awake'
<1>1. pc \in {"tasklets", "callback"} /\ pc' = pc
  BY DEF Stack, StackStartsAlarm, StackStopsAlarm, StackSends, StackPostsTasklet, AppDecides,
     InStack, loopVars
<1> QED BY <1>1 DEF Awake, AsleepMeansIdle, Deciding

\* What the power manager asks before it sleeps.
LEMMA OkMeansIdle ==
    ASSUME Awake, pc \in Deciding, OkToSleep
    PROVE  allowSleep /\ ~tasklets /\ ~HasAnyAlarmFired /\ ~uartReady
  BY DEF Awake, OkToSleep, sl_ot_is_ok_to_sleep, shouldInterruptSleep, shouldStayAwake,
     isPlatformEventPending

LEMMA LoopAwake == ASSUME Awake, MainLoop PROVE Awake'
<1>1. CASE TaskletsRun \/ SerialRuns \/ AlarmsBegin \/ AlarmFound \/ AlarmListEnds
             \/ CallbackReturns
  <2>1. pc' \in {"serial", "alarms", "scan", "signal", "callback"}
    BY <1>1 DEF TaskletsRun, SerialRuns, AlarmsBegin, AlarmFound, AlarmListEnds,
       CallbackReturns, Goto
  <2> QED BY <2>1 DEF Awake, AsleepMeansIdle, Deciding
<1>2. CASE PassEnds
  BY <1>2 DEF PassEnds, Goto, sl_ot_sleep_update, Awake, AsleepMeansIdle
<1>3. CASE SleepDecides \/ IsrExits
  <2>1. /\ UNCHANGED <<mFiredCount, sWakeRequirementSet, uartReady, allowSleep, tasklets>>
        /\ pc \in Deciding
        /\ pc' = "tasklets" \/ (pc' = "asleep" /\ OkToSleep)
    BY <1>3 DEF SleepDecides, IsrExits, Goto, sleepVars, alarmVars, handleVars, Deciding
  <2>2. (HasAnyAlarmFired' <=> HasAnyAlarmFired) /\ (shouldStayAwake' <=> shouldStayAwake)
    BY <2>1, FiredSame DEF shouldStayAwake, isPlatformEventPending
  <2>3. CASE pc' = "tasklets"
    BY <2>3 DEF Awake, AsleepMeansIdle, Deciding
  <2>4. CASE pc' = "asleep" /\ OkToSleep
    <3>1. AsleepMeansIdle'
      BY <2>1, <2>2, <2>4, OkMeansIdle DEF AsleepMeansIdle
    <3> QED BY <2>1, <2>2, <3>1 DEF Awake
  <2> QED BY <2>1, <2>3, <2>4
<1> QED BY <1>1, <1>2, <1>3 DEF MainLoop

\* Whatever interrupt comes between any two steps, the system sleeps only
\* with nothing left for the main loop.
THEOREM SleepsIdle == WakeSpec => []AsleepMeansIdle
<1>1. Awake /\ [WakeNext]_wakeVars => Awake'
  BY TimerAwake, UartAwake, OthersAwake, StackAwake, LoopAwake DEF WakeNext
<1>2. Awake => AsleepMeansIdle
  BY DEF Awake
<1> QED BY AwakeInit, <1>1, <1>2, PTL DEF WakeSpec

-----------------------------------------------------------------------------
(* The alarms.                                                             *)

LEMMA Constants ==
    /\ Wrap \in Nat /\ Wrap > 1 /\ MaxFired \in Nat
    /\ \A dt \in Dts : dt \in 0..(Wrap - 1)
    /\ \A h \in Handles : TimerMax(h) \in Nat /\ TimerMax(h) > 0
  BY AlarmAssumption DEF TimerMax

\* What the timers that have not come yet add to the one that runs.
Chained(h)  == overflow_max[h] - overflow_counter[h]
Bounded     == \A h \in Handles : overflow_counter[h] <= overflow_max[h]

AlarmInv == AlarmTypeOK /\ Bounded /\ AlarmTracked /\ AlarmOnTime

\* What a step of the system does to the alarms.
AlarmStep ==
    \/ Tick \/ UNCHANGED alarmVars
    \/ \E h \in Handles :
          \/ AlarmCallback(h) \/ StopActiveAlarm(h) \/ TakeFired(h)
          \/ \E lag \in {0, 1}, dt \in Dts : StartAlarmAt(h, lag, dt)

LEMMA AlarmInitInv == AlarmInit => AlarmInv
<1> SUFFICES ASSUME AlarmInit PROVE AlarmInv
  OBVIOUS
<1>1. 0 \in 0..MaxFired
  BY Constants
<1>2. AlarmTypeOK
  BY <1>1 DEF AlarmInit, AlarmTypeOK, Off, None
<1>3. Bounded /\ AlarmTracked /\ AlarmOnTime
  BY DEF AlarmInit, Bounded, AlarmTracked, AlarmOnTime
<1> QED BY <1>2, <1>3 DEF AlarmInv

LEMMA UntouchedInv == ASSUME AlarmInv, UNCHANGED alarmVars PROVE AlarmInv'
  BY DEF AlarmInv, AlarmTypeOK, Bounded, AlarmTracked, AlarmOnTime, alarmVars, handleVars,
     askedVars

LEMMA StopInv ==
    ASSUME AlarmInv, NEW h \in Handles, StopActiveAlarm(h)
    PROVE  AlarmInv'
<1>1. AlarmTypeOK'
  BY DEF AlarmInv, AlarmTypeOK, StopActiveAlarm, Stopped, Off, None
<1>2. AlarmTracked'
  BY DEF AlarmInv, AlarmTypeOK, AlarmTracked, StopActiveAlarm, Stopped
<1>3. Bounded' /\ AlarmOnTime'
  BY DEF AlarmInv, AlarmTypeOK, Bounded, AlarmOnTime, StopActiveAlarm, None
<1> QED BY <1>1, <1>2, <1>3 DEF AlarmInv

LEMMA TakeInv ==
    ASSUME AlarmInv, NEW h \in Handles, TakeFired(h)
    PROVE  AlarmInv'
<1>1. 0 \in 0..MaxFired
  BY Constants
<1>2. AlarmTypeOK'
  BY <1>1 DEF AlarmInv, AlarmTypeOK, TakeFired, askedVars
<1> QED BY <1>2 DEF AlarmInv, Bounded, AlarmTracked, AlarmOnTime, TakeFired, askedVars

LEMMA TickInv == ASSUME AlarmInv, Tick PROVE AlarmInv'
<1>1. /\ \A h \in Handles : timer[h] # 0
      /\ now' = Clock
      /\ timer' = [h \in Handles |-> IF timer[h] = Off THEN Off ELSE timer[h] - 1]
      /\ asked' = [h \in Handles |-> IF asked[h] <= 0 THEN asked[h] ELSE asked[h] - 1]
      /\ UNCHANGED <<mIsRunning, mFiredCount, overflow_counter, overflow_max,
                     crossed, wrapped, halted>>
  BY DEF Tick
<1>2. now' \in 0..(Wrap - 1)
  BY <1>1, Constants DEF Clock, AlarmInv, AlarmTypeOK
<1>3. /\ timer' \in [Handles -> Nat \cup {Off}]
      /\ \A h \in Handles : timer'[h] = Off <=> timer[h] = Off
  BY <1>1 DEF AlarmInv, AlarmTypeOK, Off
<1>4. asked' \in [Handles -> Nat \cup {None}]
  BY <1>1 DEF AlarmInv, AlarmTypeOK, None
<1>5. AlarmTypeOK'
  BY <1>1, <1>2, <1>3, <1>4 DEF AlarmInv, AlarmTypeOK
<1>6. AlarmTracked' /\ Bounded'
  BY <1>1, <1>3 DEF AlarmInv, AlarmTracked, Bounded
<1>7. AlarmOnTime'
  <2>1. SUFFICES ASSUME NEW h \in Handles, asked'[h] # None, h \notin crossed, ~halted
                 PROVE  /\ timer'[h] # Off
                        /\ timer'[h] + Chained(h) * TimerMax(h) = asked'[h]
    BY <1>1 DEF AlarmOnTime, Chained
  <2>2. /\ timer[h] \in Nat /\ timer[h] > 0 /\ asked[h] \in Nat
        /\ timer[h] + Chained(h) * TimerMax(h) = asked[h]
    BY <1>1, <2>1 DEF AlarmInv, AlarmTypeOK, AlarmOnTime, Chained, Off, None
  <2>3. Chained(h) \in Nat /\ Chained(h) * TimerMax(h) \in Nat
    BY Constants DEF AlarmInv, AlarmTypeOK, Bounded, Chained
  <2>4. asked[h] > 0
    BY <2>2, <2>3
  <2>5. timer'[h] = timer[h] - 1 /\ asked'[h] = asked[h] - 1
    BY <1>1, <2>2, <2>4 DEF Off
  <2> QED BY <2>2, <2>3, <2>5 DEF Off
<1> QED BY <1>5, <1>6, <1>7 DEF AlarmInv

\* One timer of a chain gives way to the next.
LEMMA ChainProduct ==
    ASSUME NEW n \in Nat, n > 0, NEW m \in Nat
    PROVE  m + (n - 1) * m = n * m
  OBVIOUS

LEMMA ContinueInv ==
    ASSUME AlarmInv, NEW h \in Handles, timer[h] = 0, ContinueChain(h), UNCHANGED <<now, halted>>
    PROVE  AlarmInv'
<1>1. /\ overflow_counter[h] < overflow_max[h]
      /\ mIsRunning' = [mIsRunning EXCEPT ![h] = FALSE]
      /\ overflow_counter' = [overflow_counter EXCEPT ![h] = @ + 1]
      /\ timer' = [timer EXCEPT ![h] = TimerMax(h)]
      /\ wrapped' = TRUE
      /\ UNCHANGED <<mFiredCount, overflow_max, asked, crossed, now, halted>>
  BY DEF ContinueChain, isAlarmOverflowInProgress, ChainLength
<1>2. TimerMax(h) \in Nat /\ TimerMax(h) # Off
  BY Constants DEF Off
<1>3. AlarmTypeOK'
  BY <1>1, <1>2 DEF AlarmInv, AlarmTypeOK
<1>4. Bounded' /\ AlarmTracked'
  BY <1>1 DEF AlarmInv, AlarmTypeOK, Bounded, AlarmTracked
<1>5. AlarmOnTime'
  <2>1. SUFFICES ASSUME NEW g \in Handles, asked[g] # None, g \notin crossed, ~halted
                 PROVE  /\ timer'[g] # Off
                        /\ timer'[g] + Chained(g)' * TimerMax(g) = asked[g]
    BY <1>1 DEF AlarmOnTime, Chained
  <2>2. timer[g] # Off /\ timer[g] + Chained(g) * TimerMax(g) = asked[g]
    BY <2>1 DEF AlarmInv, AlarmOnTime, Chained
  <2>3. CASE g # h
    <3>1. timer'[g] = timer[g] /\ Chained(g)' = Chained(g)
      BY <1>1, <2>3 DEF Chained, AlarmInv, AlarmTypeOK
    <3> QED BY <2>2, <3>1
  <2>4. CASE g = h
    <3>1. /\ timer'[h] = TimerMax(h) /\ Chained(h)' = Chained(h) - 1
          /\ Chained(h) \in Nat /\ Chained(h) > 0
      BY <1>1 DEF Chained, AlarmInv, AlarmTypeOK
    <3>2. TimerMax(h) + (Chained(h) - 1) * TimerMax(h) = Chained(h) * TimerMax(h)
      BY <1>2, <3>1, ChainProduct
    <3>3. Chained(h) * TimerMax(h) = asked[h]
      <4>1. Chained(h) * TimerMax(h) \in Int
        BY <1>2, <3>1
      <4> QED BY <2>2, <2>4, <4>1
    <3> QED BY <1>2, <2>4, <3>1, <3>2, <3>3
  <2> QED BY <2>3, <2>4
<1> QED BY <1>3, <1>4, <1>5 DEF AlarmInv

LEMMA FireInv ==
    ASSUME AlarmInv, NEW h \in Handles, FireAlarm(h), UNCHANGED <<now, halted>>
    PROVE  AlarmInv'
<1>1. mFiredCount[h] + 1 \in 0..MaxFired
  BY Constants DEF FireAlarm, AlarmInv, AlarmTypeOK
<1>2. AlarmTypeOK'
  BY <1>1 DEF AlarmInv, AlarmTypeOK, FireAlarm
<1>3. Bounded' /\ AlarmTracked' /\ AlarmOnTime'
  BY DEF AlarmInv, AlarmTypeOK, Bounded, AlarmTracked, AlarmOnTime, FireAlarm
<1> QED BY <1>2, <1>3 DEF AlarmInv

LEMMA PastInv ==
    ASSUME AlarmInv, NEW h \in Handles, NEW lag \in {0, 1}, NEW dt \in Dts,
           StartInThePast(h, lag, dt), UNCHANGED <<now, wrapped>>
    PROVE  AlarmInv'
<1>1. mFiredCount[h] + 1 \in 0..MaxFired
  BY Constants DEF StartInThePast, AlarmInv, AlarmTypeOK
<1>2. Stopped(h) \in Nat \cup {Off}
  BY DEF Stopped, AlarmInv, AlarmTypeOK
<1>3. AlarmTypeOK'
  BY <1>1, <1>2 DEF AlarmInv, AlarmTypeOK, StartInThePast
<1>4. Bounded' /\ AlarmTracked' /\ AlarmOnTime'
  BY DEF AlarmInv, AlarmTypeOK, Bounded, AlarmTracked, AlarmOnTime, StartInThePast, Stopped
<1> QED BY <1>3, <1>4 DEF AlarmInv

\* SetAlarmWrappedDuration divides the request without a remainder left over.
LEMMA Divided ==
    ASSUME NEW n \in Nat, NEW m \in Nat, m > 0
    PROVE  /\ n % m \in Nat /\ n \div m \in Nat
           /\ (n % m) + (n \div m) * m = n
  OBVIOUS

LEMMA FutureInv ==
    ASSUME AlarmInv, ~halted, NEW h \in Handles, NEW lag \in {0, 1}, NEW dt \in Dts,
           StartInTheFuture(h, lag, dt), UNCHANGED <<now, wrapped>>
    PROVE  AlarmInv'
<1> DEFINE remaining == Remaining(lag, dt)
<1>1. /\ dt \in Nat /\ T0(lag) \in Nat /\ now \in Nat /\ Wrap \in Nat /\ now < Wrap
      /\ T0(lag) <= now => T0(lag) = now - lag
  <2>1. /\ dt \in Nat /\ Wrap \in Nat /\ Wrap > 1 /\ now \in 0..(Wrap - 1)
    BY Constants DEF AlarmInv, AlarmTypeOK
  <2>2. CASE lag <= now
    BY <2>1, <2>2 DEF T0
  <2>3. CASE lag > now
    <3>1. now = 0 /\ lag = 1 /\ (now - lag) % Wrap = Wrap - 1
      BY <2>1, <2>3
    <3> QED BY <2>1, <3>1 DEF T0
  <2> QED BY <2>1, <2>2, <2>3
<1>2. /\ remaining \in Nat /\ remaining > 0
      /\ T0(lag) <= now => remaining = dt - lag
  BY <1>1 DEF StartInTheFuture, Remaining
<1> HIDE DEF remaining
<1>3. /\ FirstTimer(h, remaining) \in Nat /\ TimersAfter(h, remaining) \in Nat
      /\ FirstTimer(h, remaining) + TimersAfter(h, remaining) * TimerMax(h) = remaining
  <2>1. TimerMax(h) \in Nat /\ TimerMax(h) > 0
    BY Constants
  <2>2. CASE Overflows(h, remaining)
    BY <1>2, <2>1, <2>2, Divided DEF FirstTimer, TimersAfter
  <2>3. CASE ~Overflows(h, remaining)
    BY <1>2, <2>1, <2>3 DEF FirstTimer, TimersAfter
  <2> QED BY <2>2, <2>3
<1>4. /\ overflow_counter' = [overflow_counter EXCEPT ![h] = 0]
      /\ overflow_max' = [overflow_max EXCEPT ![h] = TimersAfter(h, remaining)]
      /\ timer' = [timer EXCEPT ![h] = FirstTimer(h, remaining)]
      /\ mIsRunning' = [mIsRunning EXCEPT ![h] = TRUE]
      /\ halted' = (h[1] = "ms" /\ Stopped(h) # Off)
      /\ asked' = [asked EXCEPT ![h] = IF dt > lag THEN dt - lag ELSE 0]
      /\ crossed' = Crossed(h, lag)
      /\ UNCHANGED <<now, wrapped, mFiredCount>>
  BY DEF StartInTheFuture, remaining
<1>5. AlarmTypeOK'
  <2>1. asked' \in [Handles -> Nat \cup {None}]
    BY <1>1, <1>4 DEF AlarmInv, AlarmTypeOK
  <2>2. crossed' \subseteq Handles
    BY <1>4 DEF AlarmInv, AlarmTypeOK, Crossed
  <2>3. halted' \in BOOLEAN
    BY <1>4
  <2> QED BY <1>3, <1>4, <2>1, <2>2, <2>3 DEF AlarmInv, AlarmTypeOK
<1>6. Bounded'
  BY <1>3, <1>4 DEF AlarmInv, AlarmTypeOK, Bounded
<1>7. AlarmTracked'
  <2>1. SUFFICES ASSUME ~wrapped
                 PROVE  ~halted' /\ \A g \in Handles : mIsRunning'[g] <=> timer'[g] # Off
    BY <1>4 DEF AlarmTracked
  <2>2. Stopped(h) = Off
    BY <2>1 DEF AlarmInv, AlarmTracked, Stopped
  <2>3. \A g \in Handles : mIsRunning'[g] <=> timer'[g] # Off
    BY <1>3, <1>4, <2>1 DEF AlarmInv, AlarmTypeOK, AlarmTracked, Off
  <2> QED BY <1>4, <2>2, <2>3
<1>8. AlarmOnTime'
  <2>1. SUFFICES ASSUME NEW g \in Handles, asked'[g] # None, g \notin crossed'
                 PROVE  /\ timer'[g] # Off
                        /\ timer'[g] + Chained(g)' * TimerMax(g) = asked'[g]
    BY DEF AlarmOnTime, Chained
  <2>2. CASE g = h
    <3>1. remaining = dt - lag /\ dt > lag
      BY <1>1, <1>2, <1>4, <2>1, <2>2 DEF Crossed
    <3>2. /\ timer'[h] = FirstTimer(h, remaining) /\ asked'[h] = remaining
          /\ Chained(h)' = TimersAfter(h, remaining)
      BY <1>3, <1>4, <3>1 DEF Chained, AlarmInv, AlarmTypeOK
    <3> QED BY <1>3, <2>2, <3>2 DEF Off
  <2>3. CASE g # h
    <3>1. /\ timer'[g] = timer[g] /\ asked'[g] = asked[g] /\ Chained(g)' = Chained(g)
          /\ g \notin crossed
      BY <1>4, <2>1, <2>3 DEF Chained, Crossed, AlarmInv, AlarmTypeOK
    <3> QED BY <2>1, <3>1 DEF AlarmInv, AlarmOnTime, Chained
  <2> QED BY <2>2, <2>3
<1> QED BY <1>5, <1>6, <1>7, <1>8 DEF AlarmInv

LEMMA AlarmStepInv == ASSUME AlarmInv, AlarmStep, ~halted \/ UNCHANGED alarmVars PROVE AlarmInv'
<1>1. CASE Tick
  BY <1>1, TickInv
<1>2. CASE UNCHANGED alarmVars
  BY <1>2, UntouchedInv
<1>3. ASSUME NEW h \in Handles, AlarmCallback(h) PROVE AlarmInv'
  BY <1>3, ContinueInv, FireInv DEF AlarmCallback
<1>4. ASSUME NEW h \in Handles, StopActiveAlarm(h) \/ TakeFired(h) PROVE AlarmInv'
  BY <1>4, StopInv, TakeInv
<1>5. ASSUME ~halted, NEW h \in Handles, NEW lag \in {0, 1}, NEW dt \in Dts,
             StartAlarmAt(h, lag, dt)
      PROVE  AlarmInv'
  BY <1>5, PastInv, FutureInv DEF StartAlarmAt
<1> QED BY <1>1, <1>2, <1>3, <1>4, <1>5 DEF AlarmStep

-----------------------------------------------------------------------------
(* The system.                                                             *)

\* Every step of the system is one of the alarms or leaves them alone.
LEMMA StepIsAlarms ==
    ASSUME [WakeNext]_wakeVars, cursor \in Handles
    PROVE  AlarmStep /\ (~halted \/ UNCHANGED alarmVars)
<1>1. CASE UNCHANGED wakeVars
  BY <1>1 DEF wakeVars, AlarmStep
<1>2. CASE \E h \in Handles : TimerInterrupt(h)
  BY <1>2 DEF WakeNext, wakeVars, TimerInterrupt, AlarmStep
<1>3. CASE UartInterrupt
  BY <1>3 DEF WakeNext, wakeVars, UartInterrupt, AlarmStep
<1>4. CASE TimePasses
  BY <1>4 DEF WakeNext, wakeVars, TimePasses, AlarmStep
<1>5. CASE Stack
  BY <1>5 DEF WakeNext, wakeVars, Stack, StackStartsAlarm, StackStopsAlarm, StackSends, StackPostsTasklet,
     AppDecides, AlarmStep
<1>6. CASE MainLoop
  <2>1. CASE AlarmFound
    <3>1. PICK i \in FiredFrom(cursor[1], cursor[2]) : TakeFired(<<cursor[1], i>>)
      BY <2>1 DEF AlarmFound
    <3>2. <<cursor[1], i>> \in Handles
      BY AlarmAssumption DEF Handles, FiredFrom
    <3> QED BY <1>6, <3>1, <3>2 DEF AlarmStep, WakeNext, wakeVars
  <2>2. CASE ~AlarmFound
    BY <1>6, <2>2 DEF WakeNext, wakeVars, MainLoop, TaskletsRun, SerialRuns, AlarmsBegin, AlarmListEnds,
       CallbackReturns, PassEnds, SleepDecides, IsrExits, AlarmStep
  <2> QED BY <2>1, <2>2
<1> QED BY <1>1, <1>2, <1>3, <1>4, <1>5, <1>6 DEF WakeNext

LoopTypes ==
    /\ sWakeRequirementSet \in BOOLEAN /\ uartReady \in BOOLEAN
    /\ allowSleep \in BOOLEAN /\ tasklets \in BOOLEAN
    /\ pc \in Locations /\ cursor \in Handles
    /\ calls \in 0..MaxFired
    /\ pc = "callback" => calls > 0

LEMMA FirstHandles == <<"ms", 1>> \in Handles /\ <<"us", 1>> \in Handles
  BY AlarmAssumption DEF Handles, Kinds

LEMMA LoopTypesInit == WakeInit => LoopTypes
<1>1. 0 \in 0..MaxFired
  BY Constants
<1> QED BY <1>1, FirstHandles DEF WakeInit, LoopTypes, Locations

LEMMA MainLoopTypes == ASSUME LoopTypes, AlarmTypeOK, MainLoop PROVE LoopTypes'
<1>1. CASE TaskletsRun \/ SerialRuns \/ PassEnds
  BY <1>1 DEF TaskletsRun, SerialRuns, PassEnds, Goto, sl_ot_sleep_update, NotSignalled,
     shouldStayAwake, LoopTypes, Locations
<1>2. CASE SleepDecides \/ IsrExits
  BY <1>2 DEF SleepDecides, IsrExits, Goto, sleepVars, LoopTypes, Locations
<1>3. CASE AlarmsBegin \/ AlarmListEnds
  BY <1>3, FirstHandles DEF AlarmsBegin, AlarmListEnds, Goto, sleepVars, LoopTypes, Locations
<1>4. CASE AlarmFound
  <2>1. PICK i \in FiredFrom(cursor[1], cursor[2]) :
               cursor' = <<cursor[1], i>> /\ calls' = mFiredCount[<<cursor[1], i>>]
    BY <1>4 DEF AlarmFound
  <2>2. cursor' \in Handles
    BY <2>1, AlarmAssumption DEF LoopTypes, Handles, FiredFrom
  <2>3. calls' \in 0..MaxFired /\ calls' > 0
    BY <2>1, <2>2, Constants DEF FiredFrom, AlarmTypeOK
  <2> QED BY <1>4, <2>2, <2>3 DEF AlarmFound, Goto, sleepVars, LoopTypes, Locations
<1>5. CASE CallbackReturns
  <2>1. /\ calls \in 1..MaxFired /\ calls' = calls - 1
        /\ pc' = IF calls > 1 THEN "callback" ELSE "scan"
        /\ UNCHANGED <<sleepVars, cursor>>
    BY <1>5, Constants DEF CallbackReturns, Goto, LoopTypes
  <2>2. calls' \in 0..MaxFired /\ (pc' = "callback" => calls' > 0)
    BY <2>1, Constants
  <2> QED BY <2>1, <2>2 DEF sleepVars, LoopTypes, Locations
<1> QED BY <1>1, <1>2, <1>3, <1>4, <1>5 DEF MainLoop

LEMMA OtherTypes ==
    ASSUME LoopTypes,
           \/ UNCHANGED wakeVars \/ \E h \in Handles : TimerInterrupt(h)
           \/ UartInterrupt \/ TimePasses \/ Stack
    PROVE  LoopTypes'
<1>1. CASE UNCHANGED wakeVars
  BY <1>1 DEF LoopTypes, wakeVars, sleepVars, loopVars
<1>2. CASE TimePasses
  BY <1>2 DEF TimePasses, LoopTypes, sleepVars, loopVars
<1>3. CASE UartInterrupt
  BY <1>3 DEF UartInterrupt, Interrupts, sl_ot_sleep_update, shouldStayAwake, LoopTypes, Locations
<1>4. ASSUME NEW h \in Handles, TimerInterrupt(h) PROVE LoopTypes'
  BY <1>4 DEF TimerInterrupt, Interrupts, sl_ot_sleep_update, NotSignalled, shouldStayAwake,
     LoopTypes, Locations
<1>5. CASE Stack
  <2>1. /\ UNCHANGED <<pc, cursor, calls>>
        /\ sWakeRequirementSet' \in BOOLEAN /\ uartReady' \in BOOLEAN
        /\ allowSleep' \in BOOLEAN /\ tasklets' \in BOOLEAN
    BY <1>5 DEF Stack, StackStartsAlarm, StackStopsAlarm, StackSends, StackPostsTasklet,
       AppDecides, sl_ot_sleep_update, NotSignalled, shouldStayAwake, sleepVars, loopVars, LoopTypes
  <2> QED BY <2>1 DEF LoopTypes
<1> QED BY <1>1, <1>2, <1>3, <1>4, <1>5

WakeInv == AlarmInv /\ LoopTypes

LEMMA WakeInvariant == WakeSpec => []WakeInv
<1>1. WakeInit => WakeInv
  BY AlarmInitInv, LoopTypesInit DEF WakeInv, WakeInit
<1>2. ASSUME WakeInv, [WakeNext]_wakeVars PROVE WakeInv'
  <2>1. AlarmInv'
    BY <1>2, StepIsAlarms, AlarmStepInv DEF WakeInv, LoopTypes
  <2>2. LoopTypes'
    BY <1>2, MainLoopTypes, OtherTypes DEF WakeInv, AlarmInv, WakeNext
  <2> QED BY <2>1, <2>2 DEF WakeInv
<1> QED BY <1>1, <1>2, PTL DEF WakeSpec

\* Every variable of the main loop, the hooks and the alarms keeps its type:
\* no counter of alarm.c goes below zero or beyond its bound.
THEOREM WakeTypes == WakeSpec => []WakeTypeOK
<1>1. WakeInv => WakeTypeOK
  BY DEF WakeInv, AlarmInv, LoopTypes, WakeTypeOK
<1> QED BY WakeInvariant, <1>1, PTL

\* For every width of the clock and every maximum of a timer: what is left of
\* a timer and of those chained behind it is what is left of the request.
THEOREM OnTime == WakeSpec => []AlarmOnTime
<1>1. WakeInv => AlarmOnTime
  BY DEF WakeInv, AlarmInv
<1> QED BY WakeInvariant, <1>1, PTL

\* Until a chain goes on, mIsRunning follows the timer and no start asserts.
THEOREM Tracked == WakeSpec => []AlarmTracked
<1>1. WakeInv => AlarmTracked
  BY DEF WakeInv, AlarmInv
<1> QED BY WakeInvariant, <1>1, PTL
=============================================================================
