------------------------------- MODULE Sleep -------------------------------
(***************************************************************************)
(* The main loop of a build without an RTOS, with the alarms, a serial     *)
(* port and the hooks of sleep.c by which the power manager decides        *)
(* whether to sleep.  The loop runs the tasklets of the stack,             *)
(* otSysProcessDrivers and then sl_power_manager_sleep; interrupts come    *)
(* anywhere.  After an interrupt that finds the system asleep the power    *)
(* manager asks sl_ot_sleep_on_isr_exit; an answer of IGNORE leaves the    *)
(* choice to others, so it may go back to sleep.                           *)
(***************************************************************************)
EXTENDS Alarm

VARIABLES
    sWakeRequirementSet,
    uartReady,      \* efr32UartIsDataReady
    allowSleep,     \* what efr32AllowSleepCallback of the application says
    tasklets,       \* otTaskletsArePending
    pc,             \* where the main loop is
    cursor,         \* the handle efr32AlarmProcess has come to
    calls           \* callbacks left of the alarm at cursor

loopVars  == <<pc, cursor, calls>>
sleepVars == <<sWakeRequirementSet, uartReady, allowSleep, tasklets>>
wakeVars  == <<alarmVars, sleepVars, loopVars>>

Locations == {"tasklets", "serial", "alarms", "scan", "callback", "signal",
              "sleep", "asleep", "isrExit"}

WakeInit ==
    /\ AlarmInit
    /\ sWakeRequirementSet = TRUE /\ uartReady = FALSE
    /\ allowSleep = TRUE /\ tasklets = FALSE
    /\ pc = "tasklets" /\ cursor = <<"ms", 1>> /\ calls = 0

-----------------------------------------------------------------------------
(* The hooks.                                                              *)

\* Mutation: an expired alarm does not count.
OnlySerialPending      == uartReady
isPlatformEventPending == HasAnyAlarmFired \/ uartReady

shouldStayAwake == ~allowSleep \/ isPlatformEventPending

\* near: the millisecond alarm of an instance runs and is closer than
\* OPENTHREAD_CONFIG_MIN_SLEEP_DURATION_MS.
MayBeNear == \E i \in 1..NumInstances : efr32AlarmIsRunning(i)
shouldInterruptSleep(near) == tasklets \/ near

\* Mutation: the tasklets are not looked at.
OkWithTasklets(near)       == ~(sWakeRequirementSet \/ near)
sl_ot_is_ok_to_sleep(near) == ~(sWakeRequirementSet \/ shouldInterruptSleep(near))
OkToSleep == \E near \in BOOLEAN : (near => MayBeNear) /\ sl_ot_is_ok_to_sleep(near)

\* otSysEventSignalPending, after the step that it belongs to.
sl_ot_sleep_update == sWakeRequirementSet' = shouldStayAwake'
NotSignalled       == UNCHANGED sWakeRequirementSet

-----------------------------------------------------------------------------
(* Interrupts.                                                             *)

\* An interrupt that finds the system asleep ends the sleep for a moment.
Interrupts == pc' = IF pc = "asleep" THEN "isrExit" ELSE pc

TimerInterrupt(h) ==
    /\ UNCHANGED <<uartReady, allowSleep, tasklets, cursor, calls>>
    /\ AlarmCallback(h)
    /\ IF Signals(h) THEN sl_ot_sleep_update ELSE NotSignalled
    /\ Interrupts

UartInterrupt ==
    /\ UNCHANGED <<alarmVars, allowSleep, tasklets, cursor, calls>>
    /\ uartReady' = TRUE
    /\ sl_ot_sleep_update
    /\ Interrupts

TimePasses == Tick /\ UNCHANGED <<sleepVars, loopVars>>

-----------------------------------------------------------------------------
(* The stack: in its tasklets, and in the callback of an alarm.            *)

InStack == pc \in {"tasklets", "callback"}

StackStartsAlarm(h) ==
    /\ UNCHANGED <<uartReady, allowSleep, tasklets, loopVars>>
    /\ InStack
    /\ \E lag \in {0, 1}, dt \in Dts :
          /\ StartAlarmAt(h, lag, dt)
          /\ IF SignalsAt(lag, dt) THEN sl_ot_sleep_update ELSE NotSignalled

StackStopsAlarm(h) ==
    /\ InStack
    /\ StopActiveAlarm(h)
    /\ UNCHANGED <<sleepVars, loopVars>>

\* otPlatUartSend sets sTransmitDone.
StackSends ==
    /\ UNCHANGED <<alarmVars, allowSleep, tasklets, loopVars>>
    /\ InStack
    /\ uartReady' = TRUE
    /\ sl_ot_sleep_update

StackPostsTasklet ==
    /\ InStack
    /\ tasklets' = TRUE
    /\ UNCHANGED <<alarmVars, uartReady, sWakeRequirementSet, allowSleep, loopVars>>

AppDecides ==
    /\ pc = "tasklets"
    /\ allowSleep' = ~allowSleep
    /\ UNCHANGED <<alarmVars, uartReady, sWakeRequirementSet, tasklets, loopVars>>

Stack ==
    \/ \E h \in Handles : StackStartsAlarm(h) \/ StackStopsAlarm(h)
    \/ StackSends \/ StackPostsTasklet \/ AppDecides

-----------------------------------------------------------------------------
(* The main loop.                                                          *)

Goto(from, to) == pc = from /\ pc' = to

TaskletsRun ==
    /\ Goto("tasklets", "serial")
    /\ tasklets' = FALSE
    /\ UNCHANGED <<alarmVars, uartReady, sWakeRequirementSet, allowSleep, cursor, calls>>

\* efr32SerialProcess; IoStreamUart has its steps.
SerialRuns ==
    /\ UNCHANGED <<alarmVars, allowSleep, tasklets, cursor, calls>>
    /\ Goto("serial", "alarms")
    /\ uartReady' = FALSE
    /\ IF uartReady THEN sl_ot_sleep_update ELSE NotSignalled

\* efr32AlarmProcess: leave at once, or go through the two lists.
AlarmsBegin ==
    /\ Goto("alarms", IF HasAnyAlarmFired THEN "scan" ELSE "signal")
    /\ cursor' = <<"ms", 1>>
    /\ UNCHANGED <<alarmVars, sleepVars, calls>>

AlarmFound ==
    /\ Goto("scan", "callback")
    /\ \E i \in FiredFrom(cursor[1], cursor[2]) :
          /\ \A j \in FiredFrom(cursor[1], cursor[2]) : i <= j
          /\ cursor' = <<cursor[1], i>>
          /\ calls' = mFiredCount[<<cursor[1], i>>]
          /\ TakeFired(<<cursor[1], i>>)
    /\ UNCHANGED <<sleepVars>>

AlarmListEnds ==
    /\ FiredFrom(cursor[1], cursor[2]) = {}
    /\ Goto("scan", IF cursor[1] = "ms" THEN "scan" ELSE "signal")
    /\ cursor' = <<"us", 1>>
    /\ UNCHANGED <<alarmVars, sleepVars, calls>>

CallbackReturns ==
    /\ calls' = calls - 1
    /\ Goto("callback", IF calls > 1 THEN "callback" ELSE "scan")
    /\ UNCHANGED <<alarmVars, sleepVars, cursor>>

\* The last statement of otSysProcessDrivers.
PassEnds ==
    /\ UNCHANGED <<alarmVars, uartReady, allowSleep, tasklets, cursor, calls>>
    /\ Goto("signal", "sleep")
    /\ sl_ot_sleep_update

SleepDecides ==
    /\ \/ Goto("sleep", "asleep") /\ OkToSleep
       \/ Goto("sleep", "tasklets") /\ ~sl_ot_is_ok_to_sleep(MayBeNear)
    /\ UNCHANGED <<alarmVars, sleepVars, cursor, calls>>

\* sl_ot_sleep_on_isr_exit; the power manager sleeps on only after another look.
IsrExits ==
    /\ \/ Goto("isrExit", "tasklets")
       \/ Goto("isrExit", "asleep") /\ ~isPlatformEventPending /\ OkToSleep
    /\ UNCHANGED <<alarmVars, sleepVars, cursor, calls>>

MainLoop ==
    \/ TaskletsRun \/ SerialRuns
    \/ AlarmsBegin \/ AlarmFound \/ AlarmListEnds \/ CallbackReturns
    \/ PassEnds \/ SleepDecides \/ IsrExits

WakeNext ==
    /\ ~halted
    /\ \/ \E h \in Handles : TimerInterrupt(h)
       \/ UartInterrupt \/ TimePasses
       \/ Stack \/ MainLoop

\* The main loop goes on, a timer that has run out interrupts.  Time need not pass.
WakeFairness ==
    /\ WF_wakeVars(~halted /\ MainLoop)
    /\ \A h \in Handles : WF_wakeVars(~halted /\ TimerInterrupt(h))

WakeSpec == WakeInit /\ [][WakeNext]_wakeVars /\ WakeFairness

-----------------------------------------------------------------------------
WakeTypeOK ==
    /\ AlarmTypeOK
    /\ sWakeRequirementSet \in BOOLEAN /\ uartReady \in BOOLEAN
    /\ allowSleep \in BOOLEAN /\ tasklets \in BOOLEAN
    /\ pc \in Locations
    /\ cursor \in Handles
    /\ calls \in 0..MaxFired

\* The system sleeps only when the application allows it and nothing waits
\* for the main loop: no expired alarm, no byte or sent frame that was
\* flagged, no tasklet.
AsleepMeansIdle ==
    pc = "asleep" => /\ allowSleep /\ ~tasklets
                     /\ ~HasAnyAlarmFired /\ ~uartReady

\* An expired alarm is handed to the stack, whatever else comes, unless the
\* stack keeps the loop of efr32AlarmProcess busy for ever with alarms that
\* have expired when they are asked for.
StaysInLoop == <>[](pc \in {"scan", "callback"})
AlarmsAnswered ==
    \/ StaysInLoop
    \/ \A h \in Handles : mFiredCount[h] > 0 ~> (mFiredCount[h] = 0 \/ halted)
=============================================================================
