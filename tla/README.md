# TLA+ models of the OpenThread EFR32 platform layer

This directory holds a verification development for `openthread/ot-efr32`, the
platform abstraction layer that runs OpenThread on Silicon Labs EFR32 parts.
Paths such as `radio.c:2888` are files of `src/src/src/`, with a line.

## 1. Inventory

The layer sits between the OpenThread stack and Silicon Labs' libraries (RAIL,
sleeptimer, UARTDRV, NVM3, power manager). The stack runs in one main loop
(`otSysProcessDrivers`, system.c) or one RTOS task; RAIL, timers and serial
peripherals call the layer from interrupts. Everything hard in it comes from
state shared between those two contexts without locks.

| Part | State | Operations | Hard behaviour | What makes it correct |
|---|---|---|---|---|
| Reception (`radio.c` 2509-2885, 3381-3481) | `sRxPacketQueue`, the block pool, `sReceive`, ACK counter | interrupt `packetReceivedCallback`; main loop `processRxPackets` | interrupt stores frames while a callback uses a block; broadcasts go to several instances; limits of queue and pool | no block lost or reused too early, order kept, every recipient served once |
| Transmission and receive windows (1644-2096, 2781-3219, 3483-3540, 3787) | `miscRadioState` flags, `sTxFrame`, RAIL's operation | `otPlatRadioTransmit`, `Receive`, `ReceiveAt`, `Sleep`; `RAILCb_Generic` and its callbacks; `processTxComplete`; PTA grant | several events in one interrupt, preemption by a second protocol, late grants, windows that end while the next is asked for | one answer per frame, the right answer, windows never lost |
| Energy scan and pending commands (1350-1463, 1747, 2100-2163, 3543-3605) | scan status, mode, counters, active interface, command queue | `otPlatRadioEnergyScan`, `otPlatRadioGetRssi`, scan timer, `processPendingCommands` | timer against busy-wait, re-entrant callbacks, status read in two steps | one operation at a time, every host answered |
| MAC keys and counters (700-800, 2296-2390) | `sMacKeys` | `radioProcessTransmitSecurity`, `otPlatRadioSetMacKey`, `...SetMacFrameCounter` | increment in main loop and interrupt; multi-step key change | a counter value is used once per key |
| Source match (`soft_source_match_table.c`) | checksum tables, PAN ids | add, clear, find | 16-bit sums, stale entries | an added address is found until cleared |
| Green Power (`sl_gp_interface.c`) | state, deadline, buffered instance | buffer, receive, process | one slot for all hosts, deadline against request, a response that is queued and comes back, re-entry from the callback | a frame is held once and its host answered |
| Power manager (`radio_power_manager.c`) | per-interface limits | set default, set maximum | combination over interfaces | never above a limit |
| Coexistence (`radio_coex.c`, `radio.c` 3716-3894) | counters, hold-off | coex events | one timestamp for Tx and Rx | counters add up |
| Alarms (`alarm.c`) | timer handles, wrap data, fired counts | start, stop, timer interrupt, process | chains of timers, clock wrap, expiry while expiries are handed out | expires when asked for, is handed to the stack |
| UART (`uartdrv_uart.c`, `iostream_uart.c`) | DMA buffers, FIFO, flags | receive and transmit completion, process, flush | completion between read and update | bytes in order, none lost |
| SPI slave (`spidrv_*.c`) | descriptors, process flag | prepare, transaction end, process | chip select at any moment | every transaction processed |
| Settings (`flash.c`) | NVM3 objects | get, set, add, delete, wipe | power loss between objects, full index range | a value set is read back |
| Sleep (`sleep.c`) | wake requirement | update, may-sleep queries | event between decision and sleep | no lost wakeup |
| Diagnostics, crypto, extension, logging, misc | - | - | forwarders | not modelled |

Components talk by direct calls (main loop), by flags set in interrupts and
read in the main loop, and by `otSysEventSignalPending`, which makes the loop
run again.

## 2. Plan

Order of work, most important behaviour first.

| Step | Modules | State |
|---|---|---|
| 1 | `RadioRx`, `RadioRx_proofs` | every safety property proved |
| 2 | `TxService` (abstract), `RadioTx` implementing it, `RadioTx_proofs` | every safety property and the refinement proved |
| 3 | `RadioScan`, `RadioScan_proofs` | every safety property proved |
| 4 | `Alarm`, `Sleep` on top of it, `Sleep_proofs` | every safety property proved |
| 5 | `UartDrv`, `UartDrv_proofs`; `IoStreamUart`; `SpiSlave` | every safety property proved |
| 6 | `TxSecurity`, `SrcMatch`, `SrcMatch_proofs`, `PowerManager`, `GreenPower`, `Settings`, `Settings_proofs`, `Coex` | every safety property proved |
| 7 | `Devices`: the parts of 5 and 6 in one specification, `Devices_proofs` | it implements each part, proved |

Next: what is true of `RadioScan` after RAIL refused a scan and of `RadioTx` when
the stack overlaps its requests, where the theorems are silent; abstract
specifications of the settings (a map from keys to sets of values) and of a serial
line (a queue), with the modules proved to implement them. No module about which
something is proved uses a RECURSIVE operator.

## 3. Modules

An interrupt is one action; a function of the main loop is cut where an
interrupt can come between two reads or writes that matter. Each definition
keeps the source's name where it has one; `PROJECT.json` has the lines.

### RadioRx (reception)

One action per step that the other context can come between.

* `StartFrame` (environment): a frame with a fresh number arrives from the air,
  for one interface or broadcast, Green Power or not, acknowledged with a secured
  enhanced ACK or not.
* `Interrupt` is `packetReceivedCallback` as a whole, with the enhanced ACK
  written before it: `WriteEnhancedAck` (takes the MAC frame counter and stores
  it as ACK counter), then `QueueFrame` or, when the queue or the pool is full,
  `DropFrame`.
* `PrepareNext`, `SkipInterface`, `FirstReceiveDone`, `SecondReceiveDone`,
  `FreeBlock` are the steps of `processNextRxPacket` between which interrupts come;
  the stack's callbacks happen in the two `ReceiveDone` steps.

`MultiPan` selects the build. Bounds: `MaxFrames` frames arrive (named in the
`.cfg`), more than the pool has blocks, so that full pool, reuse and overtaking all
occur.

### TxService, RadioTx (transmission)

`TxService` says what the stack is promised: a frame handed over is answered by
one `otPlatRadioTxDone`, and the answer is one the air allows. `RadioTx` is the
driver with RAIL beside it and refines it (`ServiceSafety`, instance `Service` with the
mapping written in the module).

The flags of `miscRadioState` are the variable `flags`, under the source's names.
`RAILCb_Generic` runs as one step on a *set* of pending events, in the order of
its source: completion, scheduled, packet, auto-ACK, ACK timeout, scheduler. The
main loop is split where interrupts matter: `TransmitBegin`/`TransmitStart`,
`SleepBegin`/`SleepIdle`, and `ReceiveAtLooks`/`ReceiveAtBegin`/`ReceiveAtStart`: the
look at the flags, the flag set once the channel is loaded (or the error of a channel
no band has), and the call of RAIL. The grant of a delayed frame may come in the first gap
(which RadioTxLostMiss ends in), the end of an earlier window in the second (RadioTxWindow).

Constants: `Frames`; `Coex` (a PTA may hold a transmission and grant it later),
`Dmp` (a second protocol can preempt), `Overlap` (the stack asks for a receive
window also while it has a frame or a window in the driver; when FALSE it has at
most one request in the driver).

RAIL is external and modelled from how `radio.c` uses it. What is assumed of it:

* an operation ends in exactly one of its outcomes, and its events are raised
  after it started; an interrupt may deliver several pending events at once, but
  no second packet before the first was delivered;
* it has one scheduled operation: a scheduled transmission replaces a scheduled
  receive, a scheduled receive is refused while transmitting and may be refused
  otherwise; starting an operation clears a scheduler error;
* with one request of the stack at a time (`Overlap = FALSE`) a frame's scheduling events
  do not meet those of a window. With `Overlap = TRUE` they do, and as RAIL's event bits
  are the same for both, the flag of the window decides what they are taken for
  (radio.c:3080-3129): a frame whose missed event comes while it is set is never answered
  (run RadioTxLostMiss), and as the transmit path then stops for good, that run does not
  look for deadlocks;
* the driver's own checks on an expected ACK (length, timestamp) succeed;
* the main loop runs between interrupts, and the critical section of
  `otPlatRadioTransmit` is honoured.

### RadioScan (energy scan, RSSI reading, pending commands)

`Ask` is a call of `otPlatRadioTransmit` or `otPlatRadioEnergyScan` up to the
look at the radio, which a MultiPan build takes in three separate reads
(`isRadioTransmittingOrScanning`: `look` counts them, and interrupts come between
them). `LookBeforeStart`, `StartTransmit` and `StartScan` are the rest of the two
functions, the same code being used for a command taken back from
`sPendingCommandQueue`; `ret` is where the caller goes on. `ScanStarts` is
`efr32StartEnergyScan` with each of its exits, `TimerFires` the scan timer's
interrupt. `ProcessTx`, `ProcessScan`, `ClearInterface`, `ProcessPending` are the
steps of `efr32RadioProcess`; between the first two and after `ProcessScan` the
stack's callbacks run, in which a host may ask again (`Reenter`).

A transmission is only its life cycle here (none, ongoing, decided): `RadioTx`
shows what that abstraction needs, that a frame is decided once after it was
ongoing. `RssiTimeout` lets the busy-wait of `otPlatRadioGetRssi` end before the
scan (its limit comes from the SDK's configuration, which is not in this repository,
and the scan takes at least two timer periods plus interrupt latency). `StartTransmit` may
end in the error of a channel without configuration (radio.c:1822): the stack that made the
call hears of it, but `processPendingCommands` does not look at it (radio.c:3556), and
a frame taken from the queue is gone, its host `waiting` for what was "dropped".
`AccountedFor` and `AllAnswered` leave such a host aside: it is never answered. RAIL may refuse
to start a scan at any time; `refused` remembers that it did. The error exits of
`efr32StartEnergyScan` then leave the scan status in progress for ever, so
`AllAnswered`, `NoAssertFails`, `AnswersMatch`, `AccountedFor` and
`RefusedOnlyWhenBusy` speak only of runs in which RAIL has refused nothing, while
`OneOperation` holds in all of them. A host asks for
one thing at a time, as the comment of
`pendingCommandQueueOverflowCallback` says, and ignores answers it does not wait
for.

### UartDrv (UART over UARTDRV)

DMA fills the active one of two buffers (`count` bytes so far); a byte is its number
on the wire. Two writers copy into the ring `mBuffer`: `receiveDone`, the interrupt of
a full buffer, and `Fetch`, the critical section of `processReceive`. `TakeTail`,
`FirstPart`, `ResetHead`, `SecondPart` and `AdvanceHead` are the rest of the pass, with
interrupts between them. An interrupt preempts the main loop, so a full buffer is
handled before the next step of the pass (`Preempted`); only inside the critical section
may the buffer fill up and be fetched before its `receiveDone`. A full buffer is assumed
to be replaced by the other one in `receiveDone`, before the next byte.

`otPlatUartSend`, `transmitDone`, `processTransmit` and the two ends of
`otPlatUartFlush` are the other direction; the caller waits for the end of its frame
before it sends the next one.

The driver checks nothing that keeps bytes from being lost when the main loop is
late: `late` remembers that a whole buffer of bytes came from the fetch of one pass to the
end of the next. `BytesInOrder` and `AllDelivered` speak of runs in which that has not
happened (one byte fewer is enough, the run shows it); `CopyStaysInside` holds in
all of them. When it is late, the fetch fills the ring, which `receiveDone` looks out for and
`processReceive` (uartdrv_uart.c:205) does not: full is taken for empty.

### Alarm, Sleep (alarms, main loop, sleep hooks)

`Alarm` has one handle per instance and kind. Time is kept as what is left:
`timer` is what is left on a hardware timer, `asked` what is left of what the
stack asked for; only `now` is a clock, and it wraps. `ContinueChain` and
`FireAlarm` are the two ends of the timer interrupt, `StartInThePast` and
`StartInTheFuture` those of `StartAlarmAt`, for an `aT0` read up to one unit ago.
`AlarmOnTime` relates timer, chain and request at every moment.

`Sleep` extends it and closes the system: one variable `pc` for the main loop
(tasklets, serial process, `efr32AlarmProcess` list by list and callback by
callback, the last signal of `otSysProcessDrivers`, the decision of the power
manager, asleep, interrupt exit). `sl_ot_sleep_update` is conjoined to every step
that ends in `otSysEventSignalPending`. The serial port is reduced to one flag,
`uartReady`; `IoStreamUart` has its steps.

Left aside by the properties, and reachable:

* After the first timer of a chain `mIsRunning` is FALSE although the timer runs
  (alarm.c:314); from then on a stop does not stop it and `msTimerStart`'s assertion can
  fail (alarm.c:145-160). The model goes on (`halted`); `AlarmTracked` is for the
  time before (`wrapped`).
* `Remaining` is computed without wrapping (alarm.c:282). When the clock wraps between
  the stack's reading of `aT0` and the start, the alarm is a period late (`crossed`).

### IoStreamUart (UART over IO stream)

A byte on the wire raises the GPIO interrupt on each falling edge and reaches the
stream's buffer at its stop bit, later. `PassBegins`, `StreamRead`, `ClearReady` and
`FlushesSent` are `efr32UartProcess`. `missed` remembers that the flag was
cleared behind the last edge of a byte: that byte stays unread until the next one.

### SpiSlave (both SPI drivers; `Eusart` selects)

The host (`HostSelects`, `HostClocks`, `HostReleases`) and DMA (`DmaFills`, over
two descriptors) run at any moment. `TransactionEnd` is the interrupt with the
count of bytes and `complete_callback`, whose preparation of the next transaction
goes on in `Prepares`, in which the chip select is looked at twice.
`efr32SpiProcess` is two steps around the callback. `overlapped` remembers
that a request to process came during the callback, behind which the flag is
cleared. With `Eusart = TRUE` the FIFO is counted after it was cleared
(spidrv_eusart.c:158-162), so its bytes count as taken and `SizeIsTaken` does not
hold; the run and the theorem are for the USART driver. Enabling the driver
during a transaction leaves interrupts disabled (`stuck`).

### Settings (NVM3)

Every call is the sequence of NVM3 operations it makes: enumerating in lists
of `ListSize`, looking at and deleting an object, writing one. Each may fail
(`Fails`, and in `NextObject` the ignored failure of a look at an object), and the
power may fail between two (`PowerFails`). `Absent` stands for no value and is none. `promised` is what the stack may read
between two calls. `unmet` are keys whose last call reported success
without its work: an addition with all indices used, and a deletion that skipped an
object it could not look at. Values of one key are distinct. `SettingsKept` lets a call
that failed or was cut off leave the old values, the new ones, or a halfway state in
which old values are gone, and says nothing of `unmet` keys; what it forbids is a value
nobody asked for, an old one that comes back, and any effect on another key.

### SrcMatch (source match tables)

Both tables of one interface, checksum and `allocated` flag written in two steps
(`AddWritesSum`/`AddAllocates`, `ClearFrees`/`ClearZeroes`) between which the
interrupt of a data request may look an address up. Two builds: with
MultiPan an address with an equal checksum is taken for one that is already there.
`lost` are addresses without an entry of their own: after a change of the PAN
identifier, and when an address with the same checksum was cleared.

### GreenPower, PowerManager, TxSecurity, Coex

* `GreenPower`: the one buffered frame, its two deadlines (`gpLeft` is what is left),
  `efr32GpProcess`, and the pending queue as far as it holds these frames. `HandsIn` is
  `otPlatRadioTransmit` of a frame to be buffered, also from within the callback of
  the time-out, which is why that is two steps (`GivesUpWaiting`, `GivenUp`).
  `SendsResponse` gives the frame to the radio or, when that is busy, to the queue, from
  which `TakesQueued` takes it through the same code: it is buffered again, to wait for a
  second request. `gpLost` are the hosts whose frame was replaced by another host's (159),
  wiped behind the callback (141), or refused with an error nobody looks at. A host answered is one whose `otPlatRadioTxDone` was called.
* `PowerManager`: the limits and defaults of all hosts and the power RAIL was told.
  It is worked out from the channel the radio is on before the operation takes it
  to another (`moved`): there a limit may be exceeded. With fast switching the slots nobody listens on are
  looked up behind the table (radio_power_manager.c:127-131): `Strays` is what may be there, and may become the power.
* `TxSecurity`: keys and counter of one interface; the main loop reads and writes
  the counter in two steps, `otPlatRadioSetMacKey` is eight steps, and an enhanced
  ACK may be secured between any two. Keys are numbers whose identifiers
  wrap; the comparison (radio.c:750) does not, so at the wrap an ACK finds no slot and
  is not sent. An ACK with the next key takes a value of the old key's
  counter (radio.c:758, 786): after the change, which resets the counter,
  values repeat with that key (`early`). One that comes between the main
  loop's read and write takes the same value (`raced`).
* `Coex`: events of the arbiter and the metrics. One time stamp serves both
  directions (`restamped`): the grant of the request whose stamp was replaced may count as early when it is late.

### Devices

These nine parts (both UARTs, SPI, settings, source match, Green Power, power,
security, coexistence) share no variable and are linked only in that the main
loop calls each again and again, which their fairness states. `Devices` extends them all;
each behaviour is one of the part named by `part`, the others keep their initial state, so a
run explores the sum of the parts and not their product.

Several properties of the parts speak only of histories in which something has not
happened, which a variable of the module remembers: `late`, `missed`, `overlapped`, `unmet`,
`lost`, `moved`, `raced`, `early`, `restamped`, `gpLost`, and in `Alarm` `crossed` and
`wrapped`. What such a variable stands for is reachable in the model and possible in the code; the
property is about the rest, and the hazards in `PROJECT.json` name the lines. `missed`,
`overlapped`, `lost` and `crossed` contradict no comment. The others do: with the exemption
taken out of the property TLC finds it violated in each case, an addition that stores nothing (flash.c:387), a
deletion that leaves a value (320), a counter value used twice (radio.c:786, 758), a power above the
limit of the channel it is used on (1777), a timer that does not start (alarm.c:156), a full ring
(uartdrv_uart.c:205), a late grant counted as early (radio_coex.c:110), a Green Power frame nobody is
answered for (sl_gp_interface.c:141, 159). They have no run of their own; the violated runs
below are of the radio path.

## 4. Runs

| Run | Bounds | Shows |
|---|---|---|
| RadioRxMultiPan | 2 hosts, 2 blocks, 2 queue slots, 3 frames | TypeOK, PoolConservation, ArrivalOrder, RightRecipients, BlockStable and QueueDrains hold |
| RadioRxOnce | 1 instance, 2 blocks, 4 frames | **violated** (DeliveredOnce): each frame is delivered twice |
| RadioRxAckCounter | as above | **violated** (AckCounterIsOwn): a frame reports the counter of another frame's ACK |
| RadioTx | broadcast, data, poll and scheduled frames, Coex and Dmp, one request of the stack at a time | FlagsAgree, NoAssertFails, AckDecides (the ACK decides the outcome), NeverIdledUnderTx (no idle of the driver hits a frame), ServiceSafety and ServiceAnswered (the service is implemented and every frame answered) hold |
| RadioTxWindow | windows at any time | **violated** (WindowTracked): the end of an earlier window clears the flag of the next one |
| RadioTxLostMiss | Coex, windows at any time | **violated** (ServiceAnswered): the grant comes while the channel of a window is loaded, both are flagged as scheduled, and the missed transmission is taken for a missed window: its frame is never answered |
| RadioTxCca | Dmp | **violated** (CcaFailureMeansNotSent): a frame that was sent is reported as channel access failure |
| RadioScan | 3 hosts, scans of 2 readings, re-entry from otPlatRadioTxDone | NoAssertFails, AnswersMatch, OneOperation, AccountedFor, RefusedOnlyWhenBusy, AllAnswered hold |
| RadioScanReenter | 1 host, re-entry from otPlatRadioEnergyScanDone | **violated** (NoAssertFails): the second scan loses its interface and its completion fails the assertion |
| RadioScanLate | 1 host, RSSI time-out | **violated** (RefusedOnlyWhenBusy): a late timer leaves a completed scan of nobody, and commands stay queued on an idle radio |
| Wake | 1 instance, clock of 4 units, timer of 2, requests of 0 and 3, one expiry waiting | AlarmOnTime, AlarmTracked, AsleepMeansIdle, AlarmsAnswered hold |
| Devices | see below | DevicesTypeOK; CopyStaysInside, BytesInOrder (UARTDRV); SizeIsTaken (SPI); SettingsKept; PendingIsTold; GpHeldOnce; PowerWithinLimits; CountsUpAfterChange; MetricsAddUp; AllDelivered (UARTDRV), BytesRead (IO stream), SpiProcessed, GpAnswered hold |

The bounds are the smallest at which the interesting cases occur.

* `RadioRx`: three frames exceed the two blocks, so that a full pool, the reuse of a
  block under a callback, and overtaking are all reached.
* `RadioTx`: each branch of the code on a frame (acknowledged, command, CSMA, delayed)
  has a frame that takes it, and the driver holds one frame at a time in any case.
* `RadioScan`: it takes three hosts to have two commands queued behind the one under
  way, so that their order matters.
* `Wake`: a request of 3 is one timer and a chain of one more; the clock wraps within it. Two
  kinds of alarms are two timers that interfere. An alarm that has expired can be started
  and expire again while its callbacks run, because its count is taken before.
  More instances are the theorems' business.
* UARTDRV: buffers of 3 bytes and 8 on the wire fill both buffers and wrap the ring.
* SPI: a FIFO of 2 and outputs of 1 and 2 bytes with 4 per descriptor reach both
  descriptors and a full and an empty FIFO at the end of a transaction.
* Settings: two indices (NumIndexed is the last) and lists of one take a search over two
  lists and, with three values, an addition to a key whose indices are all used; the second
  key is there for calls that would go beyond their own.
* Source match: extended addresses 1, 3 and 5 of which two share a checksum modulo 4, two entries,
  two PAN identifiers, so that a table is full and an address can come to be in the place of another.
* Power: two hosts on two channels, three slots of which at most two are in use.
* Security: two changes of key would only repeat the first, so one is made; identifiers wrap after 3;
  three counter values.
* Coex: one request per direction, of which each may wait beside the other; a counter then is
  at its end, and everything stops. The reset of the counters is left out.

`Devices` does not look for deadlocks: each part counts to a bound, where it
stops, and the coexistence counters stop in the code too.

Each violated run corresponds to a finding in `PROJECT.json` that quotes the
comment it contradicts. With windows asked for at any time (`Overlap`) and an arbiter or a second
protocol, the properties of the run RadioTx other than FlagsAgree are not claimed: RadioTxWindow and
RadioTxLostMiss show the two ways the flag of the window goes wrong, and
AckDecides, NeverIdledUnderTx and NoAssertFails can fail behind them. `NoYieldOnDataRequestAck`
(radio.c:2815, the yield on the ACK of a data request) is false without any interleaving and has
no run. Every property of a passing run has a mutation of the
code it must catch (operators commented "Mutation" in the modules).

## 5. Fairness

`RadioRx` and `RadioTx` assume weak fairness of the main loop (it runs forever and
every interrupt signals it with `otSysEventSignalPending`), of interrupt delivery,
and of RAIL finishing what it started. In `RadioTx` the main loop's own steps are strongly
fair, as an interrupt that is pending disables them while it lasts: packets do not keep the
processor from ever returning to it. Nothing is assumed about the order in
which RAIL raises events or about the second protocol.

`RadioScan` assumes strong fairness of the pass of `efr32RadioProcess`, because
its main loop may make calls of the stack between two passes and each of them
disables the pass while it runs: the super loop still reaches the pass again and
again; `UartDrv` likewise for `processReceive` and `processTransmit`, which a
flush disables while it blocks, and `SpiSlave` for the two halves of
`efr32SpiProcess`, which a preparation in the interrupt disables. `RadioScan` assumes weak fairness of
the timer and of the end of a transmission (`ServiceAnswered` of `RadioTx`).
`AllAnswered` says that a host can only starve if hosts ask again from
within `otPlatRadioTxDone` for ever: such a request is started before the pending
queue is looked at, and the code does nothing against it.

`Wake` assumes weak fairness of the main loop and of a timer that has run out;
time itself need not pass. `AlarmsAnswered` excepts a stack that keeps
`efr32AlarmProcess` in its loop for ever with alarms that have already expired
when they are asked for. `IoStreamUart`: a byte that has begun ends and the main loop
goes on. `GreenPower`: the clock runs, the main loop calls `efr32GpProcess`, and takes a
queued frame when it could again and again (strong fairness, as the callback of the time-out
disables it while it lasts). `GpAnswered` excepts a frame that finds the radio busy each time
it is sent and is buffered again for ever.
`Devices` takes the fairness of all parts: no fair action of a part is
enabled in its initial state, so it binds only the part that runs.

## 6. Proofs

Every theorem is for all values of the constants, under the module's named
assumption (sizes are positive, sets are where the code has them). None assumes
fairness. An invariant that is proved was first checked with TLC.

`RadioRx_proofs`: `TypeCorrect`, `PoolSafe` (PoolConservation), `BlockNeverOverwritten`
(BlockStable), `FramesInOrder` (ArrivalOrder) and `RecipientsRight` (RightRecipients).
PoolConservation is not inductive alone: what the main loop holds must be related
to where it is (`pc`), so the invariant adds that a block is held exactly outside
"idle". ArrivalOrder says something of the reports only; that a block used again
never brings an older frame behind a newer one needs the numbers along the whole
way, from the air over each place of the queue and the frame in hand to the last report
(`Numbered`). RightRecipients needs, for the frame in hand, which interfaces have been
passed at each step of the loop.

`RadioTx_proofs`, for every set of frames and all eight build variants:

* `TypeCorrect`, `FlagsAlwaysAgree` (for overlapping requests too) and
  `ServiceImplemented` (each step of the driver is a step of `TxService` or leaves it
  alone) assume nothing of RAIL: its actions are unconstrained in the argument. The
  inductive invariant says that at most one outcome is recorded, that an ongoing or
  decided frame is one the stack waits for, and that inside the critical section
  of `otPlatRadioTransmit` nothing is ongoing or decided.
* `OneRequestWithoutCoex` (OneScheduleRequest, `~Coex`), also for a stack that overlaps its
  requests: without an arbiter only a call schedules a transmission, and no call comes
  between the look of `otPlatRadioReceiveAt` and its flag. With an arbiter it is false: the
  first steps of RadioTxLostMiss are the counterexample.
* `AssertsHold` (NoAssertFails), `AckWins` (AckDecides) and `FrameNeverCut`
  (NeverIdledUnderTx) rest on RAIL as modelled and on a stack that asks for one thing at a
  time (`~Overlap`). `RailInv` relates what RAIL has in
  hand (operation, grant due, events raised and not delivered, packet, window) to what
  the driver has recorded: while RAIL has the frame the driver knows it to be ongoing, and an
  ACK that waits to be handled is the first event that can decide it.

`RadioScan_proofs`, for any set of hosts and number of readings:

* `TypeCorrectness` without hypothesis: the queue never has more commands than there are
  hosts.
* `OneOperationOnly` (OneOperation) whenever the wait of `otPlatRadioGetRssi` does not
  end before its scan (`~RssiTimeout`; the run RadioScanLate shows what happens
  otherwise), also when RAIL refuses scans and whatever the callbacks ask for. What
  each of the three looks of `isRadioTransmittingOrScanning` found free stays free, as
  interrupts only end things.
* `AssertsHold`, `AnswersAreAwaited`, `EveryRequestHeldOnce` and
  `LeftQueuedOnlyWhenBusy` under `Regular`: several hosts only with MultiPan, as in the
  code; `~RssiTimeout`; and no new scan from within `otPlatRadioEnergyScanDone`.
  The last two are the faults that the runs RadioScanLate and RadioScanReenter show:
  where they occur the properties fail. The properties themselves exempt what follows
  once RAIL has refused a scan (`refused`), as the error exits leave a scan in progress that nobody
  ends, or one that is both refused and reported, and a frame from the queue whose error
nobody heard ("dropped"). That the queue has room for a
  command is a count: the hosts queued are all others than the one that asks.
  The invariant `Ordered` says that a running scan has one owner, that what
  the looks found is still so, that answers are of the kind asked for, and that each
  host is in one place.

`UartDrv_proofs`, for every buffer size: `Typed`, `NoOverrun` (CopyStaysInside) and
`BytesComeInOrder` (BytesInOrder). No line of the code checks that a copy ends inside
the ring; it does because `mTail` is `lastCount`, or 0 after a whole buffer was
fetched (`InStep`), which both writers preserve, also when `receiveDone` drops a
buffer. For the order, `Order` gives every place of the ring the number of the byte
that is in it (`Place`) and says that as long as the main loop is in time `mHead` is the place of
the next byte to hand over and what is unread has not been written over.

`Sleep_proofs`: `SleepsIdle` (AsleepMeansIdle), `WakeTypes`, `OnTime` (AlarmOnTime) and
`Tracked` (AlarmTracked) for any number of instances, clock period and timer range.
AsleepMeansIdle is inductive with one more fact: from the decision to sleep on, the
wake requirement is what `shouldStayAwake` says, because every interrupt that
changes the latter updates the former. AlarmOnTime needs that a chain has exactly
as many timers as the request divided by the range.

`SrcMatch_proofs`: `EveryChildTold` (PendingIsTold) and `MatchTyped` for any tables and
checksums. In a MultiPan build an entry found is enough; without MultiPan equal
checksums have an entry each, and clearing one address may free the entry of
another. The theorem leaves aside addresses that have no entry of their own (`lost`). So the invariant is that some injection gives each address an entry with
its checksum (`Own`), and `FreesInv` gives the address whose entry was freed the
one of the address that was cleared.

`Settings_proofs`: `PromisesKept` (SettingsKept) and `SettingsTyped` for any keys, number of
indices and list size, with the exemption of `unmet` keys that the property has. A call is a loop of lists that are loops of objects, each of which
may fail or be the last before a power failure. The invariant says in which step
which indices are still to be looked at (`Listed`: what is stored from `from` on is in the
list or behind all of it), and that taking objects away only ever takes away values
that are not wanted. That `Enumerate`, the list NVM3 gives, is the lowest
stored indices in order is proved from its definition by the rank of an index
(`EnumerateLists`); the induction over a bounded set that this takes goes through the least
natural number with a property (`LeastNatural`), as the induction theorems of the library cannot be
instantiated by the provers.

`Devices_proofs`:

* `SizeReported` (SizeIsTaken, `~Eusart`) for every length, FIFO and descriptor size. What DMA
  has moved over both descriptors is what is in the FIFO and what the host took,
  while a transfer is armed; preparing keeps DMA stopped and the FIFO empty until
  the transfer starts, which is why the host may select at any moment. The driver of
  spidrv_eusart.c empties the FIFO before it counts it, so the hypothesis is needed.
* `WithinEveryLimit` (PowerWithinLimits) on the channel the power was worked out for, whatever is read behind the table: the value told
  is the lowest of a set that holds every limit (`SelectedIsLowest`), and it is
  the default power only when no limit was set.
* `GpFramesHeldOnce` (GpHeldOnce) for any hosts and deadlines: a frame is in the buffer, in
  the queue or lost, through requeueing, replacement and re-entry.
* `CounterGrows` (CountsUpAfterChange) for any numbers of keys and counters. A key the
  stack has not changed to yet was used for no frame (or only as the next key, which
  the property excepts), the slots of the previous and current key hold none
  that is newer until the counter is reset, and then the counter is beyond all that was used.
* `MetricsHold` (MetricsAddUp): grants that waited are those denied and those late; the one time
  stamp of both directions is right as long as only one waits.
* `PartsImplemented`: a behaviour of `Devices` is one of each of the nine parts; hence
  `DevicesTyped` (DevicesTypeOK) and `DevicesSafe`, all the safety invariants of the run
  `Devices` at once.

Only model-checked: liveness (`QueueDrains`, `ServiceAnswered`, `AllAnswered`,
`AllDelivered`, `BytesRead`, `SpiProcessed`, `GpAnswered`, `AlarmsAnswered`), which is out of
the prover's reach. Every invariant and action property of a passing run is the
statement of a theorem.

## 7. Not modelled

The parts listed as not modelled in `PROJECT.json`, each with its reason. Of the
modelled parts: byte layout of frames, IEs and security; RSSI and timestamp
arithmetic; debug counters and logging; PTA hold-off; multi-channel reception and the
change of band in the radio modules; RX filter masks and PIB setters other than the
PAN identifier of the source match tables; a second radio initialisation, which
skips what the first one did (radio.c:1242); the coexistence averages, which divide
by a request count that is zero after a reset; the power calibration variant; builds
with an RTOS.

Assumed of the SDK and not shown: the ACK RAIL stopped waiting for passes the driver's
own checks (radio.c:2800); what section 3 lists for RAIL.
