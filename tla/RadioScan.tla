----------------------------- MODULE RadioScan -----------------------------
(***************************************************************************)
(* Energy scan, RSSI reading and the pending command queue of radio.c.     *)
(*                                                                         *)
(* Hosts ask for transmissions and energy scans.  A MultiPan build starts  *)
(* a request only when the radio is neither transmitting nor scanning and  *)
(* puts it into sPendingCommandQueue otherwise; every pass of              *)
(* efr32RadioProcess takes at most one command back.  The scan itself runs *)
(* in the interrupts of a RAIL multi-timer.  A transmission is only its    *)
(* life cycle here (RadioTx has the rest): none, ongoing, decided.         *)
(***************************************************************************)
EXTENDS Naturals, Sequences, FiniteSets

CONSTANTS
    Hosts,        \* the instances sharing the radio
    MultiPan,     \* OPENTHREAD_CONFIG_MULTIPAN_RCP_ENABLE
    MaxReads,     \* sScanFrameCounterMax of every scan
    Reenter,      \* the callbacks in which the stack asks again
    RssiTimeout,  \* a scan can outlast SL_OPENTHREAD_RSSI_AVERAGING_TIMEOUT
    Nobody        \* INVALID_INTERFACE_INDEX

ASSUME BuildAssumption ==
    /\ MaxReads \in Nat
    /\ Nobody \notin Hosts
    /\ Reenter \subseteq {"txDone", "scanDone"}
    /\ {MultiPan, RssiTimeout} \subseteq BOOLEAN
    /\ IsFiniteSet(Hosts)

VARIABLES
    sEnergyScanStatus, sEnergyScanMode, sEnergyScanActiveInterface,
    sScanFrameCounter,
    rail_timer,            \* the RAIL multi-timer runs
    sPendingCommandQueue,
    tx,                    \* "none", "ongoing" or "decided": FLAG_ONGOING_TX_DATA
                           \* and RADIO_TX_EVENTS
    txHost,                \* sCurrentTxPacket->iid
    pc,                    \* where the main loop is
    ret,                   \* where it goes on after a request
    cmd,                   \* the request being started
    look,                  \* how far isRadioTransmittingOrScanning has read
    waiting,               \* what each host waits for; "dropped": for a frame
                           \* that the driver has forgotten
    refused,               \* RAIL has refused to start a scan
    wrong                  \* a failed OT_ASSERT or an answer nobody waits for

scanVars == <<sEnergyScanStatus, sEnergyScanMode, sScanFrameCounter, rail_timer,
              refused>>
txVars   == <<tx, txHost>>
loopVars == <<pc, ret, cmd, look>>
vars == <<scanVars, sEnergyScanActiveInterface, sPendingCommandQueue, txVars,
          loopVars, waiting, wrong>>

Kinds   == {"transmit", "scan"}
Command == [host : Hosts, kind : Kinds]
NoCommand == [host |-> Nobody, kind |-> "none"]

Init ==
    /\ sEnergyScanStatus = "idle" /\ sEnergyScanMode = "sync"
    /\ sEnergyScanActiveInterface = Nobody
    /\ sScanFrameCounter = 0 /\ rail_timer = FALSE
    /\ sPendingCommandQueue = <<>>
    /\ tx = "none" /\ txHost = Nobody
    /\ pc = "idle" /\ ret = "idle" /\ cmd = NoCommand /\ look = 0
    /\ waiting = [h \in Hosts |-> "none"]
    /\ refused = FALSE
    /\ wrong = {}

Go(p) == pc' = p /\ UNCHANGED <<ret, cmd, look>>
Note(what, bad) == wrong' = IF bad THEN wrong \cup {what} ELSE wrong

-----------------------------------------------------------------------------
(* Interrupts.                                                             *)

\* energyScanComplete.
ScanResult == "completed"

\* Mutation: the counter is not looked at.
AlwaysLeft   == rail_timer
ReadingsLeft == sScanFrameCounter # 0

\* efr32ScanTimerHandler: one more reading, or the end of the scan.
TimerFires ==
    /\ rail_timer
    /\ IF ReadingsLeft
       THEN /\ sScanFrameCounter' = sScanFrameCounter - 1
            /\ UNCHANGED <<sEnergyScanStatus, rail_timer>>
       ELSE /\ sEnergyScanStatus' = ScanResult
            /\ rail_timer' = FALSE
            /\ UNCHANGED sScanFrameCounter
    /\ UNCHANGED <<sEnergyScanMode, refused, sEnergyScanActiveInterface,
                   sPendingCommandQueue, txVars, loopVars, waiting, wrong>>

\* RAILCb_Generic ends the transmission: a RADIO_TX_EVENTS flag replaces
\* FLAG_ONGOING_TX_DATA.
TxDecided ==
    /\ tx = "ongoing"
    /\ tx' = "decided"
    /\ UNCHANGED <<scanVars, sEnergyScanActiveInterface, sPendingCommandQueue,
                   txHost, loopVars, waiting, wrong>>

-----------------------------------------------------------------------------
(* The stack asks.                                                         *)

\* otPlatRadioTransmit and otPlatRadioEnergyScan: without MultiPan there is
\* no look at the radio before the start.
Ask(h, back) ==
    /\ waiting[h] = "none"
    /\ \E k \in Kinds :
          /\ cmd' = [host |-> h, kind |-> k]
          /\ waiting' = [waiting EXCEPT ![h] = k]
    /\ pc' = IF MultiPan THEN "look" ELSE "start"
    /\ ret' = back
    /\ look' = 0
    /\ UNCHANGED <<scanVars, sEnergyScanActiveInterface, sPendingCommandQueue,
                   txVars, wrong>>

AskFromLoop == pc = "idle" /\ \E h \in Hosts : Ask(h, "idle")

\* Mutation: the outcome flags are read before the ongoing flag.
OutcomeFirst == <<"decided", "ongoing">>
\* The two flag reads of isRadioTransmittingOrScanning, in order.
FlagReads == <<"ongoing", "decided">>

\* Mutations: the ongoing transmission, or the scan, is not looked at.
ScanOnly == look = 0 /\ sEnergyScanStatus # "idle"
TxOnly   == look > 0 /\ tx = FlagReads[look]
\* The three reads of isRadioTransmittingOrScanning; an interrupt can come
\* between any two of them.
FoundBusy == IF look = 0 THEN sEnergyScanStatus # "idle"
             ELSE tx = FlagReads[look]
LooksOn   == ~FoundBusy /\ look < 2
LookOn    == look' = look + 1 /\ UNCHANGED <<pc, ret, cmd>>

\* Mutation: the newest request is put in front.
PushInFront == <<cmd>> \o sPendingCommandQueue
\* pushPendingCommand.
Pushed == Append(sPendingCommandQueue, cmd)

\* The queue has RADIO_REQUEST_BUFFER_COUNT entries, one for each host.
QueueIsFull == Len(sPendingCommandQueue) = Cardinality(Hosts)

LookBeforeStart ==
    /\ pc = "look"
    /\ \/ /\ LooksOn
          /\ LookOn
          /\ UNCHANGED <<sPendingCommandQueue, wrong>>
       \/ /\ FoundBusy
          /\ sPendingCommandQueue' = IF QueueIsFull THEN sPendingCommandQueue
                                     ELSE Pushed
          /\ Note("queueOverflow", QueueIsFull)
          /\ Go(ret)
       \/ /\ ~FoundBusy /\ look = 2
          /\ Go("start")
          /\ UNCHANGED <<sPendingCommandQueue, wrong>>
    /\ UNCHANGED <<scanVars, sEnergyScanActiveInterface, txVars, waiting>>

\* An error of otPlatRadioTransmit is the caller's; processPendingCommands, the
\* caller for a command from the queue, does not look at it.
ErrorReturned ==
    [waiting EXCEPT ![cmd.host] = IF ret = "end" THEN "dropped" ELSE "none"]

\* The rest of otPlatRadioTransmit.  The channel may have no configuration, with
\* nothing done yet; else RADIO_TX_EVENTS are cleared, the packet becomes the
\* current one and is ongoing, or has failed at once.
StartTransmit ==
    /\ pc = "start" /\ cmd.kind = "transmit"
    /\ \/ /\ waiting' = ErrorReturned
          /\ UNCHANGED <<txVars, wrong>>
       \/ /\ Note("transmissionOngoing", tx = "ongoing")
          /\ tx' \in {"ongoing", "decided"}
          /\ txHost' = cmd.host
          /\ UNCHANGED waiting
    /\ Go(ret)
    /\ UNCHANGED <<scanVars, sEnergyScanActiveInterface, sPendingCommandQueue>>

\* efr32StartEnergyScan: what it can leave behind.  Where RAIL refuses, the
\* exits do not take ENERGY_SCAN_STATUS_IN_PROGRESS back.
ScanStarts(mode) ==
    LET now   == [status |-> sEnergyScanStatus, mode |-> sEnergyScanMode,
                  counter |-> sScanFrameCounter, timer |-> rail_timer,
                  refused |-> refused, error |-> FALSE]
        begun == [now EXCEPT !.status = "inProgress", !.mode = mode]
        armed == [begun EXCEPT !.counter = MaxReads]
        noUse(s) == [s EXCEPT !.refused = TRUE, !.error = TRUE]
    IN  IF sEnergyScanStatus # "idle" THEN {[now EXCEPT !.error = TRUE]}
        ELSE IF sScanFrameCounter # 0 THEN {[begun EXCEPT !.error = TRUE]}
        ELSE {[armed EXCEPT !.timer = TRUE], noUse(begun), noUse(armed),
              noUse([armed EXCEPT !.status = ScanResult])}

ScanBecomes(s) ==
    /\ sEnergyScanStatus' = s.status /\ sEnergyScanMode' = s.mode
    /\ sScanFrameCounter' = s.counter /\ rail_timer' = s.timer
    /\ refused' = s.refused

\* Mutation: a scan keeps the interface of the one before.
OldInterface == IF sEnergyScanActiveInterface = Nobody
                THEN cmd.host ELSE sEnergyScanActiveInterface
ScanInterface == cmd.host

\* The rest of otPlatRadioEnergyScan.  An error goes to the caller; for a
\* command from the queue the caller drops it.
StartScan ==
    /\ pc = "start" /\ cmd.kind = "scan"
    /\ sEnergyScanActiveInterface' = ScanInterface
    /\ \E s \in ScanStarts("async") :
          /\ ScanBecomes(s)
          /\ waiting' = IF s.error /\ ret # "end"
                        THEN [waiting EXCEPT ![cmd.host] = "none"] ELSE waiting
    /\ Go(ret)
    /\ UNCHANGED <<sPendingCommandQueue, txVars, wrong>>

\* otPlatRadioGetRssi starts a scan of its own and waits for it in a loop.
GetRssi ==
    /\ pc = "idle"
    /\ tx # "ongoing"
    /\ \E s \in ScanStarts("sync") :
          /\ ScanBecomes(s)
          /\ Go(IF s.error THEN "idle" ELSE "rssi")
    /\ UNCHANGED <<sEnergyScanActiveInterface, sPendingCommandQueue, txVars,
                   waiting, wrong>>

RssiLoopEnds ==
    /\ pc = "rssi"
    /\ sEnergyScanStatus # "inProgress" \/ RssiTimeout
    /\ Go("rssiEnd")
    /\ UNCHANGED <<scanVars, sEnergyScanActiveInterface, sPendingCommandQueue,
                   txVars, waiting, wrong>>

\* Mutation: only a scan that is over is put back.
LeftAlone == sEnergyScanStatus
AfterRssi == "idle"

RssiReturns ==
    /\ pc = "rssiEnd"
    /\ sEnergyScanStatus' = AfterRssi
    /\ Go("idle")
    /\ UNCHANGED <<sEnergyScanMode, sEnergyScanActiveInterface, refused,
                   sScanFrameCounter, rail_timer, sPendingCommandQueue, txVars,
                   waiting, wrong>>

-----------------------------------------------------------------------------
(* A pass of efr32RadioProcess.                                            *)

\* A host takes no notice of an answer it does not wait for.
Answer(h, kind) ==
    /\ wrong' = wrong \cup (IF h = Nobody THEN {"noActiveInterface"}
                           ELSE IF waiting[h] # kind THEN {"strayAnswer"}
                           ELSE {})
    /\ waiting' = [x \in Hosts |-> IF x = h /\ waiting[x] = kind
                                   THEN "none" ELSE waiting[x]]

\* processTxComplete.
ProcessTx ==
    /\ pc = "idle"
    /\ IF tx = "decided"
       THEN /\ tx' = "none"
            /\ Answer(txHost, "transmit")
            /\ Go("txDone")
       ELSE /\ Go("scan")
            /\ UNCHANGED <<tx, waiting, wrong>>
    /\ UNCHANGED <<scanVars, sEnergyScanActiveInterface, sPendingCommandQueue,
                   txHost>>

\* The stack's part of a callback: it may ask for the next thing at once.
Callback(p, h, next) ==
    /\ pc = p
    /\ \/ p \in Reenter /\ h # Nobody /\ Ask(h, next)
       \/ /\ Go(next)
          /\ UNCHANGED <<scanVars, sEnergyScanActiveInterface,
                         sPendingCommandQueue, txVars, waiting, wrong>>

TxDoneCallback   == Callback("txDone", txHost, "scan")
ScanDoneCallback == Callback("scanDone", sEnergyScanActiveInterface, "clear")

\* Mutation: a scan is reported before it is over.
ScanIsRunning == sEnergyScanMode = "async" /\ sEnergyScanStatus # "idle"
\* The scan part of efr32RadioProcess up to otPlatRadioEnergyScanDone.
ScanIsDone == sEnergyScanMode = "async" /\ sEnergyScanStatus = "completed"
ProcessScan ==
    /\ pc = "scan"
    /\ IF ScanIsDone
       THEN /\ sEnergyScanStatus' = "idle"
            /\ Answer(sEnergyScanActiveInterface, "scan")
            /\ Go("scanDone")
       ELSE /\ pc' = "pending" /\ look' = 0
            /\ UNCHANGED <<ret, cmd, sEnergyScanStatus, waiting, wrong>>
    /\ UNCHANGED <<sEnergyScanMode, sEnergyScanActiveInterface,
                   sScanFrameCounter, rail_timer, refused,
                   sPendingCommandQueue, txVars>>

\* Behind otPlatRadioEnergyScanDone.
ClearInterface ==
    /\ pc = "clear"
    /\ sEnergyScanActiveInterface' = Nobody
    /\ pc' = "pending" /\ look' = 0
    /\ UNCHANGED <<scanVars, sPendingCommandQueue, txVars, ret, cmd, waiting,
                   wrong>>

\* Mutation: the command stays in the queue.
NotRemoved == sPendingCommandQueue
Removed == Tail(sPendingCommandQueue)

\* processPendingCommands.
ProcessPending ==
    /\ pc = "pending"
    /\ \/ /\ ~MultiPan \/ sPendingCommandQueue = <<>> \/ FoundBusy
          /\ Go("idle")
          /\ UNCHANGED sPendingCommandQueue
       \/ /\ MultiPan /\ sPendingCommandQueue # <<>>
          /\ LooksOn
          /\ LookOn
          /\ UNCHANGED sPendingCommandQueue
       \/ /\ MultiPan /\ sPendingCommandQueue # <<>>
          /\ ~FoundBusy /\ look = 2
          /\ cmd' = Head(sPendingCommandQueue)
          /\ sPendingCommandQueue' = Removed
          /\ pc' = "look" /\ look' = 0 /\ ret' = "end"
    /\ UNCHANGED <<scanVars, sEnergyScanActiveInterface, txVars, waiting, wrong>>

EndPass ==
    /\ pc = "end"
    /\ Go("idle")
    /\ UNCHANGED <<scanVars, sEnergyScanActiveInterface, sPendingCommandQueue,
                   txVars, waiting, wrong>>

Pass == ProcessTx \/ TxDoneCallback \/ ProcessScan \/ ScanDoneCallback
           \/ ClearInterface \/ ProcessPending \/ EndPass
Started == LookBeforeStart \/ StartTransmit \/ StartScan
             \/ RssiLoopEnds \/ RssiReturns

Next == TimerFires \/ TxDecided \/ AskFromLoop \/ GetRssi \/ Started \/ Pass

\* The super loop reaches efr32RadioProcess again and again, whatever the stack
\* calls in between; timers fire and transmissions end.
Fairness ==
    /\ SF_vars(Pass) /\ WF_vars(Started)
    /\ WF_vars(TimerFires) /\ WF_vars(TxDecided)

Spec == Init /\ [][Next]_vars /\ Fairness

-----------------------------------------------------------------------------
\* What holds only as long as RAIL has not refused a scan says so: the error
\* exits of efr32StartEnergyScan leave a scan in progress that nobody ends, or
\* one that is both refused and reported.
TypeOK ==
    /\ sEnergyScanStatus \in {"idle", "inProgress", "completed"}
    /\ sEnergyScanMode \in {"sync", "async"}
    /\ sEnergyScanActiveInterface \in Hosts \cup {Nobody}
    /\ sScanFrameCounter \in 0..MaxReads
    /\ rail_timer \in BOOLEAN /\ refused \in BOOLEAN
    /\ sPendingCommandQueue \in Seq(Command)
    /\ Len(sPendingCommandQueue) <= Cardinality(Hosts)
    /\ tx \in {"none", "ongoing", "decided"}
    /\ txHost \in Hosts \cup {Nobody}
    /\ pc \in {"idle", "look", "start", "txDone", "scan", "scanDone", "clear",
              "pending", "end", "rssi", "rssiEnd"}
    /\ ret \in {"idle", "scan", "clear", "end"}
    /\ cmd \in Command \cup {NoCommand}
    /\ look \in 0..2
    /\ waiting \in [Hosts -> Kinds \cup {"none", "dropped"}]
    /\ wrong \subseteq {"queueOverflow", "transmissionOngoing",
                       "noActiveInterface", "strayAnswer"}

\* The OT_ASSERTs on the way hold: the pending queue has room (536), no
\* transmission is ongoing when one starts (1825), and a completed scan has
\* an interface to report to (3588).
NoAssertFails == refused \/ wrong \subseteq {"strayAnswer"}

\* No host gets otPlatRadioTxDone or otPlatRadioEnergyScanDone for something
\* it does not wait for: queued, retried and late operations keep their host.
AnswersMatch == refused \/ "strayAnswer" \notin wrong

\* With MultiPan the radio does one thing at a time: the interrupt that moves
\* a transmission from ongoing to decided between two reads of
\* isRadioTransmittingOrScanning lets no other host in.  Refused scans change
\* nothing about it.
OneOperation ==
    MultiPan => ~(tx # "none" /\ sEnergyScanStatus # "idle"
                              /\ sEnergyScanMode = "async")

\* Where the request of a host can be.
Queued(h)  == {<<"queue", i>> : i \in {j \in DOMAIN sPendingCommandQueue :
                  sPendingCommandQueue[j] = [host |-> h, kind |-> waiting[h]]}}
Holders(h) ==
    Queued(h)
      \cup {x \in {"starting"} : pc \in {"look", "start"} /\ cmd.host = h}
      \cup {x \in {"transmit"} : tx # "none" /\ txHost = h}
      \cup {x \in {"scan"} : /\ sEnergyScanActiveInterface = h
                            /\ sEnergyScanStatus # "idle"
                            /\ sEnergyScanMode = "async"}

\* A request is held in exactly one place from the call until the answer: the
\* queue, the start, the transmission or the scan.  None is overtaken, started
\* twice or left behind.  What is left aside: a frame from the queue whose start
\* fails, of which nobody hears any more ("dropped", 3556).
Waits(h) == waiting[h] \in Kinds
AccountedFor ==
    refused \/
    \A h \in Hosts : Cardinality(Holders(h)) = IF Waits(h) THEN 1 ELSE 0

\* processPendingCommands leaves a command in the queue only while a
\* transmission or a scan really goes on or waits for its report (3545).
RadioIsBusy == tx # "none" \/ rail_timer \/ ScanIsDone
RefusedOnlyWhenBusy ==
    [][pc = "pending" /\ pc' = "idle" /\ sPendingCommandQueue # <<>> /\ ~refused
         => RadioIsBusy]_vars

\* Every host gets its answer, however the others use the radio, unless hosts
\* ask again from within their otPlatRadioTxDone for ever: such a request is
\* started before the pending queue is looked at.
AskedInTxDone == pc \in {"look", "start"} /\ ret = "scan"
AllAnswered ==
    \/ \A h \in Hosts : Waits(h) ~> ~Waits(h)
    \/ []<>AskedInTxDone
    \/ <>refused
=============================================================================
