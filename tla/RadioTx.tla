------------------------------- MODULE RadioTx -------------------------------
(***************************************************************************)
(* Transmission in src/src/src/radio.c: the flags of miscRadioState, the   *)
(* main-loop calls that start transmissions and receptions                 *)
(* (otPlatRadioTransmit, Receive, ReceiveAt, Sleep), the interrupt that    *)
(* RAIL calls with a mask of events (RAILCb_Generic and the callbacks under*)
(* it), the coexistence grant, and processTxComplete, which reports the    *)
(* outcome.  Builds without MultiPan, where the stack has one frame in the *)
(* driver at a time.                                                       *)
(*                                                                         *)
(* RAIL itself is outside the repository; it is modelled by the events it  *)
(* raises.  Events raised before the interrupt runs reach the driver in    *)
(* one mask.  The main loop makes no step while an interrupt is pending,   *)
(* critical sections excepted.                                             *)
(***************************************************************************)

CONSTANTS
    Frames,  \* the frames the stack may hand over
    Coex,    \* SL_CATALOG_RAIL_UTIL_COEX_PRESENT
    Dmp,     \* RADIO_CONFIG_DMP_SUPPORT: scheduler errors are reported
    Overlap, \* the stack asks for a receive window while it has a frame or
             \* another window in the driver
    NoFrame, \* sCurrentTxPacket before the first frame
    NoOutcome

\* ack: asks for an ACK; cmd: a MAC command; csma: mCsmaCaEnabled;
\* delay: mTxDelay is not 0, so the transmission is scheduled.
FrameType == [ack : BOOLEAN, cmd : BOOLEAN, csma : BOOLEAN, delay : BOOLEAN]

ASSUME RadioTxAssumption ==
    /\ Frames \subseteq FrameType
    /\ NoFrame \notin FrameType
    /\ {Coex, Dmp, Overlap} \subseteq BOOLEAN

TxEvents == {"TX_SUCCESS", "TX_CCA_FAILED", "TX_NO_ACK", "TX_FAILED"}
ASSUME NoOutcomeAssumption == NoOutcome \notin TxEvents

\* miscRadioState, a mask in the code, is the set of its flags.
Flags == TxEvents \cup
         {"ONGOING_TX_DATA", "ONGOING_TX_ACK", "WAITING_FOR_ACK",
          "CURRENT_TX_USE_CSMA", "SCHEDULED_RX_PENDING",
          "SCHEDULED_TX_PENDING", "SCHEDULED_RX_STARTED",
          "SCHEDULED_TX_STARTED"}

\* RAIL's events.  SCHEDULED_STARTED is one value for Rx and Tx; TX_ABORTED
\* stands for TX_BLOCKED, TX_UNDERFLOW and TX_ABORTED, which end alike.
Events == {"TX_PACKET_SENT", "TX_CHANNEL_BUSY", "TX_ABORTED",
           "SCHEDULED_STARTED", "SCHEDULED_TX_MISSED", "SCHEDULED_RX_OVER",
           "RX_PACKET_RECEIVED", "RX_ACK_TIMEOUT", "TXACK_SENT",
           "TXACK_FAILED", "SCHEDULER_STATUS"}

VARIABLES
    miscRadioState,   \* the set of flags
    sCurrentTxPacket, \* the frame in transmission
    emPendingData,    \* a data poll was answered: hold the radio
    pc,               \* the driver call the main loop is in
    awaiting,         \* the stack has a frame in the driver
    pta,              \* a coexistence grant is pending
    op,               \* what RAIL does with the frame
    rx,               \* RAIL's receiver
    autoAck,          \* RAIL is sending an ACK
    pending,          \* the events raised and not yet handled
    packet,           \* the packet RX_PACKET_RECEIVED is about
    schedulerError,   \* what sl_rail_get_scheduler_status would say
    acked,            \* history: RAIL got the ACK of the frame
    sent,             \* history: TX_PACKET_SENT was handled for the frame
    yieldedOnAck,     \* history: the radio was yielded on the frame's ACK
    idledUnderTx,     \* history: the driver idled RAIL while it sent a frame
    assertFailed      \* history: an OT_ASSERT failed

driver  == <<miscRadioState, sCurrentTxPacket, emPendingData, pc, awaiting>>
rail    == <<op, rx, autoAck, pending, packet, schedulerError>>
history == <<acked, sent, yieldedOnAck, idledUnderTx, assertFailed>>
vars    == <<driver, pta, rail, history>>

TypeOK ==
    /\ miscRadioState \subseteq Flags
    /\ sCurrentTxPacket \in Frames \cup {NoFrame}
    /\ emPendingData \in BOOLEAN
    /\ pc \in {"idle", "transmit", "receiveAtLoad", "receiveAt", "sleep"}
    /\ awaiting \in BOOLEAN
    /\ pta \in BOOLEAN
    /\ op \in {"none", "scheduled", "csma", "air", "ackwait"}
    /\ rx \in {"off", "listen", "waiting", "window"}
    /\ autoAck \in BOOLEAN
    /\ pending \subseteq Events
    /\ packet \in {"none", "ack", "data", "dataAckRequest"}
    /\ schedulerError \in BOOLEAN
    /\ acked \in BOOLEAN /\ sent \in BOOLEAN /\ yieldedOnAck \in BOOLEAN
    /\ idledUnderTx \in BOOLEAN /\ assertFailed \in BOOLEAN

Init ==
    /\ miscRadioState = {}
    /\ sCurrentTxPacket = NoFrame
    /\ emPendingData = FALSE
    /\ pc = "idle"
    /\ awaiting = FALSE
    /\ pta = FALSE
    /\ op = "none"
    /\ rx = "off"
    /\ autoAck = FALSE
    /\ pending = {}
    /\ packet = "none"
    /\ schedulerError = FALSE
    /\ acked = FALSE
    /\ sent = FALSE
    /\ yieldedOnAck = FALSE
    /\ idledUnderTx = FALSE
    /\ assertFailed = FALSE

-----------------------------------------------------------------------------
(* RAIL (external): the life of a transmission, a receive window, an       *)
(* automatic ACK and unsolicited packets.                                  *)

Raise(es) == pending' = pending \cup es

\* The two events of a scheduled operation do not share a mask: the start of
\* a receive window that the transmission displaced, raised in the critical
\* section, is delivered at the section's end, before the transmission's time.
ScheduledTimeArrives ==
    /\ op = "scheduled" /\ "SCHEDULED_STARTED" \notin pending
    /\ \/ op' = "csma" /\ Raise({"SCHEDULED_STARTED"})
       \/ op' = "none" /\ Raise({"SCHEDULED_TX_MISSED"})
    /\ UNCHANGED <<driver, pta, rx, autoAck, packet, schedulerError, history>>

ChannelAssessed ==
    /\ op = "csma"
    /\ \/ op' = "air" /\ UNCHANGED pending
       \/ op' = "none" /\ Raise({"TX_CHANNEL_BUSY"})
       \/ op' = "none" /\ Raise({"TX_ABORTED"})
    /\ UNCHANGED <<driver, pta, rx, autoAck, packet, schedulerError, history>>

FrameSent ==
    /\ op = "air"
    /\ \/ /\ op' = IF sCurrentTxPacket.ack THEN "ackwait" ELSE "none"
          /\ Raise({"TX_PACKET_SENT"})
       \/ op' = "none" /\ Raise({"TX_ABORTED"})
    /\ UNCHANGED <<driver, pta, rx, autoAck, packet, schedulerError, history>>

\* The ACK, the timeout, or both at once.
AckWaitEnds ==
    /\ op = "ackwait"
    /\ op' = "none"
    /\ \/ Raise({"RX_ACK_TIMEOUT"}) /\ UNCHANGED <<packet, acked>>
       \/ /\ packet = "none"
          /\ packet' = "ack"
          /\ acked' = TRUE
          /\ \/ Raise({"RX_PACKET_RECEIVED"})
             \/ Raise({"RX_PACKET_RECEIVED", "RX_ACK_TIMEOUT"})
    /\ UNCHANGED <<driver, pta, rx, autoAck, schedulerError, sent,
                   yieldedOnAck, idledUnderTx, assertFailed>>

\* Another protocol takes the radio away from the transmission.
TransmitPreempted ==
    /\ Dmp
    /\ op # "none"
    /\ op' = "none"
    /\ schedulerError' = TRUE
    /\ \/ Raise({"SCHEDULER_STATUS"})
       \/ op = "air" /\ Raise({"SCHEDULER_STATUS", "TX_ABORTED"})
    /\ UNCHANGED <<driver, pta, rx, autoAck, packet, history>>

TxProgress == ScheduledTimeArrives \/ ChannelAssessed \/ FrameSent
                 \/ AckWaitEnds \/ TransmitPreempted

\* A scheduled receive window opens, is missed, ends, or is preempted.
WindowProgress ==
    /\ \/ rx = "waiting" /\ rx' = "window" /\ Raise({"SCHEDULED_STARTED"})
             /\ UNCHANGED schedulerError
       \/ rx \in {"waiting", "window"} /\ rx' = "off"
             /\ Raise({"SCHEDULED_RX_OVER"}) /\ UNCHANGED schedulerError
       \/ Dmp /\ rx \in {"waiting", "window"} /\ rx' = "off"
             /\ Raise({"SCHEDULER_STATUS"}) /\ schedulerError' = TRUE
    /\ UNCHANGED <<driver, pta, op, autoAck, packet, history>>

\* Somebody else's packet arrives; RAIL acknowledges it by itself.
PacketArrives ==
    /\ rx \in {"listen", "window"} /\ op \in {"none", "csma"}
    /\ packet = "none" /\ ~autoAck
    /\ \/ packet' = "data" /\ UNCHANGED autoAck
       \/ packet' = "dataAckRequest" /\ autoAck' = TRUE
    /\ Raise({"RX_PACKET_RECEIVED"})
    /\ UNCHANGED <<driver, pta, op, rx, schedulerError, history>>

AutoAckEnds ==
    /\ autoAck
    /\ autoAck' = FALSE
    /\ \/ Raise({"TXACK_SENT"})
       \/ Raise({"TXACK_FAILED"})
    /\ UNCHANGED <<driver, pta, op, rx, packet, schedulerError, history>>

Rail == TxProgress \/ WindowProgress \/ PacketArrives \/ AutoAckEnds

-----------------------------------------------------------------------------
(* The driver's callbacks, each an operator from the state the driver is   *)
(* in to the state it leaves.  One interrupt runs several in a row.        *)

Now == [flags |-> miscRadioState, em |-> emPendingData, sent |-> sent,
        yieldedOnAck |-> yieldedOnAck, failed |-> assertFailed,
        idle |-> FALSE, pta |-> pta]

\* setInternalFlag, getInternalFlag, OT_ASSERT.
Set(s, F)      == [s EXCEPT !.flags = @ \cup F]
Clear(s, F)    == [s EXCEPT !.flags = @ \ F]
Has(s, f)      == f \in s.flags
Assert(s, ok)  == [s EXCEPT !.failed = @ \/ ~ok]

txWaitingForAck(s) == Has(s, "ONGOING_TX_DATA") /\ sCurrentTxPacket.ack
txIsDataRequest(s) == Has(s, "ONGOING_TX_DATA") /\ sCurrentTxPacket.cmd

\* Mutation: a broadcast leaves ONGOING_TX_DATA set.
SentButOngoing(s) ==
    IF ~Has(s, "ONGOING_TX_DATA") THEN s
    ELSE LET t == [Clear(s, {"CURRENT_TX_USE_CSMA"}) EXCEPT !.sent = TRUE] IN
         IF txWaitingForAck(t)
         THEN Set(t, {"WAITING_FOR_ACK"})
         ELSE Clear(Set(t, {"TX_SUCCESS"}), {"SCHEDULED_TX_STARTED"})
\* packetSentCallback(false).
packetSentCallback(s) ==
    IF ~Has(s, "ONGOING_TX_DATA") THEN s
    ELSE LET t == [Clear(s, {"CURRENT_TX_USE_CSMA"}) EXCEPT !.sent = TRUE] IN
         IF txWaitingForAck(t)
         THEN Set(t, {"WAITING_FOR_ACK"})
         ELSE Clear(Set(t, {"TX_SUCCESS"}),
                    {"ONGOING_TX_DATA", "SCHEDULED_TX_STARTED"})

\* packetSentCallback(true) and txFailedCallback(true, ...): the ACK we sent.
ackSentCallback(s) == [Clear(s, {"ONGOING_TX_ACK"}) EXCEPT !.em = FALSE]
\* Mutation: the status, 0xFF, is recorded as an outcome.
StatusRecorded(s) == Set(Clear(s, {"ONGOING_TX_ACK"}), {"0xFF"})
ackFailedCallback(s) == Clear(s, {"ONGOING_TX_ACK"})

\* txFailedCallback(false, status).  The stack event that goes with it
\* withdraws a pending coexistence request.
txFailedCallback(s, status) ==
    IF ~Has(s, "ONGOING_TX_DATA") THEN s
    ELSE LET t == IF status = "TX_CCA_FAILED"
                  THEN Clear(Set(s, {"TX_CCA_FAILED"}),
                             {"CURRENT_TX_USE_CSMA"})
                  ELSE Set(s, {"TX_FAILED"}) IN
         Clear([t EXCEPT !.pta = FALSE],
               {"ONGOING_TX_DATA", "WAITING_FOR_ACK", "SCHEDULED_TX_STARTED"})

ackTimeoutCallback(s) ==
    LET t == Assert(s, txWaitingForAck(s) /\ Has(s, "WAITING_FOR_ACK")) IN
    [Clear(Set(t, {"TX_NO_ACK"}),
           {"ONGOING_TX_DATA", "SCHEDULED_TX_STARTED", "WAITING_FOR_ACK"})
        EXCEPT !.em = FALSE]

\* packetReceivedCallback for an ACK.  fp: its frame-pending bit.
ackReceived(s, fp) ==
    LET t == IF txWaitingForAck(s)
             THEN Clear(Set(s, {"TX_SUCCESS"}),
                        {"WAITING_FOR_ACK", "ONGOING_TX_DATA",
                         "SCHEDULED_TX_STARTED"})
             ELSE s
        u == IF txWaitingForAck(s) /\ txIsDataRequest(t) /\ fp
             THEN [t EXCEPT !.em = TRUE] ELSE t
    IN IF txIsDataRequest(u) THEN u ELSE [u EXCEPT !.yieldedOnAck = TRUE]

\* packetReceivedCallback; keep: a data packet found room in the Rx queue.
packetReceivedCallback(s, fp, keep) ==
    CASE packet = "ack" -> ackReceived(s, fp)
      [] packet = "data" /\ keep -> [s EXCEPT !.em = FALSE]
      [] packet = "dataAckRequest" /\ keep -> Set(s, {"ONGOING_TX_ACK"})
      [] OTHER -> s

schedulerEventCallback(s) ==
    IF ~schedulerError THEN s
    ELSE LET t == Clear(s, {"SCHEDULED_RX_PENDING", "SCHEDULED_TX_PENDING",
                            "SCHEDULED_TX_STARTED"})
             u == IF Has(t, "ONGOING_TX_ACK") THEN ackFailedCallback(t) ELSE t
             v == IF Has(u, "ONGOING_TX_DATA")
                  THEN txFailedCallback(u, "TX_CCA_FAILED") ELSE u
         IN IF Has(v, "WAITING_FOR_ACK") THEN ackTimeoutCallback(v) ELSE v

-----------------------------------------------------------------------------
(* RAILCb_Generic: its parts in the order they run, es being the mask.     *)

completionPart(s, es) ==
    IF "TX_PACKET_SENT" \in es THEN packetSentCallback(s)
    ELSE IF "TX_CHANNEL_BUSY" \in es THEN txFailedCallback(s, "TX_CCA_FAILED")
    ELSE IF "TX_ABORTED" \in es THEN txFailedCallback(s, "TX_FAILED")
    ELSE s

scheduledPart(s, es) ==
    IF Has(s, "SCHEDULED_RX_PENDING")
    THEN LET t == IF "SCHEDULED_STARTED" \in es
                  THEN Set(s, {"SCHEDULED_RX_STARTED"}) ELSE s IN
         IF "SCHEDULED_RX_OVER" \in es
         THEN [Clear(t, {"SCHEDULED_RX_PENDING", "SCHEDULED_RX_STARTED"})
                  EXCEPT !.idle = TRUE]
         ELSE t
    ELSE IF "SCHEDULED_STARTED" \in es
         THEN Clear(Set(s, {"SCHEDULED_TX_STARTED"}), {"SCHEDULED_TX_PENDING"})
         ELSE IF "SCHEDULED_TX_MISSED" \in es
         THEN txFailedCallback(Clear(s, {"SCHEDULED_TX_PENDING"}), "TX_FAILED")
         ELSE s

packetPart(s, es, fp, keep) ==
    IF "RX_PACKET_RECEIVED" \in es THEN packetReceivedCallback(s, fp, keep)
                                   ELSE s

autoAckPart(s, es) ==
    LET t == IF "TXACK_SENT" \in es THEN ackSentCallback(s) ELSE s
    IN IF "TXACK_FAILED" \in es THEN ackFailedCallback(t) ELSE t

\* Mutation: the timeout is taken although no ACK is awaited any more.
LateTimeout(s, es) ==
    IF "RX_ACK_TIMEOUT" \in es THEN ackTimeoutCallback(s) ELSE s
ackTimeoutPart(s, es) ==
    IF "RX_ACK_TIMEOUT" \in es /\ Has(s, "WAITING_FOR_ACK")
    THEN ackTimeoutCallback(s) ELSE s

schedulerPart(s, es) ==
    IF "SCHEDULER_STATUS" \in es THEN schedulerEventCallback(s) ELSE s

\* Mutation: the timeout is dealt with before the packet.
TimeoutFirst(s, es, fp, keep) ==
    schedulerPart(autoAckPart(packetPart(ackTimeoutPart(scheduledPart(
        completionPart(s, es), es), es), es, fp, keep), es), es)
RAILCb_Generic(s, es, fp, keep) ==
    schedulerPart(ackTimeoutPart(autoAckPart(packetPart(scheduledPart(
        completionPart(s, es), es), es, fp, keep), es), es), es)

\* The driver is left in state s.
Becomes(s) ==
    /\ miscRadioState' = s.flags
    /\ emPendingData' = s.em
    /\ sent' = s.sent
    /\ yieldedOnAck' = s.yieldedOnAck
    /\ assertFailed' = s.failed
    /\ pta' = s.pta

\* The interrupt.  radioSetIdle, called when a receive window is over,
\* would abort a transmission in progress.
Interrupt ==
    /\ pending # {}
    /\ \E fp, keep \in BOOLEAN :
          LET s == RAILCb_Generic(Now, pending, fp, keep) IN
          /\ Becomes(s)
          /\ idledUnderTx' = (idledUnderTx \/ (s.idle /\ op # "none"))
          /\ op' = IF s.idle THEN "none" ELSE op
          /\ rx' = IF s.idle THEN "off" ELSE rx
          /\ pending' = IF s.idle /\ op # "none" THEN {"TX_ABORTED"} ELSE {}
    /\ packet' = "none"
    /\ UNCHANGED <<sCurrentTxPacket, pc, awaiting, autoAck, schedulerError,
                   acked>>

-----------------------------------------------------------------------------
(* Starting a transmission.                                                *)

\* Mutation: a scheduled receive stays pending under the transmission.
WindowStaysPending(s) == s
\* txCurrentPacket: "Prioritize the Tx over schedule Rx".
dropScheduledRx(s) ==
    IF Has(s, "SCHEDULED_RX_PENDING")
    THEN Clear(s, {"SCHEDULED_RX_PENDING", "SCHEDULED_RX_STARTED"}) ELSE s

\* txCurrentPacket; ok: RAIL accepts the transmission.  It has one scheduled
\* operation, which a scheduled transmission replaces.
txCurrentPacket(s, ok) ==
    LET t == dropScheduledRx(Assert(s, Has(s, "ONGOING_TX_DATA")))
        f == sCurrentTxPacket IN
    /\ rx' = IF \/ Has(s, "SCHEDULED_RX_PENDING")
                \/ ok /\ f.delay /\ rx \in {"waiting", "window"}
             THEN "off" ELSE rx
    /\ IF ok
       THEN /\ Becomes(IF f.delay THEN Set(t, {"SCHEDULED_TX_PENDING"}) ELSE t)
            /\ op' = IF f.delay THEN "scheduled"
                     ELSE IF Has(t, "CURRENT_TX_USE_CSMA") THEN "csma"
                     ELSE "air"
            /\ schedulerError' = FALSE
       ELSE /\ Becomes(txFailedCallback(t, "TX_FAILED"))
            /\ UNCHANGED <<op, schedulerError>>

\* otPlatRadioTransmit up to its critical section: nothing in it can be
\* disturbed by the interrupt, which finds no transmission ongoing.
TransmitBegin ==
    /\ pc = "idle" /\ pending = {} /\ ~awaiting
    /\ \E f \in Frames :
          /\ sCurrentTxPacket' = f
          /\ miscRadioState' = (miscRadioState
                                  \ (TxEvents \cup {"CURRENT_TX_USE_CSMA"}))
                               \cup (IF f.csma THEN {"CURRENT_TX_USE_CSMA"}
                                               ELSE {})
    /\ assertFailed' = (assertFailed \/ "ONGOING_TX_DATA" \in miscRadioState)
    /\ pc' = "transmit"
    /\ awaiting' = TRUE
    /\ acked' = FALSE /\ sent' = FALSE /\ yieldedOnAck' = FALSE
    /\ UNCHANGED <<emPendingData, pta, rail, idledUnderTx>>

\* The frame is sent, or its grant comes later, or the coexistence hook holds
\* it off for good.
tryTxCurrentPacket(s) ==
    \/ \E ok \in BOOLEAN : txCurrentPacket(s, ok)
    \/ /\ Coex
       /\ Becomes([s EXCEPT !.pta = TRUE])
       /\ UNCHANGED <<op, rx, schedulerError>>
    \/ /\ Coex
       /\ Becomes(txFailedCallback(s, "TX_FAILED"))
       /\ UNCHANGED <<op, rx, schedulerError>>

\* The critical section.  Events raised while it runs stay pending.
TransmitStart ==
    /\ pc = "transmit"
    /\ pc' = "idle"
    /\ tryTxCurrentPacket(Set(Now, {"ONGOING_TX_DATA"}))
    /\ UNCHANGED <<sCurrentTxPacket, awaiting, autoAck, pending, packet,
                   acked, idledUnderTx>>

\* onPtaGrantTx, from the coexistence interrupt.
onPtaGrantTx ==
    /\ pta
    /\ \E ok \in BOOLEAN :
          txCurrentPacket([Clear(Now, {"CURRENT_TX_USE_CSMA"})
                              EXCEPT !.pta = FALSE], ok)
    /\ UNCHANGED <<sCurrentTxPacket, pc, awaiting, autoAck, pending, packet,
                   acked, idledUnderTx>>

-----------------------------------------------------------------------------
(* The other calls of the main loop.                                       *)

\* The outcome processTxComplete finds, in the order it looks.
Outcome(flags) ==
    IF "TX_SUCCESS" \in flags THEN "TX_SUCCESS"
    ELSE IF "TX_CCA_FAILED" \in flags THEN "TX_CCA_FAILED"
    ELSE IF "TX_NO_ACK" \in flags THEN "TX_NO_ACK"
    ELSE "TX_FAILED"

\* Mutation: the event just reported is not cleared.
ReportedAgain == {}
\* processTxComplete clears the event it reports, and only that one.
ReportedEvent == {Outcome(miscRadioState)}

processTxComplete ==
    /\ pc = "idle" /\ pending = {}
    /\ miscRadioState \cap TxEvents # {}
    /\ miscRadioState' = miscRadioState \ ReportedEvent
    /\ awaiting' = FALSE
    /\ UNCHANGED <<sCurrentTxPacket, emPendingData, pc, pta, rail, history>>

\* otPlatRadioReceive, when it is not refused and RAIL takes it.
Receive ==
    /\ pc = "idle" /\ pending = {}
    /\ "ONGOING_TX_DATA" \notin miscRadioState
    /\ rx' = "listen"
    /\ miscRadioState' = miscRadioState \ {"SCHEDULED_RX_PENDING"}
    /\ UNCHANGED <<sCurrentTxPacket, emPendingData, pc, awaiting, pta, op,
                   autoAck, pending, packet, schedulerError, history>>

\* The guard of otPlatRadioReceiveAt.
NothingScheduled ==
    miscRadioState \cap {"SCHEDULED_TX_PENDING", "SCHEDULED_TX_STARTED"} = {}

\* otPlatRadioReceiveAt looks at the flags, loads the channel, sets the flag and
\* asks RAIL; interrupts and the grant can come between any two of these.
ReceiveAtLooks ==
    /\ pc = "idle" /\ pending = {}
    /\ Overlap \/ (~awaiting /\ rx \notin {"waiting", "window"})
    /\ NothingScheduled
    /\ pc' = "receiveAtLoad"
    /\ UNCHANGED <<miscRadioState, sCurrentTxPacket, emPendingData, awaiting,
                   pta, rail, history>>

\* efr32RadioLoadChannelConfig has ended, with an error for a channel that no
\* band has.
ReceiveAtBegin ==
    /\ pc = "receiveAtLoad" /\ pending = {}
    /\ \/ /\ miscRadioState' = miscRadioState \cup {"SCHEDULED_RX_PENDING"}
          /\ pc' = "receiveAt"
       \/ pc' = "idle" /\ UNCHANGED miscRadioState
    /\ UNCHANGED <<sCurrentTxPacket, emPendingData, awaiting, pta, rail,
                   history>>

\* RAIL refuses while it transmits; a first request it may refuse at any time.
ReceiveAtStart ==
    /\ pc = "receiveAt" /\ pending = {}
    /\ pc' = "idle"
    /\ \/ /\ op = "none"
          /\ rx' = "waiting"
          /\ schedulerError' = FALSE
          /\ UNCHANGED miscRadioState
       \/ /\ op # "none" \/ rx \in {"off", "listen"}
          /\ miscRadioState' = miscRadioState \ {"SCHEDULED_RX_PENDING"}
          /\ UNCHANGED <<rx, schedulerError>>
    /\ UNCHANGED <<sCurrentTxPacket, emPendingData, awaiting, pta, op,
                   autoAck, pending, packet, history>>

\* otPlatRadioSleep: the flag is cleared before the radio is idle.
SleepBegin ==
    /\ pc = "idle" /\ pending = {}
    /\ "ONGOING_TX_DATA" \notin miscRadioState
    /\ miscRadioState' = miscRadioState \ {"SCHEDULED_RX_PENDING"}
    /\ pc' = "sleep"
    /\ UNCHANGED <<sCurrentTxPacket, emPendingData, awaiting, pta, rail,
                   history>>

SleepIdle ==
    /\ pc = "sleep" /\ pending = {}
    /\ pc' = "idle"
    /\ rx' = "off"
    /\ idledUnderTx' = (idledUnderTx \/ op # "none")
    /\ UNCHANGED <<miscRadioState, sCurrentTxPacket, emPendingData, awaiting,
                   pta, op, autoAck, pending, packet, schedulerError, acked,
                   sent, yieldedOnAck, assertFailed>>

Main == TransmitBegin \/ TransmitStart \/ processTxComplete \/ Receive
           \/ ReceiveAtLooks \/ ReceiveAtBegin \/ ReceiveAtStart
           \/ SleepBegin \/ SleepIdle

Next == Rail \/ Interrupt \/ onPtaGrantTx \/ Main

\* RAIL ends every transmission it started, the coexistence arbiter grants
\* what it does not refuse, interrupts are served, and packets do not keep
\* the processor from ever returning to the super loop.
Fairness ==
    /\ WF_vars(TxProgress)
    /\ WF_vars(Interrupt)
    /\ WF_vars(onPtaGrantTx)
    /\ SF_vars(TransmitStart)
    /\ SF_vars(ReceiveAtBegin)
    /\ SF_vars(ReceiveAtStart)
    /\ SF_vars(SleepIdle)
    /\ SF_vars(processTxComplete)

Spec == Init /\ [][Next]_vars /\ Fairness

-----------------------------------------------------------------------------
(* Properties.                                                             *)

Ongoing == "ONGOING_TX_DATA" \in miscRadioState
Decided == miscRadioState \cap TxEvents

\* The driver implements TxService: from the flags one can always tell
\* whether a frame is in flight or decided, and with which outcome.
Service == INSTANCE TxService WITH
    Outcomes <- TxEvents,
    phase    <- IF pc = "transmit" \/ Ongoing THEN "inflight"
                ELSE IF Decided # {} THEN "decided" ELSE "idle",
    outcome  <- IF pc = "transmit" \/ Ongoing \/ Decided = {}
                THEN NoOutcome ELSE Outcome(miscRadioState)

\* Each accepted frame gets one outcome and one otPlatRadioTxDone.
ServiceSafety == Service!Safety
\* ... and gets it after finitely many steps.
ServiceAnswered == Service!Answered

\* The flags agree: a decided frame is no longer ongoing, has one outcome,
\* and an ACK is awaited only for an ongoing frame that asks for one.
FlagsAgree ==
    /\ \A e1, e2 \in Decided : e1 = e2
    /\ Decided # {} => ~Ongoing /\ awaiting
    /\ Ongoing => awaiting
    /\ "WAITING_FOR_ACK" \in miscRadioState
          => Ongoing /\ sCurrentTxPacket.ack

\* No OT_ASSERT of the transmit path fails, whatever the interrupts do.
NoAssertFails == ~assertFailed

\* otPlatRadioReceiveAt: "We can only have one schedule request i.e. either
\* Rx or Tx as they use the same RAIL resources."  Holds without coexistence;
\* with it a grant can come between the check and the flag.
OneScheduleRequest ==
    ~({"SCHEDULED_RX_PENDING", "SCHEDULED_TX_PENDING"} \subseteq miscRadioState)

\* RAILCb_Generic: "we want the ACK to win over the timeout".  A frame whose
\* ACK RAIL received is never reported as failed, and a frame that asked for
\* an ACK is reported as sent only with it.
AckDecides ==
    Decided # {} /\ sCurrentTxPacket.ack =>
       (acked <=> Outcome(miscRadioState) = "TX_SUCCESS")

\* Neither the end of a receive window nor otPlatRadioSleep idles the radio
\* while RAIL is sending the stack's frame.
NeverIdledUnderTx == ~idledUnderTx

\* RAILCb_Generic: "we're using an internal flag 'FLAG_SCHEDULED_RX_PENDING'
\* to track our scheduled-receive state": between calls, RAIL has a receive
\* window to open or to close only while the flag is set.  The end of an
\* earlier window, after the flag was set again, breaks it.
WindowTracked ==
    pc = "idle" /\ rx \in {"waiting", "window"}
       => "SCHEDULED_RX_PENDING" \in miscRadioState

\* schedulerEventCallback means to report a frame whose ACK wait is
\* interrupted as not acknowledged (ackTimeoutCallback): channel access
\* failure is for frames that were not sent.
CcaFailureMeansNotSent == "TX_CCA_FAILED" \in miscRadioState => ~sent

\* "Yield the radio upon receiving an ACK as long as it is not related to a
\* data request."
NoYieldOnDataRequestAck == yieldedOnAck => ~sCurrentTxPacket.cmd
=============================================================================
