---------------------------- MODULE IoStreamUart ----------------------------
(***************************************************************************)
(* The UART of iostream_uart.c in a build with WAIT_FOR_UART_RX_READY.     *)
(* The falling edges of a byte raise the GPIO interrupt that sets          *)
(* sRxDataReady; the byte itself reaches the buffer of the IO stream       *)
(* later, at its stop bit.  The main loop makes a pass when it was         *)
(* signalled.                                                              *)
(***************************************************************************)
EXTENDS Naturals

CONSTANT MaxUnread      \* bound: bytes in the buffer of the IO stream

ASSUME IoStreamAssumption == MaxUnread \in Nat \ {0}

VARIABLES
    onWire,         \* a byte has begun and has not reached the buffer
    edges,          \* it has falling edges left
    unread,         \* bytes in the buffer of the IO stream
    ioRxDataReady,  \* sRxDataReady
    ioTransmitDone, \* sTransmitDone
    owed,           \* frames sent and not yet reported
    signalled,      \* otSysEventSignalPending
    ioPlace,        \* where the main loop is
    missed          \* the flag was cleared for a byte behind its last edge

byteVars == <<onWire, edges, unread>>
ioVars == <<byteVars, ioRxDataReady, ioTransmitDone, owed, signalled, ioPlace, missed>>

IoInit ==
    /\ onWire = FALSE /\ edges = FALSE /\ unread = 0
    /\ ioRxDataReady = FALSE /\ ioTransmitDone = FALSE /\ owed = 0
    /\ signalled = FALSE /\ ioPlace = "waits"
    /\ missed = FALSE

-----------------------------------------------------------------------------
(* The wire.                                                               *)

\* otSysEventSignalPending.  Mutation: the callback leaves it out.
NotWoken == signalled
Woken    == TRUE

\* gpioSerialWakeupCallback, on the start bit of a byte or a later edge of it;
\* last says that no edge follows.
FallingEdge(last) ==
    /\ edges \/ (~onWire /\ unread < MaxUnread)
    /\ onWire' = TRUE
    /\ edges' = ~last
    /\ ioRxDataReady' = TRUE
    /\ signalled' = Woken
    /\ UNCHANGED <<unread, ioTransmitDone, owed, ioPlace, missed>>

\* The IO stream takes the byte.
StopBit ==
    /\ onWire /\ ~edges
    /\ onWire' = FALSE
    /\ unread' = unread + 1
    /\ UNCHANGED <<edges, ioRxDataReady, ioTransmitDone, owed, signalled, ioPlace, missed>>

-----------------------------------------------------------------------------
(* efr32UartProcess.                                                       *)

PassBegins ==
    /\ ioPlace = "waits" /\ signalled
    /\ signalled' = FALSE
    /\ ioPlace' = IF ioRxDataReady THEN "reads" ELSE "flushes"
    /\ UNCHANGED <<byteVars, ioRxDataReady, ioTransmitDone, owed, missed>>

StreamRead ==
    /\ ioPlace = "reads"
    /\ unread' = 0
    /\ ioPlace' = "clears"
    /\ UNCHANGED <<onWire, edges, ioRxDataReady, ioTransmitDone, owed, signalled, missed>>

\* The flag may have been set since the read.
Overlooked == (onWire /\ ~edges) \/ unread > 0

ClearReady ==
    /\ ioPlace = "clears"
    /\ ioRxDataReady' = FALSE
    /\ missed' = (missed \/ Overlooked)
    /\ signalled' = TRUE
    /\ ioPlace' = "flushes"
    /\ UNCHANGED <<byteVars, ioTransmitDone, owed>>

\* otPlatUartFlush, from processTransmit.
FlushesSent ==
    /\ ioPlace = "flushes"
    /\ ioPlace' = "waits"
    /\ ioTransmitDone' = FALSE
    /\ owed' = IF ioTransmitDone THEN owed - 1 ELSE owed
    /\ signalled' = (signalled \/ ioTransmitDone)
    /\ UNCHANGED <<byteVars, ioRxDataReady, missed>>

\* otPlatUartSend, from the stack or its receive callback, flushes first; the
\* write may fail.
StreamSend ==
    /\ ioPlace \in {"waits", "flushes"}
    /\ \E written \in BOOLEAN :
          /\ ioTransmitDone' = written
          /\ owed' = (IF ioTransmitDone THEN owed - 1 ELSE owed) + (IF written THEN 1 ELSE 0)
    /\ signalled' = TRUE
    /\ UNCHANGED <<byteVars, ioRxDataReady, ioPlace, missed>>

IoPass == PassBegins \/ StreamRead \/ ClearReady \/ FlushesSent
IoNext == (\E last \in BOOLEAN : FallingEdge(last)) \/ StopBit \/ IoPass \/ StreamSend

\* A byte ends and the main loop goes on.
IoFairness ==
    /\ WF_ioVars(\E last \in BOOLEAN : edges /\ FallingEdge(last)) /\ WF_ioVars(StopBit)
    /\ WF_ioVars(IoPass)

-----------------------------------------------------------------------------
IoTypeOK ==
    /\ onWire \in BOOLEAN /\ edges \in BOOLEAN /\ missed \in BOOLEAN
    /\ unread \in 0..MaxUnread
    /\ ioRxDataReady \in BOOLEAN /\ ioTransmitDone \in BOOLEAN
    /\ owed \in {0, 1}
    /\ signalled \in BOOLEAN
    /\ ioPlace \in {"waits", "reads", "clears", "flushes"}

\* A byte that has come is read, whatever is sent meanwhile, unless the flag
\* was cleared between the last edge of a byte and its arrival, or behind it.
BytesRead == unread > 0 ~> (unread = 0 \/ missed)
=============================================================================
