------------------------------ MODULE UartDrv ------------------------------
(***************************************************************************)
(* The UART of uartdrv_uart.c.  DMA fills one of two receive buffers; a    *)
(* ring of the same size hands the bytes to the main loop.  Two writers    *)
(* copy into the ring: receiveDone, the interrupt of a full buffer, and    *)
(* processReceive, which fetches what has come so far; lastCount is how    *)
(* much of the active buffer has been copied.  A byte is its number on the *)
(* wire.                                                                   *)
(***************************************************************************)
EXTENDS Integers, Sequences

CONSTANTS
    N,         \* kReceiveFifoSize and RECEIVE_BUFFER_SIZE
    MaxBytes   \* bound: bytes on the wire

ASSUME UartAssumption ==
    /\ N \in Nat \ {0, 1}
    /\ MaxBytes \in Nat

VARIABLES
    arrived,       \* bytes that came over the wire
    count,         \* bytes DMA has put into the active buffer
    fresh,         \* bytes since the last fetch
    since,         \* bytes since the fetch of the last completed pass
    late,          \* a pass once ended after a whole buffer of bytes
    rxIrq,         \* UART_IRQHandler is pending
    sRxDataReady,
    mBuffer, mHead, mTail, lastCount,
    tail,          \* processReceive's copy of mTail
    at,            \* where processReceive is
    received,      \* what otPlatUartReceived was given
    sTxComplete,
    sending        \* the caller's frame: "none", "sending" or "sent"

wireVars == <<arrived, count, fresh, since, late>>
fifoVars == <<mBuffer, mHead, mTail, lastCount>>
passVars == <<tail, at, received>>
txVars   == <<sTxComplete, sending>>
vars     == <<wireVars, rxIrq, sRxDataReady, fifoVars, passVars, txVars>>

Places == {"idle", "look", "first", "reset", "second", "advance", "flush"}

\* Behind otPlatUartEnable.
Init ==
    /\ arrived = 0 /\ count = 0 /\ fresh = 0 /\ since = 0 /\ late = FALSE
    /\ rxIrq = FALSE /\ sRxDataReady = FALSE
    /\ mBuffer = [i \in 0..(N - 1) |-> 0]
    /\ mHead = 0 /\ mTail = 0 /\ lastCount = 0
    /\ tail = 0 /\ at = "idle" /\ received = <<>>
    /\ sTxComplete = FALSE /\ sending = "none"

-----------------------------------------------------------------------------
(* Reception.                                                              *)

\* DMA stores a byte and the UART raises its interrupt.  A full buffer waits
\* for receiveDone before the other one is filled.
ByteArrives ==
    /\ arrived < MaxBytes /\ count < N
    /\ arrived' = arrived + 1 /\ count' = count + 1
    /\ fresh' = fresh + 1 /\ since' = since + 1
    /\ late' = (late \/ since' >= N)
    /\ rxIrq' = TRUE
    /\ UNCHANGED <<sRxDataReady, fifoVars, passVars, txVars>>

UART_IRQHandler ==
    /\ rxIrq
    /\ rxIrq' = FALSE
    /\ sRxDataReady' = TRUE
    /\ UNCHANGED <<wireVars, fifoVars, passVars, txVars>>

\* Byte i of the active buffer.
Dma(i) == arrived - count + 1 + i

\* memcpy of the bytes of the active buffer from lastCount up to count.
Copied == [i \in 0..(N - 1) |->
             IF i \in mTail..(mTail + count - lastCount - 1)
             THEN Dma(lastCount + i - mTail) ELSE mBuffer[i]]

\* Mutations: the ring's end is not wrapped; the bytes copied by
\* processReceive are not counted; the next buffer is counted from where the
\* last one was.
NotWrapped == mTail + count - lastCount
NotCounted == lastCount
NotReset   == lastCount
Counted    == count
Reset      == 0
TailAfter  == (mTail + count - lastCount) % N

\* "We can only write if incrementing mTail doesn't equal mHead"
MayWrite == mHead # TailAfter

receiveDone ==
    /\ count = N
    /\ IF MayWrite
       THEN /\ mBuffer' = Copied
            /\ mTail' = TailAfter
            /\ lastCount' = Reset
       ELSE UNCHANGED <<mBuffer, mTail, lastCount>>
    /\ count' = 0
    /\ UNCHANGED <<arrived, fresh, since, late, rxIrq, sRxDataReady, mHead, passVars, txVars>>

\* The critical section of processReceive: the last byte of a buffer may come
\* within it and receiveDone, held back until it ends, finds count fetched.
Fetch ==
    /\ at = "idle" /\ sRxDataReady
    /\ sRxDataReady' = FALSE
    /\ fresh' = 0
    /\ IF count > lastCount
       THEN /\ mBuffer' = Copied
            /\ mTail' = TailAfter
            /\ lastCount' = Counted
       ELSE UNCHANGED <<mBuffer, mTail, lastCount>>
    /\ at' = "look"
    /\ UNCHANGED <<arrived, count, since, late, rxIrq, mHead, tail, received, txVars>>

\* An interrupt preempts the main loop anywhere else.
Preempted == count = N

TakeTail ==
    /\ at = "look" /\ ~Preempted
    /\ tail' = mTail
    /\ at' = IF mHead > mTail THEN "first" ELSE "second"
    /\ UNCHANGED <<wireVars, rxIrq, sRxDataReady, fifoVars, received, txVars>>

\* otPlatUartReceived of the ring from lo up to hi.
HandOver(lo, hi) ==
    received' = received \o [k \in 1..(hi - lo) |-> mBuffer[lo + k - 1]]

FirstPart ==
    /\ at = "first" /\ ~Preempted
    /\ HandOver(mHead, N)
    /\ at' = "reset"
    /\ UNCHANGED <<wireVars, rxIrq, sRxDataReady, fifoVars, tail, txVars>>

ResetHead ==
    /\ at = "reset" /\ ~Preempted
    /\ mHead' = 0
    /\ at' = "second"
    /\ UNCHANGED <<wireVars, rxIrq, sRxDataReady, mBuffer, mTail, lastCount,
                   tail, received, txVars>>

SecondPart ==
    /\ at = "second" /\ ~Preempted
    /\ IF mHead # tail
       THEN /\ HandOver(mHead, tail)
            /\ at' = "advance"
            /\ UNCHANGED since
       ELSE /\ at' = "idle" /\ since' = fresh
            /\ UNCHANGED received
    /\ UNCHANGED <<arrived, count, fresh, late, rxIrq, sRxDataReady, fifoVars, tail, txVars>>

AdvanceHead ==
    /\ at = "advance" /\ ~Preempted
    /\ mHead' = tail
    /\ at' = "idle" /\ since' = fresh
    /\ UNCHANGED <<arrived, count, fresh, late, rxIrq, sRxDataReady, mBuffer, mTail,
                   lastCount, tail, received, txVars>>

processReceive == Fetch \/ TakeTail \/ FirstPart \/ ResetHead \/ SecondPart
                    \/ AdvanceHead

-----------------------------------------------------------------------------
(* Transmission.                                                           *)

otPlatUartSend ==
    /\ at = "idle" /\ sending = "none"
    /\ sending' = "sending"
    /\ UNCHANGED <<wireVars, rxIrq, sRxDataReady, fifoVars, passVars, sTxComplete>>

transmitDone ==
    /\ sending = "sending"
    /\ sending' = "sent"
    /\ sTxComplete' = TRUE
    /\ UNCHANGED <<wireVars, rxIrq, sRxDataReady, fifoVars, passVars>>

processTransmit ==
    /\ at = "idle" /\ sTxComplete
    /\ sTxComplete' = FALSE
    /\ sending' = "none"
    /\ UNCHANGED <<wireVars, rxIrq, sRxDataReady, fifoVars, passVars>>

\* otPlatUartFlush blocks until DMA is idle or, after its timeout, aborts what
\* is left, which runs transmitDone; the caller knows that the frame is gone.
FlushBegin ==
    /\ at = "idle"
    /\ at' = "flush"
    /\ UNCHANGED <<wireVars, rxIrq, sRxDataReady, fifoVars, tail, received, txVars>>

FlushEnd ==
    /\ at = "flush"
    /\ sTxComplete' = FALSE
    /\ sending' = "none"
    /\ at' = "idle"
    /\ UNCHANGED <<wireVars, rxIrq, sRxDataReady, fifoVars, tail, received>>

Interrupts == UART_IRQHandler \/ receiveDone \/ transmitDone
Main == processReceive \/ processTransmit \/ FlushEnd
Next == ByteArrives \/ Interrupts \/ Main \/ otPlatUartSend \/ FlushBegin

\* Interrupts are served and the main loop calls efr32UartProcess again and
\* again, whatever is sent or flushed in between.
Fairness ==
    /\ WF_vars(UART_IRQHandler) /\ WF_vars(receiveDone) /\ WF_vars(transmitDone)
    /\ SF_vars(processReceive) /\ SF_vars(processTransmit) /\ WF_vars(FlushEnd)

Spec == Init /\ [][Next]_vars /\ Fairness

-----------------------------------------------------------------------------
TypeOK ==
    /\ arrived \in Nat /\ fresh \in Nat /\ since \in Nat /\ late \in BOOLEAN /\ count \in 0..N
    /\ rxIrq \in BOOLEAN /\ sRxDataReady \in BOOLEAN
    /\ mBuffer \in [0..(N - 1) -> Int]
    /\ mHead \in 0..(N - 1) /\ mTail \in 0..(N - 1) /\ lastCount \in 0..N
    /\ tail \in 0..(N - 1)
    /\ at \in Places
    /\ received \in Seq(Int)
    /\ sTxComplete \in BOOLEAN
    /\ sending \in {"none", "sending", "sent"}

\* Neither copy writes behind the end of mBuffer, although both check nothing
\* of the kind: the ring and the DMA buffers have one size and mTail follows
\* lastCount, also when receiveDone has refused a buffer and bytes are lost.
CopyStaysInside == mTail + (N - lastCount) <= N

\* The stack is given the bytes of the wire, in order, none lost and none
\* twice, as long as fewer than N bytes come from the fetch of one pass of
\* processReceive to the end of the next.
BytesInOrder == ~late => \A k \in DOMAIN received : received[k] = k

\* No byte stays behind in a buffer: the byte that completes a buffer, or
\* comes while the ready flag is cleared, still gets a pass that fetches it.
\* The line carries MaxBytes at most: once it is quiet all has been handed over.
AllDelivered == <>[](Len(received) = arrived \/ late)
=============================================================================
