------------------------------ MODULE SpiSlave ------------------------------
(***************************************************************************)
(* The SPI slave of spidrv_usart.c and spidrv_eusart.c.  The host drives   *)
(* chip select and the clock whenever it likes; DMA feeds the transmit     *)
(* FIFO from the buffer of the stack and, behind it, from a default byte.  *)
(* At the end of a transaction an interrupt works out from the DMA         *)
(* channel how many bytes were clocked, and the stack prepares the next    *)
(* one.  The stack always gives both buffers.                              *)
(***************************************************************************)
EXTENDS Integers

CONSTANTS
    Eusart,      \* which of the two drivers is built
    FifoDepth,   \* of the transmit FIFO
    MaxXfer,     \* MAX_DMA_DESCRIPTOR_TRANSFER_COUNT
    Lens,        \* the lengths of output the stack prepares
    MaxTaken     \* bound: bytes the host takes, fewer than DMA has

ASSUME SpiAssumption ==
    /\ Eusart \in BOOLEAN
    /\ FifoDepth \in Nat \ {0} /\ MaxXfer \in Nat \ {0}
    /\ Lens \subseteq 1..MaxXfer
    /\ MaxTaken \in Nat /\ MaxTaken + FifoDepth <= MaxXfer

VARIABLES
    spi,           \* "off", "on", or "stuck" with interrupts disabled
    selected,      \* chip select is low
    risingEdge,    \* the interrupt of the rising edge is pending
    taken,         \* bytes the host has taken from the FIFO since the transfer
                   \* was started; it gets others when the FIFO is empty
    txFifo,        \* bytes in it
    txDma,         \* the channel: descriptor, transfers left, running
    length0,       \* tx_descriptor[0].xfer.xferCnt + 1
    prepare,       \* otPlatSpiSlavePrepareTransaction: who is in it, where
    armed,         \* one has succeeded since the last transaction end
    hostRequest,   \* the host interrupt line is asserted
    should_process_transaction,
    inProcess,     \* the main loop is in process_callback
    unprocessed,   \* a transaction asked for processing and got none yet
    overlapped     \* one did so while an earlier one was processed

hostVars    == <<selected, risingEdge, taken>>
txVarsSpi   == <<txFifo, txDma, length0>>
processVars == <<should_process_transaction, inProcess, unprocessed, overlapped>>
callVars    == <<prepare, armed, hostRequest>>
spiVars     == <<spi, hostVars, txVarsSpi, callVars, processVars>>

NotPreparing == [by |-> "nobody", stage |-> "none", len |-> 0]

SpiInit ==
    /\ spi = "off"
    /\ selected = FALSE /\ risingEdge = FALSE /\ taken = 0
    /\ txFifo = 0 /\ length0 = 1
    /\ txDma = [descriptor |-> 1, left |-> MaxXfer, running |-> FALSE]
    /\ prepare = NotPreparing /\ armed = FALSE /\ hostRequest = FALSE
    /\ should_process_transaction = FALSE /\ inProcess = FALSE
    /\ unprocessed = FALSE /\ overlapped = FALSE

-----------------------------------------------------------------------------
(* The host and the DMA controller.                                        *)

HostSelects ==
    /\ ~selected
    /\ selected' = TRUE
    /\ UNCHANGED <<spi, risingEdge, taken, txVarsSpi, callVars, processVars>>

HostClocks ==
    /\ selected /\ txFifo > 0 /\ taken < MaxTaken
    /\ taken' = taken + 1
    /\ txFifo' = txFifo - 1
    /\ UNCHANGED <<spi, selected, risingEdge, txDma, length0, callVars, processVars>>

HostReleases ==
    /\ selected
    /\ selected' = FALSE
    /\ risingEdge' = (spi = "on")
    /\ UNCHANGED <<spi, taken, txVarsSpi, callVars, processVars>>

\* The second descriptor is loaded behind the last byte of the first.
DmaFills ==
    /\ txDma.running /\ txDma.left > 0 /\ txFifo < FifoDepth
    /\ txFifo' = txFifo + 1
    /\ txDma' = IF txDma.descriptor = 0 /\ txDma.left = 1
                THEN [txDma EXCEPT !.descriptor = 1, !.left = MaxXfer]
                ELSE [txDma EXCEPT !.left = @ - 1]
    /\ UNCHANGED <<spi, hostVars, length0, callVars, processVars>>

-----------------------------------------------------------------------------
(* The end of a transaction.                                               *)

\* What is in the FIFO when it is counted: the EUSART has cleared it.
FifoCounted == IF Eusart THEN 0 ELSE txFifo

\* Mutation: the bytes in the FIFO are taken for sent.
LeftInChannel == txDma.left
NotYetClocked == txDma.left + FifoCounted

\* tx_transaction_size, from the descriptor that is loaded: what
\* complete_callback is told.
TransactionSize ==
    IF txDma.descriptor = 1
    THEN length0 + MaxXfer - NotYetClocked
    ELSE length0 - NotYetClocked

\* Calls of otPlatSpiSlavePrepareTransaction, by the interrupt through
\* complete_callback or by the main loop.  The chip select is looked at here.
Calls(caller) ==
    IF selected THEN prepare' = NotPreparing
    ELSE \E len \in Lens : prepare' = [by |-> caller, stage |-> "stopped", len |-> len]

\* A transaction that needs no processing leaves an earlier request alone.
\* Mutation: the flag is what the last callback answered.
LastAnswer(process) == process
Requested(process)  == should_process_transaction \/ process

\* rcp_spidrv_spi_transaction_end_interrupt.
TransactionEnd ==
    /\ risingEdge /\ spi = "on" /\ prepare = NotPreparing
    /\ risingEdge' = FALSE
    /\ taken' = 0
    /\ txDma' = [txDma EXCEPT !.running = FALSE]
    /\ txFifo' = FifoCounted
    /\ armed' = FALSE
    /\ hostRequest' = FALSE
    /\ Calls("interrupt")
    /\ \E process \in BOOLEAN :
          /\ should_process_transaction' = Requested(process)
          /\ unprocessed' = (unprocessed \/ process)
          /\ overlapped' = (overlapped \/ (process /\ inProcess))
    /\ UNCHANGED <<spi, selected, length0, inProcess>>

-----------------------------------------------------------------------------
(* otPlatSpiSlavePrepareTransaction.  Interrupts wait; the host does not.  *)

PrepareBegins ==
    /\ spi = "on" /\ prepare = NotPreparing /\ ~risingEdge
    /\ Calls("main")
    /\ txDma' = [txDma EXCEPT !.running = @ /\ selected]
    /\ UNCHANGED <<spi, hostVars, txFifo, length0, armed, hostRequest, processVars>>

\* A transaction begins meanwhile: OT_ERROR_BUSY, with DMA stopped.
GivesUp(stage) ==
    /\ prepare.stage = stage /\ selected
    /\ prepare' = NotPreparing
    /\ armed' = FALSE
    /\ UNCHANGED <<spi, hostVars, txVarsSpi, hostRequest, processVars>>

SetsDescriptor ==
    /\ prepare.stage = "stopped" /\ ~selected
    /\ txFifo' = 0
    /\ length0' = prepare.len
    /\ armed' = FALSE
    /\ prepare' = [prepare EXCEPT !.stage = "set"]
    /\ UNCHANGED <<spi, hostVars, txDma, hostRequest, processVars>>

LooksAgain ==
    /\ prepare.stage = "set" /\ ~selected
    /\ prepare' = [prepare EXCEPT !.stage = "start"]
    /\ UNCHANGED <<spi, hostVars, txVarsSpi, armed, hostRequest, processVars>>

StartsTransfer ==
    /\ prepare.stage = "start"
    /\ txDma' = [descriptor |-> 0, left |-> prepare.len, running |-> TRUE]
    /\ armed' = TRUE
    /\ hostRequest' \in BOOLEAN
    /\ taken' = 0
    /\ prepare' = NotPreparing
    /\ UNCHANGED <<spi, selected, risingEdge, txFifo, length0, processVars>>

Prepares ==
    \/ GivesUp("stopped") \/ SetsDescriptor
    \/ GivesUp("set") \/ LooksAgain \/ StartsTransfer

-----------------------------------------------------------------------------
(* Enabling, disabling, and efr32SpiProcess.                               *)

\* A slave ready for the host: an empty FIFO, and DMA that feeds it the default
\* byte until a transaction is prepared.
Enabled ==
    /\ ~selected
    /\ spi' = "on"
    /\ should_process_transaction' = FALSE
    /\ txFifo' = 0
    /\ txDma' = [descriptor |-> 1, left |-> MaxXfer, running |-> TRUE]
    /\ length0' = 1

\* "Initialization during transaction is not supported": the check is inside
\* the critical section, which is then never left, and the callbacks stay.
LeftDisabled ==
    /\ selected
    /\ spi' = "stuck"
    /\ should_process_transaction' = FALSE
    /\ length0' = 1
    /\ UNCHANGED <<txFifo, txDma>>

otPlatSpiSlaveEnable ==
    /\ spi = "off"
    /\ Enabled \/ LeftDisabled
    /\ UNCHANGED <<hostVars, callVars, inProcess, unprocessed, overlapped>>

otPlatSpiSlaveDisable ==
    /\ spi = "on" /\ prepare = NotPreparing /\ ~inProcess
    /\ spi' = "off"
    /\ risingEdge' = FALSE
    /\ txDma' = [txDma EXCEPT !.running = FALSE]
    /\ armed' = FALSE /\ hostRequest' = FALSE
    /\ should_process_transaction' = FALSE /\ unprocessed' = FALSE
    /\ UNCHANGED <<selected, taken, txFifo, length0, prepare, inProcess, overlapped>>

ProcessBegins ==
    /\ should_process_transaction /\ ~inProcess /\ prepare = NotPreparing
    /\ inProcess' = TRUE
    /\ unprocessed' = FALSE
    /\ UNCHANGED <<spi, hostVars, txVarsSpi, callVars, should_process_transaction, overlapped>>

\* The flag is cleared behind the callback.
ProcessEnds ==
    /\ inProcess /\ prepare = NotPreparing
    /\ inProcess' = FALSE
    /\ should_process_transaction' = FALSE
    /\ UNCHANGED <<spi, hostVars, txVarsSpi, callVars, unprocessed, overlapped>>

efr32SpiProcess == ProcessBegins \/ ProcessEnds

SpiNext ==
    \/ HostSelects \/ HostClocks \/ HostReleases \/ DmaFills
    \/ TransactionEnd \/ PrepareBegins \/ Prepares
    \/ efr32SpiProcess \/ otPlatSpiSlaveEnable \/ otPlatSpiSlaveDisable

\* Interrupts are served, a call ends, and the main loop calls
\* efr32SpiProcess again and again, whatever comes in between.
SpiFairness ==
    /\ WF_spiVars(TransactionEnd) /\ WF_spiVars(Prepares)
    /\ SF_spiVars(ProcessBegins) /\ SF_spiVars(ProcessEnds)

SpiSpec == SpiInit /\ [][SpiNext]_spiVars /\ SpiFairness

-----------------------------------------------------------------------------
SpiTypeOK ==
    /\ spi \in {"off", "on", "stuck"}
    /\ selected \in BOOLEAN /\ risingEdge \in BOOLEAN
    /\ taken \in 0..MaxTaken /\ txFifo \in 0..FifoDepth
    /\ txDma \in [descriptor : {0, 1}, left : 0..MaxXfer, running : BOOLEAN]
    /\ length0 \in 1..MaxXfer
    /\ prepare.by \in {"nobody", "interrupt", "main"}
    /\ prepare.stage \in {"none", "stopped", "set", "start"}
    /\ prepare.len \in 0..MaxXfer
    /\ armed \in BOOLEAN /\ hostRequest \in BOOLEAN
    /\ should_process_transaction \in BOOLEAN /\ inProcess \in BOOLEAN
    /\ unprocessed \in BOOLEAN /\ overlapped \in BOOLEAN

\* The interrupt finds how many bytes of its output the host has taken, at
\* whatever moment the transaction ends and however full the FIFO is, if
\* a transfer was started for it.
SizeIsTaken == risingEdge /\ armed => TransactionSize = taken

\* A transaction that is to be processed is processed, unless the flag was
\* set while an earlier one was processed: it is cleared behind the callback.
SpiProcessed == unprocessed ~> (~unprocessed \/ overlapped)
=============================================================================
