----------------------------- MODULE GreenPower -----------------------------
(***************************************************************************)
(* The Green Power interface of sl_gp_interface.c: the one buffered answer *)
(* of all hosts, which is sent when its device asks for it, an offset      *)
(* after the request, or given up after a time.  Everything runs in the    *)
(* main loop; the deadline is kept as what is left of it.  A radio that is *)
(* busy queues the frame like any other (RadioScan has the queue).         *)
(***************************************************************************)
EXTENDS Naturals, Sequences

CONSTANTS
    GpHosts,     \* the instances of the hosts
    GpTimeout,   \* GP_TX_MAX_TIMEOUT_IN_MICRO_SECONDS
    GpOffset     \* GP_RX_OFFSET_IN_MICRO_SECONDS

ASSUME GpAssumption ==
    /\ GpHosts # {} /\ GpHosts \subseteq Nat \ {0}
    /\ GpTimeout \in Nat /\ GpOffset \in Nat

VARIABLES
    gp_state,
    gpLeft,               \* what is left until gpStateTimeOut
    sBufferedTxInstance,
    gpQueue,              \* the hosts whose GP frame is in sPendingCommandQueue
    gpTxDone,             \* the host in whose otPlatRadioTxDone efr32GpProcess is
    gpWaiting,            \* hosts whose frame was taken and not answered for
    gpLost                \* of these, those whose frame is nowhere any more

gpVars == <<gp_state, gpLeft, sBufferedTxInstance, gpQueue, gpTxDone, gpWaiting, gpLost>>

GpStates == {"init", "idle", "waiting", "send"}
NoHost   == 0

GpInit ==
    /\ gp_state = "init" /\ gpLeft = 0 /\ sBufferedTxInstance = NoHost
    /\ gpQueue = <<>> /\ gpTxDone = NoHost
    /\ gpWaiting = {} /\ gpLost = {}

\* The bounded clock: a deadline that has passed stays so.
GpTick ==
    /\ gpLeft > 0
    /\ gpLeft' = gpLeft - 1
    /\ UNCHANGED <<gp_state, sBufferedTxInstance, gpQueue, gpTxDone, gpWaiting, gpLost>>

-----------------------------------------------------------------------------
(* otPlatRadioTransmit of a frame that should be buffered.                 *)

\* sl_gp_intf_buffer_pkt: the buffer need not be free.
BufferPkt(h) ==
    /\ gp_state' = "waiting"
    /\ gpLeft' = GpTimeout
    /\ sBufferedTxInstance' = h
    /\ gpLost' = gpLost \cup ((gpWaiting \cap {sBufferedTxInstance}) \ {h})

\* What the radio does with a frame: it transmits it and answers for it, or
\* the call returns an error that its caller ignores.
GpRadio(h) ==
    \/ gpWaiting' = gpWaiting \ {h} /\ UNCHANGED gpLost
    \/ gpLost' = gpLost \cup {h} /\ UNCHANGED gpWaiting

\* A host hands in a frame: from the main loop, or again from within its
\* otPlatRadioTxDone.  While a response is on its way to the radio the frame is
\* transmitted like any other (no matter here), or queued.
HandsIn(h) ==
    /\ gpTxDone \in {NoHost, h} /\ h \notin gpWaiting
    /\ gpWaiting' = gpWaiting \cup {h}
    /\ \/ gp_state # "send" /\ BufferPkt(h) /\ UNCHANGED gpQueue
       \/ /\ gp_state = "send"
          /\ gpQueue' = Append(gpQueue, h)
          /\ UNCHANGED <<gp_state, gpLeft, sBufferedTxInstance, gpLost>>
    /\ UNCHANGED gpTxDone

\* processPendingCommands calls otPlatRadioTransmit for the queued frame, which
\* is a frame to be buffered still.
TakesQueued ==
    /\ gpTxDone = NoHost /\ gpQueue # <<>>
    /\ gpQueue' = Tail(gpQueue)
    /\ \/ gp_state # "send" /\ BufferPkt(Head(gpQueue)) /\ UNCHANGED gpWaiting
       \/ /\ gp_state = "send"
          /\ GpRadio(Head(gpQueue))
          /\ UNCHANGED <<gp_state, gpLeft, sBufferedTxInstance>>
    /\ UNCHANGED gpTxDone

\* processNextRxPacket: a received request for which the buffered frame is the
\* answer.  Its time stamp may be old: the deadline may have passed.
RequestReceived ==
    /\ gpTxDone = NoHost
    /\ gp_state = "waiting"
    /\ gp_state' = "send"
    /\ gpLeft' \in 0..GpOffset
    /\ UNCHANGED <<sBufferedTxInstance, gpQueue, gpTxDone, gpWaiting, gpLost>>

-----------------------------------------------------------------------------
(* efr32GpProcess.                                                         *)

\* Mutation: a frame nobody asks for is kept for ever.
OnlyResponses  == gp_state = "send" /\ gpLeft = 0
DeadlinePassed == gp_state \in {"send", "waiting"} /\ gpLeft = 0

GpStarts ==
    /\ gp_state = "init"
    /\ gp_state' = "idle"
    /\ UNCHANGED <<gpLeft, sBufferedTxInstance, gpQueue, gpTxDone, gpWaiting, gpLost>>

\* Mutation: a frame that was sent stays the buffered one.
StateOnly == gp_state' = "idle" /\ UNCHANGED sBufferedTxInstance
GpIdle == gp_state' = "idle" /\ sBufferedTxInstance' = NoHost

\* otPlatRadioTransmit finds the radio busy and queues the frame, or hands it
\* to the radio; the state is idle again in both cases.
SendsResponse ==
    /\ DeadlinePassed /\ gp_state = "send"
    /\ GpIdle
    /\ \/ /\ gpQueue' = Append(gpQueue, sBufferedTxInstance)
          /\ UNCHANGED <<gpWaiting, gpLost>>
       \/ GpRadio(sBufferedTxInstance) /\ UNCHANGED gpQueue
    /\ UNCHANGED <<gpLeft, gpTxDone>>

\* otPlatRadioTxDone with OT_ERROR_ABORT is called ...
GivesUpWaiting ==
    /\ gpTxDone = NoHost
    /\ DeadlinePassed /\ gp_state = "waiting"
    /\ gpTxDone' = sBufferedTxInstance
    /\ gpWaiting' = gpWaiting \ {sBufferedTxInstance}
    /\ UNCHANGED <<gp_state, gpLeft, sBufferedTxInstance, gpQueue, gpLost>>

\* ... and returns: what was buffered within it is forgotten.
GivenUp ==
    /\ gpTxDone # NoHost
    /\ gpTxDone' = NoHost
    /\ GpIdle
    /\ gpLost' = gpLost \cup (gpWaiting \cap {sBufferedTxInstance})
    /\ UNCHANGED <<gpLeft, gpQueue, gpWaiting>>

efr32GpProcess == GpStarts \/ SendsResponse \/ GivesUpWaiting \/ GivenUp

GpNext == GpTick \/ (\E h \in GpHosts : HandsIn(h)) \/ TakesQueued \/ RequestReceived
            \/ efr32GpProcess

\* The clock runs; the main loop calls efr32GpProcess and, when the radio is
\* free, takes commands from the queue again and again.
GpFairness == /\ WF_gpVars(GpTick) /\ WF_gpVars(SendsResponse \/ GivesUpWaiting \/ GivenUp)
              /\ SF_gpVars(TakesQueued)

GpSpec == GpInit /\ [][GpNext]_gpVars /\ GpFairness

-----------------------------------------------------------------------------
GpTypeOK ==
    /\ gp_state \in GpStates
    /\ gpLeft \in Nat
    /\ sBufferedTxInstance \in GpHosts \cup {NoHost}
    /\ gpQueue \in Seq(GpHosts)
    /\ gpTxDone \in GpHosts \cup {NoHost}
    /\ gpWaiting \subseteq GpHosts /\ gpLost \subseteq gpWaiting

InGpQueue(h) == \E i \in 1..Len(gpQueue) : gpQueue[i] = h

\* The buffer has an instance exactly while the state says that it holds a
\* frame (the assertions at 116 and 135), and the frame of a host that waits is
\* in one place and no second one, through requeueing, replacement and re-entry.
GpHeldOnce ==
    /\ gp_state \in {"waiting", "send"} <=> sBufferedTxInstance # NoHost
    /\ \A i, j \in 1..Len(gpQueue) : gpQueue[i] = gpQueue[j] => i = j
    /\ \A h \in GpHosts :
          /\ h \in gpWaiting => sBufferedTxInstance = h \/ InGpQueue(h) \/ h \in gpLost
          /\ InGpQueue(h) => h \in gpWaiting \ gpLost /\ sBufferedTxInstance # h
          /\ sBufferedTxInstance = h => (h \in gpWaiting \/ gpTxDone = h) /\ h \notin gpLost

\* A host whose frame was taken gets its otPlatRadioTxDone, whether or not the
\* device asks for the frame, unless the frame was lost, or finds the radio
\* busy and is buffered again for ever.
GpAnswered ==
    \A h \in GpHosts :
        \/ h \in gpWaiting ~> (h \notin gpWaiting \/ h \in gpLost)
        \/ []<>InGpQueue(h)
=============================================================================
