------------------------------- MODULE RadioRx -------------------------------
(***************************************************************************)
(* Reception in src/src/src/radio.c: RAIL's interrupt copies a received    *)
(* frame into a block of a fixed memory pool and queues the block          *)
(* (packetReceivedCallback); the main loop takes blocks from the queue,    *)
(* hands the frame to the stack and gives the block back                   *)
(* (processRxPackets, processNextRxPacket).  The interrupt may run between *)
(* any two steps of the main loop, callbacks into the stack included.      *)
(*                                                                         *)
(* A frame is known by its number in arrival order, the interface it is    *)
(* for and the two facts the code branches on: whether it is a Green Power *)
(* frame, and whether it asks for a secured enhanced ACK.                  *)
(*                                                                         *)
(* An operator introduced by "Mutation:" belongs to no behaviour of the    *)
(* code: put in place of the operator after it, it must break a property.  *)
(***************************************************************************)
EXTENDS Naturals, Sequences

CONSTANTS
    Buffers,     \* the blocks of sRxPacketMemPoolHandle
    QueueLen,    \* capacity of sRxPacketQueue
    MultiPan,    \* OPENTHREAD_CONFIG_MULTIPAN_RCP_ENABLE
    MaxIid,      \* RADIO_INTERFACE_COUNT - 1
    Initialized, \* the interfaces that have a stack instance
    MaxFrames,   \* bound: how many frames arrive
    NoBuffer,    \* a NULL rxBuffer pointer
    NoFrame      \* no frame on the air

\* RADIO_BCAST_IID; a build without MultiPan has this interface only.
BcastIid == 0
Iids     == 0..MaxIid

ASSUME RadioRxAssumption ==
    /\ QueueLen \in Nat \ {0}
    /\ MaxFrames \in Nat
    /\ MaxIid \in Nat
    /\ MultiPan \in BOOLEAN
    /\ Initialized \subseteq Iids
    /\ NoBuffer \notin Buffers
    /\ MultiPan  => MaxIid > 0 /\ BcastIid \notin Initialized
    /\ ~MultiPan => MaxIid = 0 /\ Initialized = {BcastIid}

\* ackCtr is the MAC frame counter the secured enhanced ACK of the frame
\* carried on the air, 0 until (or unless) such an ACK was built.
Frame == [num : 1..MaxFrames, iid : Iids, gp : BOOLEAN, secAck : BOOLEAN,
          ackCtr : Nat]

ASSUME NoFrameAssumption == NoFrame \notin Frame

\* What one otPlatRadioReceiveDone call tells the stack.
Report == [num : 1..MaxFrames, gp : BOOLEAN, ackedSec : BOOLEAN,
           usedCtr : Nat, mAckFrameCounter : Nat]

VARIABLES
    arrived,         \* how many frames have arrived so far
    air,             \* the frame RAIL is receiving
    free,            \* the pool's free blocks
    mem,             \* the frame stored in each block
    sRxPacketQueue,  \* the queued blocks
    macFrameCounter, \* sMacKeys[iid].macFrameCounter
    ackFrameCounter, \* sMacKeys[iid].ackFrameCounter
    pc,              \* where the main loop is
    rxPacketBuf,     \* the block the main loop is processing
    sReceive,        \* what prepareNextRxPacketforCb put into sReceive
    interfaceId,     \* loop variable of processNextRxPacket
    queued,          \* history: numbers of the frames ever queued
    done             \* history: the ReceiveDone calls each interface got

rxVars   == <<free, mem, sRxPacketQueue, queued>>
mainVars == <<pc, rxPacketBuf, sReceive, interfaceId, done>>
keyVars  == <<macFrameCounter, ackFrameCounter>>
vars     == <<arrived, air, rxVars, keyVars, mainVars>>

Locations == {"idle", "first", "second", "free"}

TypeOK ==
    /\ arrived \in 0..MaxFrames
    /\ air \in Frame \cup {NoFrame}
    /\ free \subseteq Buffers
    /\ mem \in [Buffers -> Frame \cup {NoFrame}]
    /\ sRxPacketQueue \in Seq(Buffers)
    /\ macFrameCounter \in [Iids -> Nat]
    /\ ackFrameCounter \in [Iids -> Nat]
    /\ pc \in Locations
    /\ rxPacketBuf \in Buffers \cup {NoBuffer}
    /\ sReceive \in [iid : Iids, ctr : Nat]
    /\ interfaceId \in 0..(MaxIid + 1)
    /\ queued \subseteq 1..MaxFrames
    /\ done \in [Iids -> Seq(Report)]

\* efr32RadioInit: queue and pool are empty before reception is enabled.
Init ==
    /\ arrived = 0
    /\ air = NoFrame
    /\ free = Buffers
    /\ mem = [b \in Buffers |-> NoFrame]
    /\ sRxPacketQueue = <<>>
    /\ macFrameCounter = [i \in Iids |-> 1]
    /\ ackFrameCounter = [i \in Iids |-> 0]
    /\ pc = "idle"
    /\ rxPacketBuf = NoBuffer
    /\ sReceive = [iid |-> BcastIid, ctr |-> 0]
    /\ interfaceId = 0
    /\ queued = {}
    /\ done = [i \in Iids |-> <<>>]

-----------------------------------------------------------------------------
(* The air and the interrupt.                                              *)

\* RAIL starts to receive a frame.  A secured enhanced ACK is only asked
\* for by a frame sent to one interface.
StartFrame ==
    /\ air = NoFrame
    /\ arrived < MaxFrames
    /\ \E f \in [num : {arrived + 1}, iid : Iids, gp : BOOLEAN,
                 secAck : BOOLEAN, ackCtr : {0}] :
          /\ f.secAck => ~f.gp /\ (MultiPan => f.iid # BcastIid)
          /\ air' = f
    /\ arrived' = arrived + 1
    /\ UNCHANGED <<rxVars, keyVars, mainVars>>

\* writeIeee802154EnhancedAck with radioProcessTransmitSecurity, run by the
\* interrupt once the addresses of the frame are in: the ACK takes the next
\* MAC frame counter, which is remembered for the interface, and the frame
\* still in RAIL's FIFO is marked as acknowledged that way.
WriteEnhancedAck ==
    /\ air # NoFrame
    /\ air.secAck /\ air.ackCtr = 0
    /\ ackFrameCounter' = [ackFrameCounter EXCEPT ![air.iid] =
                                                  macFrameCounter[air.iid]]
    /\ macFrameCounter' = [macFrameCounter EXCEPT ![air.iid] = @ + 1]
    /\ air' = [air EXCEPT !.ackCtr = macFrameCounter[air.iid]]
    /\ UNCHANGED <<arrived, rxVars, mainVars>>

\* The frame is lost on the air or fails a check of packetReceivedCallback;
\* no block is held yet and freeing the NULL pointer changes nothing.
DropFrame ==
    /\ air # NoFrame
    /\ air' = NoFrame
    /\ UNCHANGED <<arrived, rxVars, keyVars, mainVars>>

\* The two reasons for which a good frame has no room.
QueueIsFull == Len(sRxPacketQueue) >= QueueLen
NoRoom      == QueueIsFull \/ free = {}

\* Mutation: the pool hands out a block that is in use.
AnyBlock == Buffers
\* The blocks sl_memory_pool_alloc may return.
FreeBlocks == free

\* Mutation: the newest frame is put in front.
EnqueueFirst(b) == <<b>> \o sRxPacketQueue
\* queueAdd.
Enqueue(b) == Append(sRxPacketQueue, b)

\* packetReceivedCallback, frame kept: allocate, copy, queueAdd.  queueAdd
\* cannot fail here: the same interrupt has just seen that there is room.
QueueFrame ==
    /\ air # NoFrame
    /\ ~NoRoom
    /\ \E b \in FreeBlocks :
          /\ free' = free \ {b}
          /\ mem' = [mem EXCEPT ![b] = air]
          /\ sRxPacketQueue' = Enqueue(b)
    /\ queued' = queued \cup {air.num}
    /\ air' = NoFrame
    /\ UNCHANGED <<arrived, keyVars, mainVars>>

Interrupt == WriteEnhancedAck \/ DropFrame \/ QueueFrame

-----------------------------------------------------------------------------
(* The main loop.                                                          *)

\* prepareNextRxPacketforCb.
PrepareNext ==
    /\ pc = "idle"
    /\ sRxPacketQueue # <<>>
    /\ LET b == Head(sRxPacketQueue) IN
          /\ rxPacketBuf' = b
          /\ interfaceId' = mem[b].iid
          /\ sReceive' = [iid |-> mem[b].iid,
                          ctr |-> ackFrameCounter[mem[b].iid]]
    /\ sRxPacketQueue' = Tail(sRxPacketQueue)
    /\ pc' = "first"
    /\ UNCHANGED <<arrived, air, free, mem, queued, keyVars, done>>

\* The instance of the interface the loop is at; NULL for the broadcast
\* interface of a MultiPan build and for interfaces not yet initialized.
HasInstance == interfaceId \in Initialized

\* Mutation: the last interface is left out.
AllButLast == sReceive.iid = BcastIid /\ interfaceId + 1 < MaxIid
\* Mutation: the loop runs past the last interface.
OneTooMany == sReceive.iid = BcastIid /\ interfaceId <= MaxIid
\* The while condition, evaluated after interfaceId++.
MoreInterfaces == sReceive.iid = BcastIid /\ interfaceId + 1 <= MaxIid

\* Mutation: `continue` comes before the increment.
SameInterface == interfaceId
\* interfaceId++.
FollowingInterface == interfaceId + 1

NextInterface ==
    /\ interfaceId' = FollowingInterface
    /\ pc' = IF MoreInterfaces THEN "first" ELSE "free"

\* otPlatRadioReceiveDone with sReceive, whose mPsdu is the block itself.
ReceiveDone ==
    LET f == mem[rxPacketBuf] IN
    done' = [done EXCEPT ![interfaceId] =
                Append(@, [num |-> f.num, gp |-> f.gp,
                           ackedSec |-> f.ackCtr # 0, usedCtr |-> f.ackCtr,
                           mAckFrameCounter |-> sReceive.ctr])]

SkipInterface ==
    /\ pc = "first"
    /\ ~HasInstance
    /\ NextInterface
    /\ UNCHANGED <<arrived, air, rxVars, keyVars, rxPacketBuf, sReceive, done>>

FirstReceiveDone ==
    /\ pc = "first"
    /\ HasInstance
    /\ ReceiveDone
    /\ pc' = "second"
    /\ UNCHANGED <<arrived, air, rxVars, keyVars, rxPacketBuf, sReceive,
                   interfaceId>>

\* Mutation: the Green Power exit returns without freeing the block.
ReturnAtOnce == "idle"
\* The exit label is in front of sl_memory_pool_free.
AfterGp == "free"

\* A build without MultiPan leaves the loop here for a Green Power frame.
SecondReceiveDone ==
    /\ pc = "second"
    /\ IF ~MultiPan /\ mem[rxPacketBuf].gp
       THEN pc' = AfterGp /\ UNCHANGED <<interfaceId, done>>
       ELSE ReceiveDone /\ NextInterface
    /\ UNCHANGED <<arrived, air, rxVars, keyVars, rxPacketBuf, sReceive>>

\* Mutation: the block is never given back.
BlockKept == free
\* sl_memory_pool_free.
BlockReturned == free \cup {rxPacketBuf}

FreeBlock ==
    /\ pc = "free"
    /\ free' = BlockReturned
    /\ rxPacketBuf' = NoBuffer
    /\ pc' = "idle"
    /\ UNCHANGED <<arrived, air, mem, sRxPacketQueue, queued, keyVars,
                   sReceive, interfaceId, done>>

Main == PrepareNext \/ SkipInterface \/ FirstReceiveDone
           \/ SecondReceiveDone \/ FreeBlock

Next == StartFrame \/ Interrupt \/ Main

\* The super loop calls efr32RadioProcess again and again.
Fairness == WF_vars(Main)

Spec == Init /\ [][Next]_vars /\ Fairness

-----------------------------------------------------------------------------
(* Properties.                                                             *)

QueuedBlocks == {sRxPacketQueue[i] : i \in DOMAIN sRxPacketQueue}
HeldByMain   == {rxPacketBuf} \ {NoBuffer}

\* Every block of the pool is in exactly one place: free, queued once, or in
\* the hands of the main loop.  Violated by a leak, a double free, or a
\* block queued twice, in packetReceivedCallback or processNextRxPacket.
PoolConservation ==
    /\ free \cup QueuedBlocks \cup HeldByMain = Buffers
    /\ free \cap QueuedBlocks = {}
    /\ free \cap HeldByMain = {}
    /\ QueuedBlocks \cap HeldByMain = {}
    /\ \A i, j \in DOMAIN sRxPacketQueue :
          sRxPacketQueue[i] = sRxPacketQueue[j] => i = j

\* Frames reach the stack in the order they came from the air: block reuse
\* never brings an older frame behind a newer one.
OrderOf(i) == [k \in DOMAIN done[i] |-> done[i][k].num]
ArrivalOrder ==
    /\ \A i \in Iids : \A j, k \in DOMAIN done[i] :
          j <= k => OrderOf(i)[j] <= OrderOf(i)[k]
    /\ \A j, k \in DOMAIN sRxPacketQueue :
          j < k => mem[sRxPacketQueue[j]].num < mem[sRxPacketQueue[k]].num

\* While the stack looks at a frame (sReceive.frame.mPsdu points into the
\* block) no interrupt writes another frame into its block.
BlockStable ==
    [][rxPacketBuf # NoBuffer /\ rxPacketBuf' = rxPacketBuf
          => mem'[rxPacketBuf] = mem[rxPacketBuf]]_vars

\* A frame for one interface is never handed to another one; a broadcast
\* frame goes to all initialized instances, none skipped, before the block
\* is given back.
Recipients(f) == IF f.iid = BcastIid /\ MultiPan
                 THEN Initialized ELSE Initialized \cap {f.iid}
Got(i, n)     == \E k \in DOMAIN done[i] : done[i][k].num = n
RightRecipients ==
    rxPacketBuf # NoBuffer =>
       LET f == mem[rxPacketBuf] IN
       /\ \A i \in Iids : Got(i, f.num) => i \in Recipients(f)
       /\ pc = "free" => \A i \in Recipients(f) : Got(i, f.num)

\* Every queued frame leaves the queue and its block comes back to the pool
\* however many frames arrive meanwhile.
QueueDrains == \A b \in Buffers : b \notin free ~> b \in free

\* The comment above prepareNextRxPacketforCb speaks of "the receiveDone
\* callback" of a packet: an interface hears of a frame once.
DeliveredOnce ==
    \A i \in Iids : \A j, k \in DOMAIN done[i] :
       OrderOf(i)[j] = OrderOf(i)[k] => j = k

\* "Store ack frame counter and ack key ID for receive frame": the counter
\* reported with a frame is the one its own secured ACK carried.
AckCounterIsOwn ==
    \A i \in Iids : \A k \in DOMAIN done[i] :
       done[i][k].ackedSec =>
          done[i][k].mAckFrameCounter = done[i][k].usedCtr
=============================================================================
