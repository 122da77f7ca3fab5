---------------------------- MODULE RadioRx_proofs ----------------------------
(***************************************************************************)
(* Proofs about RadioRx for every pool, queue length, set of interfaces    *)
(* and number of frames.                                                   *)
(***************************************************************************)
EXTENDS RadioRx, TLAPS

\* Where the main loop is says whether it holds a block, and every block
\* that is not free holds a frame.
Holding ==
    /\ pc = "idle" <=> rxPacketBuf = NoBuffer
    /\ pc \in {"first", "second"} => interfaceId \in Iids
    /\ \A b \in QueuedBlocks \cup HeldByMain : mem[b] \in Frame

\* The inductive invariant: PoolConservation alone is not inductive, since
\* FreeBlock must know that the block it returns is a real one.
IInv == TypeOK /\ PoolConservation /\ Holding

USE DEF Locations, Iids, BcastIid

\* Removing the head of a queue without repetitions leaves one without
\* repetitions, which holds all the other elements.
LEMMA TailFacts ==
    ASSUME NEW S, NEW q \in Seq(S), q # <<>>,
           \A i, j \in DOMAIN q : q[i] = q[j] => i = j
    PROVE  LET Els(s) == {s[i] : i \in DOMAIN s} IN
           /\ Head(q) \in S
           /\ Tail(q) \in Seq(S)
           /\ Els(Tail(q)) = Els(q) \ {Head(q)}
           /\ Head(q) \in Els(q)
           /\ \A i, j \in DOMAIN Tail(q) : Tail(q)[i] = Tail(q)[j] => i = j
<1> DEFINE t == Tail(q)
<1>1. /\ Len(q) \in Nat \ {0}
      /\ DOMAIN q = 1..Len(q)
      /\ Head(q) = q[1] /\ q[1] \in S
      /\ t \in Seq(S) /\ Len(t) = Len(q) - 1
      /\ DOMAIN t = 1..(Len(q) - 1)
      /\ \A i \in DOMAIN t : t[i] = q[i + 1]
  OBVIOUS
<1>2. \A i, j \in DOMAIN t : t[i] = t[j] => i = j
  BY <1>1
<1>3. {t[i] : i \in DOMAIN t} \subseteq {q[i] : i \in DOMAIN q} \ {q[1]}
  BY <1>1
<1>4. ASSUME NEW x \in {q[i] : i \in DOMAIN q} \ {q[1]}
      PROVE  x \in {t[i] : i \in DOMAIN t}
  <2>1. PICK k \in DOMAIN q : x = q[k]
    BY <1>4
  <2>2. k - 1 \in DOMAIN t /\ t[k - 1] = x
    BY <1>1, <1>4, <2>1
  <2> QED
    BY <2>2
<1> QED
  BY <1>1, <1>2, <1>3, <1>4

\* Appending a new element to a queue without repetitions.
LEMMA AppendFacts ==
    ASSUME NEW S, NEW q \in Seq(S), NEW x \in S,
           x \notin {q[i] : i \in DOMAIN q},
           \A i, j \in DOMAIN q : q[i] = q[j] => i = j
    PROVE  LET Els(s) == {s[i] : i \in DOMAIN s} IN
           /\ Append(q, x) \in Seq(S)
           /\ Els(Append(q, x)) = Els(q) \cup {x}
           /\ \A i, j \in DOMAIN Append(q, x) :
                 Append(q, x)[i] = Append(q, x)[j] => i = j
<1> DEFINE a == Append(q, x)
<1>1. /\ Len(q) \in Nat
      /\ DOMAIN q = 1..Len(q)
      /\ a \in Seq(S) /\ DOMAIN a = 1..(Len(q) + 1)
      /\ \A i \in DOMAIN q : a[i] = q[i]
      /\ a[Len(q) + 1] = x
  OBVIOUS
<1>2. \A i, j \in DOMAIN a : a[i] = a[j] => i = j
  BY <1>1
<1>3. {a[i] : i \in DOMAIN a} \subseteq {q[i] : i \in DOMAIN q} \cup {x}
  BY <1>1
<1>4. {q[i] : i \in DOMAIN q} \cup {x} \subseteq {a[i] : i \in DOMAIN a}
  BY <1>1
<1> QED
  BY <1>1, <1>2, <1>3, <1>4

-----------------------------------------------------------------------------

LEMMA InitIInv == Init => IInv
BY RadioRxAssumption DEF Init, IInv, TypeOK, PoolConservation, Holding,
                         QueuedBlocks, HeldByMain

\* The air: nothing of the pool changes.
LEMMA AirStep ==
    ASSUME IInv, StartFrame \/ WriteEnhancedAck \/ DropFrame
    PROVE  IInv'
<1>1. CASE StartFrame
  <2>1. PICK f \in [num : {arrived + 1}, iid : Iids, gp : BOOLEAN,
                    secAck : BOOLEAN, ackCtr : {0}] : air' = f
    BY <1>1 DEF StartFrame
  <2>2. arrived + 1 \in 1..MaxFrames /\ arrived' = arrived + 1
    BY <1>1, RadioRxAssumption DEF StartFrame, IInv, TypeOK
  <2>3. air' \in Frame /\ arrived' \in 0..MaxFrames
    BY <2>1, <2>2 DEF Frame
  <2>4. UNCHANGED <<rxVars, keyVars, mainVars>>
    BY <1>1 DEF StartFrame
  <2>5. TypeOK'
    BY <2>3, <2>4 DEF IInv, TypeOK, rxVars, keyVars, mainVars
  <2>6. PoolConservation'
    BY <2>4 DEF IInv, PoolConservation, QueuedBlocks, HeldByMain, rxVars,
                mainVars
  <2>7. Holding'
    BY <2>4 DEF IInv, Holding, QueuedBlocks, HeldByMain, rxVars, mainVars
  <2> QED
    BY <2>5, <2>6, <2>7 DEF IInv
<1>2. CASE WriteEnhancedAck
  <2>1. air \in Frame
    BY <1>2 DEF WriteEnhancedAck, IInv, TypeOK
  <2>2. /\ air' \in Frame
        /\ ackFrameCounter' \in [Iids -> Nat]
        /\ macFrameCounter' \in [Iids -> Nat]
    <3>1. air.iid \in Iids /\ macFrameCounter[air.iid] \in Nat
      BY <2>1 DEF IInv, TypeOK, Frame
    <3>2. air' = [air EXCEPT !.ackCtr = macFrameCounter[air.iid]]
      BY <1>2 DEF WriteEnhancedAck
    <3>3. air' \in Frame
      BY <2>1, <3>1, <3>2 DEF Frame
    <3>4. ackFrameCounter' \in [Iids -> Nat]
      BY <1>2, <3>1 DEF WriteEnhancedAck, IInv, TypeOK
    <3>5. macFrameCounter' \in [Iids -> Nat]
      BY <1>2, <3>1 DEF WriteEnhancedAck, IInv, TypeOK
    <3> QED
      BY <3>3, <3>4, <3>5
  <2>3. UNCHANGED <<arrived, rxVars, mainVars>>
    BY <1>2 DEF WriteEnhancedAck
  <2>4. TypeOK'
    BY <2>2, <2>3 DEF IInv, TypeOK, rxVars, mainVars
  <2>5. PoolConservation'
    BY <2>3 DEF IInv, PoolConservation, QueuedBlocks, HeldByMain, rxVars,
                mainVars
  <2>6. Holding'
    BY <2>3 DEF IInv, Holding, QueuedBlocks, HeldByMain, rxVars, mainVars
  <2> QED
    BY <2>4, <2>5, <2>6 DEF IInv
<1>3. CASE DropFrame
  BY <1>3
     DEF DropFrame, IInv, TypeOK, PoolConservation, Holding, QueuedBlocks,
         HeldByMain, rxVars, keyVars, mainVars
<1> QED
  BY <1>1, <1>2, <1>3

\* The interrupt takes a free block, so the new element of the queue is in
\* no other place.
LEMMA QueueStep == ASSUME IInv, QueueFrame PROVE IInv'
<1>1. PICK b \in free :
         /\ free' = free \ {b}
         /\ mem' = [mem EXCEPT ![b] = air]
         /\ sRxPacketQueue' = Append(sRxPacketQueue, b)
  BY DEF QueueFrame, FreeBlocks, Enqueue
<1>2. /\ air \in Frame
      /\ b \in Buffers
      /\ b \notin QueuedBlocks
      /\ b \notin HeldByMain
      /\ sRxPacketQueue \in Seq(Buffers)
  BY <1>1 DEF QueueFrame, IInv, TypeOK, PoolConservation
<1>3. /\ sRxPacketQueue' \in Seq(Buffers)
      /\ QueuedBlocks' = QueuedBlocks \cup {b}
      /\ \A i, j \in DOMAIN sRxPacketQueue' :
            sRxPacketQueue'[i] = sRxPacketQueue'[j] => i = j
  BY <1>1, <1>2, AppendFacts DEF IInv, PoolConservation, QueuedBlocks
<1>4. HeldByMain' = HeldByMain
  BY DEF QueueFrame, mainVars, HeldByMain
<1>5. PoolConservation'
  BY <1>1, <1>2, <1>3, <1>4 DEF IInv, PoolConservation
<1>6. TypeOK'
  <2>1. mem' \in [Buffers -> Frame \cup {NoFrame}]
    BY <1>1, <1>2 DEF IInv, TypeOK
  <2>2. queued' \subseteq 1..MaxFrames
    BY <1>2 DEF QueueFrame, IInv, TypeOK, Frame
  <2> QED
    BY <1>1, <1>3, <2>1, <2>2
       DEF QueueFrame, IInv, TypeOK, keyVars, mainVars
<1>7. Holding'
  <2>1. \A x \in QueuedBlocks' \cup HeldByMain' : mem'[x] \in Frame
    BY <1>1, <1>2, <1>3, <1>4 DEF IInv, TypeOK, Holding
  <2> QED
    BY <2>1 DEF QueueFrame, mainVars, IInv, Holding
<1> QED
  BY <1>5, <1>6, <1>7 DEF IInv

\* The head of the queue moves into the hands of the main loop.
LEMMA PrepareStep == ASSUME IInv, PrepareNext PROVE IInv'
<1> DEFINE b == Head(sRxPacketQueue)
<1>1. /\ sRxPacketQueue \in Seq(Buffers)
      /\ sRxPacketQueue # <<>>
      /\ sRxPacketQueue' = Tail(sRxPacketQueue)
      /\ rxPacketBuf' = b
      /\ HeldByMain = {}
  BY DEF PrepareNext, IInv, TypeOK, Holding, HeldByMain
<1>2. /\ b \in Buffers
      /\ Tail(sRxPacketQueue) \in Seq(Buffers)
      /\ QueuedBlocks' = QueuedBlocks \ {b}
      /\ b \in QueuedBlocks
      /\ \A i, j \in DOMAIN sRxPacketQueue' :
            sRxPacketQueue'[i] = sRxPacketQueue'[j] => i = j
  BY <1>1, TailFacts DEF IInv, PoolConservation, QueuedBlocks
<1>3. HeldByMain' = {b} /\ b # NoBuffer
  BY <1>1, <1>2, RadioRxAssumption DEF HeldByMain
<1>4. /\ mem[b] \in Frame
      /\ mem[b].iid \in Iids
      /\ ackFrameCounter[mem[b].iid] \in Nat
  BY <1>2 DEF IInv, TypeOK, Holding, Frame
<1>5. TypeOK'
  <2>1. /\ interfaceId' \in 0..(MaxIid + 1)
        /\ sReceive' \in [iid : Iids, ctr : Nat]
    BY <1>4, RadioRxAssumption DEF PrepareNext
  <2> QED
    BY <1>1, <1>2, <2>1 DEF PrepareNext, IInv, TypeOK, keyVars
<1>6. PoolConservation'
  BY <1>1, <1>2, <1>3 DEF PrepareNext, IInv, PoolConservation
<1>7. Holding'
  BY <1>1, <1>2, <1>3, <1>4 DEF PrepareNext, IInv, Holding
<1> QED
  BY <1>5, <1>6, <1>7 DEF IInv

\* What otPlatRadioReceiveDone is told is a Report.
LEMMA ReportType ==
    ASSUME IInv, pc \in {"first", "second"}, ReceiveDone
    PROVE  done' \in [Iids -> Seq(Report)]
<1>1. rxPacketBuf \in Buffers /\ mem[rxPacketBuf] \in Frame
  BY DEF IInv, TypeOK, Holding, HeldByMain
<1> DEFINE f == mem[rxPacketBuf]
           r == [num |-> f.num, gp |-> f.gp, ackedSec |-> f.ackCtr # 0,
                 usedCtr |-> f.ackCtr, mAckFrameCounter |-> sReceive.ctr]
<1>2. r \in Report
  BY <1>1 DEF IInv, TypeOK, Frame, Report
<1>3. interfaceId \in Iids /\ done[interfaceId] \in Seq(Report)
  BY DEF IInv, TypeOK, Holding
<1>4. Append(done[interfaceId], r) \in Seq(Report)
  BY <1>2, <1>3
<1> HIDE DEF r
<1>5. done' = [done EXCEPT ![interfaceId] = Append(@, r)]
  BY DEF ReceiveDone, r
<1> QED
  BY <1>3, <1>4, <1>5 DEF IInv, TypeOK

\* The steps of the main loop that keep the block they hold.
LEMMA DeliverStep ==
    ASSUME IInv, SkipInterface \/ FirstReceiveDone \/ SecondReceiveDone
    PROVE  IInv'
<1>1. /\ rxPacketBuf \in Buffers /\ rxPacketBuf # NoBuffer
      /\ pc \in {"first", "second"}
      /\ interfaceId \in Iids
  BY DEF SkipInterface, FirstReceiveDone, SecondReceiveDone, IInv, TypeOK,
         Holding
<1>2. /\ UNCHANGED <<arrived, air, rxVars, keyVars, rxPacketBuf, sReceive>>
      /\ done' = done \/ ReceiveDone
      /\ \/ pc' = "second" /\ interfaceId' = interfaceId
         \/ pc' = "free" /\ interfaceId' = interfaceId
         \/ NextInterface
  BY DEF SkipInterface, FirstReceiveDone, SecondReceiveDone, AfterGp
<1>3. done' \in [Iids -> Seq(Report)]
  BY <1>1, <1>2, ReportType DEF IInv, TypeOK
<1>4. /\ pc' \in {"first", "second", "free"}
      /\ interfaceId' \in 0..(MaxIid + 1)
      /\ pc' \in {"first", "second"} => interfaceId' \in Iids
  BY <1>1, <1>2, RadioRxAssumption
     DEF NextInterface, MoreInterfaces, FollowingInterface
<1>5. TypeOK'
  BY <1>2, <1>3, <1>4 DEF IInv, TypeOK, rxVars, keyVars
<1>6. PoolConservation'
  BY <1>2 DEF IInv, PoolConservation, QueuedBlocks, HeldByMain, rxVars
<1>7. Holding'
  BY <1>1, <1>2, <1>4 DEF IInv, Holding, QueuedBlocks, HeldByMain, rxVars
<1> QED
  BY <1>5, <1>6, <1>7 DEF IInv

\* The block held is given back; it is a real one because the loop is not
\* idle.
LEMMA FreeStep == ASSUME IInv, FreeBlock PROVE IInv'
<1>1. /\ rxPacketBuf \in Buffers
      /\ HeldByMain = {rxPacketBuf}
      /\ HeldByMain' = {}
      /\ QueuedBlocks' = QueuedBlocks
      /\ free' = free \cup {rxPacketBuf}
  BY DEF FreeBlock, BlockReturned, IInv, TypeOK, Holding, HeldByMain,
         QueuedBlocks
<1>2. TypeOK'
  BY <1>1 DEF FreeBlock, IInv, TypeOK, keyVars
<1>3. PoolConservation'
  BY <1>1 DEF FreeBlock, IInv, PoolConservation
<1>4. Holding'
  BY <1>1 DEF FreeBlock, IInv, Holding
<1> QED
  BY <1>2, <1>3, <1>4 DEF IInv

LEMMA StepIInv == IInv /\ [Next]_vars => IInv'
<1> SUFFICES ASSUME IInv, [Next]_vars PROVE IInv'
  OBVIOUS
<1>1. CASE UNCHANGED vars
  BY <1>1
     DEF vars, rxVars, keyVars, mainVars, IInv, TypeOK, PoolConservation,
         Holding, QueuedBlocks, HeldByMain
<1>2. CASE StartFrame \/ WriteEnhancedAck \/ DropFrame
  BY <1>2, AirStep
<1>3. CASE QueueFrame
  BY <1>3, QueueStep
<1>4. CASE PrepareNext
  BY <1>4, PrepareStep
<1>5. CASE SkipInterface \/ FirstReceiveDone \/ SecondReceiveDone
  BY <1>5, DeliverStep
<1>6. CASE FreeBlock
  BY <1>6, FreeStep
<1> QED
  BY <1>1, <1>2, <1>3, <1>4, <1>5, <1>6 DEF Next, Interrupt, Main

\* Whatever the interrupt and the main loop do, every block is in one place and
\* the main loop holds the one its position says.
THEOREM Invariance == Spec => []IInv
BY InitIInv, StepIInv, PTL DEF Spec

\* Type correctness of the reception state.
THEOREM TypeCorrect == Spec => []TypeOK
<1>1. IInv => TypeOK
  BY DEF IInv
<1> QED
  BY <1>1, Invariance, PTL

\* No block of the pool is leaked, freed twice or queued twice, for a pool
\* and a queue of any size.
THEOREM PoolSafe == Spec => []PoolConservation
<1>1. IInv => PoolConservation
  BY DEF IInv
<1> QED
  BY <1>1, Invariance, PTL

\* A frame the stack is looking at is never overwritten by the interrupt.
THEOREM BlockNeverOverwritten == Spec => BlockStable
<1> DEFINE Step == rxPacketBuf # NoBuffer /\ rxPacketBuf' = rxPacketBuf
                      => mem'[rxPacketBuf] = mem[rxPacketBuf]
<1>1. ASSUME IInv, [Next]_vars PROVE [Step]_vars
  <2>1. CASE QueueFrame
    <3>1. PICK b \in free : mem' = [mem EXCEPT ![b] = air]
      BY <2>1 DEF QueueFrame, FreeBlocks
    <3>2. rxPacketBuf # NoBuffer => rxPacketBuf # b /\ rxPacketBuf \in Buffers
      BY <1>1 DEF IInv, TypeOK, PoolConservation, HeldByMain
    <3> QED
      BY <1>1, <3>1, <3>2 DEF IInv, TypeOK
  <2>2. CASE ~QueueFrame /\ Next
    <3>1. mem' = mem
      BY <2>2 DEF Next, Interrupt, Main, StartFrame, WriteEnhancedAck,
                  DropFrame, PrepareNext, SkipInterface, FirstReceiveDone,
                  SecondReceiveDone, FreeBlock, rxVars
    <3> QED
      BY <3>1
  <2> QED
    BY <1>1, <2>1, <2>2
<1> HIDE DEF Step
<1>2. IInv /\ [Next]_vars => [Step]_vars
  BY <1>1
<1>3. Spec => [][Step]_vars
  BY <1>2, Invariance, PTL DEF Spec
<1> QED
  BY <1>3 DEF BlockStable, Step

-----------------------------------------------------------------------------
(* Arrival order.                                                          *)

\* The number of a frame that is no longer on the air.
Past(n) == n <= arrived /\ (air # NoFrame => n < arrived)

Places  == DOMAIN sRxPacketQueue
NumAt(j) == mem[sRxPacketQueue[j]].num
HeldNum == mem[rxPacketBuf].num
Told(i, k) == done[i][k].num

\* Along the way of a frame the numbers only fall: the air, the queue from its
\* end to its head, the block in hand, what the stack has been told.
AirIsNewest  == air # NoFrame => air.num = arrived
QueueInOrder ==
    /\ \A j \in Places : Past(NumAt(j))
    /\ \A j, k \in Places : j < k => NumAt(j) < NumAt(k)
HeldIsOlder  == rxPacketBuf # NoBuffer => /\ Past(HeldNum)
                                          /\ \A j \in Places : HeldNum < NumAt(j)
ToldIsOlder  ==
    \A i \in Iids : \A k \in DOMAIN done[i] :
       /\ Past(Told(i, k))
       /\ \A j \in Places : Told(i, k) < NumAt(j)
       /\ rxPacketBuf # NoBuffer => Told(i, k) <= HeldNum
ToldInOrder  == \A i \in Iids : \A j, k \in DOMAIN done[i] : j <= k => Told(i, j) <= Told(i, k)

Numbered == AirIsNewest /\ QueueInOrder /\ HeldIsOlder /\ ToldIsOlder /\ ToldInOrder

\* The numbers are numbers.
LEMMA NumbersAreNat ==
    ASSUME IInv
    PROVE  /\ arrived \in Nat
           /\ air # NoFrame => air \in Frame /\ air.num \in Nat
           /\ \A j \in Places : NumAt(j) \in Nat
           /\ rxPacketBuf # NoBuffer => HeldNum \in Nat
           /\ \A i \in Iids : \A k \in DOMAIN done[i] : Told(i, k) \in Nat
<1>1. \A f \in Frame : f.num \in Nat
  BY DEF Frame
<1>2. \A j \in Places : mem[sRxPacketQueue[j]] \in Frame
  BY DEF IInv, Holding, QueuedBlocks, Places
<1>3. rxPacketBuf # NoBuffer => mem[rxPacketBuf] \in Frame
  BY DEF IInv, Holding, HeldByMain
<1>4. ASSUME NEW i \in Iids, NEW k \in DOMAIN done[i] PROVE Told(i, k) \in Nat
  <2>1. done[i] \in Seq(Report)
    BY DEF IInv, TypeOK
  <2>2. done[i][k] \in Report
    BY <2>1, <1>4
  <2> QED BY <2>2 DEF Report, Told
<1> QED BY <1>1, <1>2, <1>3, <1>4 DEF IInv, TypeOK, NumAt, HeldNum

\* What another step of the main loop or of the air leaves alone stays in order.
LEMMA FrameOfOrder ==
    ASSUME IInv, Numbered, UNCHANGED <<mem, sRxPacketQueue, done>>,
           rxPacketBuf' = rxPacketBuf \/ rxPacketBuf' = NoBuffer,
           AirIsNewest', \A n \in Nat : Past(n) => Past(n)'
    PROVE  Numbered'
<1>1. QueueInOrder'
  BY NumbersAreNat DEF Numbered, QueueInOrder, Places, NumAt
<1>2. HeldIsOlder'
  BY NumbersAreNat DEF Numbered, HeldIsOlder, Places, NumAt, HeldNum
<1>3. ToldIsOlder'
  BY NumbersAreNat DEF Numbered, ToldIsOlder, Places, NumAt, HeldNum, Told
<1>4. ToldInOrder'
  BY DEF Numbered, ToldInOrder, Told
<1> QED BY <1>1, <1>2, <1>3, <1>4 DEF Numbered

LEMMA AirKeepsOrder ==
    ASSUME IInv, Numbered, StartFrame \/ WriteEnhancedAck \/ DropFrame
    PROVE  Numbered'
<1>1. UNCHANGED <<mem, sRxPacketQueue, done, rxPacketBuf>>
  BY DEF StartFrame, WriteEnhancedAck, DropFrame, rxVars, mainVars
<1>2. CASE StartFrame
  <2>1. air = NoFrame /\ arrived' = arrived + 1 /\ air'.num = arrived + 1
    BY <1>2 DEF StartFrame
  <2>2. AirIsNewest' /\ \A n \in Nat : Past(n) => Past(n)'
    BY <2>1, NumbersAreNat DEF AirIsNewest, Past
  <2> QED BY <1>1, <2>2, FrameOfOrder
<1>3. CASE WriteEnhancedAck
  <2>1. air \in Frame /\ arrived' = arrived /\ air # NoFrame
        /\ air' = [air EXCEPT !.ackCtr = macFrameCounter[air.iid]]
    BY <1>3, NumbersAreNat DEF WriteEnhancedAck
  <2>2. air'.num = air.num
    BY <2>1 DEF Frame
  <2>3. AirIsNewest' /\ \A n \in Nat : Past(n) => Past(n)'
    BY <2>1, <2>2 DEF Numbered, AirIsNewest, Past
  <2> QED BY <1>1, <2>3, FrameOfOrder
<1>4. CASE DropFrame
  <2>1. AirIsNewest' /\ \A n \in Nat : Past(n) => Past(n)'
    BY <1>4 DEF DropFrame, AirIsNewest, Past
  <2> QED BY <1>1, <2>1, FrameOfOrder
<1> QED BY <1>2, <1>3, <1>4

\* The frame that leaves the air is newer than all that wait.
LEMMA QueueKeepsOrder == ASSUME IInv, Numbered, QueueFrame PROVE Numbered'
<1>1. PICK b \in free : /\ mem' = [mem EXCEPT ![b] = air]
                        /\ sRxPacketQueue' = Append(sRxPacketQueue, b)
  BY DEF QueueFrame, FreeBlocks, Enqueue
<1>2. /\ b \in Buffers /\ sRxPacketQueue \in Seq(Buffers)
      /\ air # NoFrame /\ air' = NoFrame /\ arrived' = arrived
      /\ done' = done /\ rxPacketBuf' = rxPacketBuf
  BY DEF QueueFrame, IInv, TypeOK, mainVars
<1>3. /\ Len(sRxPacketQueue) \in Nat /\ Places = 1..Len(sRxPacketQueue)
      /\ Places' = 1..(Len(sRxPacketQueue) + 1)
      /\ \A j \in Places : sRxPacketQueue'[j] = sRxPacketQueue[j]
      /\ sRxPacketQueue'[Len(sRxPacketQueue) + 1] = b
  BY <1>1, <1>2 DEF Places
<1>4. \A j \in Places : sRxPacketQueue[j] # b
  BY <1>1 DEF IInv, PoolConservation, QueuedBlocks, Places
<1>5. \A j \in Places : sRxPacketQueue[j] \in Buffers /\ mem'[sRxPacketQueue[j]] = mem[sRxPacketQueue[j]]
  BY <1>1, <1>2, <1>3, <1>4 DEF IInv, TypeOK
<1>6. \A j \in Places : NumAt(j)' = NumAt(j)
  BY <1>3, <1>5 DEF NumAt
<1>7. PICK new \in Places' : new = Len(sRxPacketQueue) + 1
  BY <1>3
<1>8. NumAt(new)' = arrived
  BY <1>1, <1>2, <1>3, <1>7 DEF NumAt, IInv, TypeOK, Numbered, AirIsNewest
<1>9. \A j \in Places' : (j \in Places /\ j < new) \/ j = new
  BY <1>3, <1>7
<1>10. \A n \in Nat : Past(n) => Past(n)' /\ n < arrived
  BY <1>2 DEF Past
<1>11. rxPacketBuf # NoBuffer => HeldNum' = HeldNum
  BY <1>1, <1>2 DEF IInv, TypeOK, PoolConservation, HeldByMain, HeldNum
<1>12. QueueInOrder'
  <2>1. \A j \in Places' : Past(NumAt(j))'
    BY <1>2, <1>6, <1>8, <1>9, NumbersAreNat DEF Numbered, QueueInOrder, Past
  <2>2. \A j, k \in Places' : j < k => NumAt(j)' < NumAt(k)'
    <3> SUFFICES ASSUME NEW j \in Places', NEW k \in Places', j < k PROVE NumAt(j)' < NumAt(k)'
      OBVIOUS
    <3>1. j \in Places
      BY <1>3, <1>7, <1>9
    <3>2. CASE k \in Places
      BY <3>1, <3>2, <1>6 DEF Numbered, QueueInOrder
    <3>3. CASE k = new
      BY <3>1, <3>3, <1>6, <1>8, <1>10, NumbersAreNat DEF Numbered, QueueInOrder
    <3> QED BY <3>2, <3>3, <1>9
  <2> QED BY <2>1, <2>2 DEF QueueInOrder
<1>13. HeldIsOlder'
  <2>1. rxPacketBuf # NoBuffer => Past(HeldNum)'
    BY <1>2, <1>10, <1>11, NumbersAreNat DEF Numbered, HeldIsOlder, Past
  <2>2. rxPacketBuf # NoBuffer => \A j \in Places' : HeldNum' < NumAt(j)'
    BY <1>6, <1>8, <1>9, <1>10, <1>11, NumbersAreNat DEF Numbered, HeldIsOlder
  <2> QED BY <1>2, <2>1, <2>2 DEF HeldIsOlder
<1>14. ToldIsOlder'
  <2> SUFFICES ASSUME NEW i \in Iids, NEW k \in DOMAIN done[i]
               PROVE  /\ Past(Told(i, k))' /\ \A j \in Places' : Told(i, k)' < NumAt(j)'
                      /\ rxPacketBuf # NoBuffer => Told(i, k)' <= HeldNum'
    BY <1>2 DEF ToldIsOlder
  <2>1. Told(i, k)' = Told(i, k) /\ Told(i, k) \in Nat
    BY <1>2, NumbersAreNat DEF Told
  <2>2. Past(Told(i, k)) /\ \A j \in Places : Told(i, k) < NumAt(j)
    BY DEF Numbered, ToldIsOlder
  <2>3. Past(Told(i, k))'
    BY <2>1, <2>2, <1>2 DEF Past
  <2>4. \A j \in Places' : Told(i, k)' < NumAt(j)'
    BY <2>1, <2>2, <1>6, <1>8, <1>9, <1>10
  <2>5. rxPacketBuf # NoBuffer => Told(i, k)' <= HeldNum'
    BY <2>1, <1>11 DEF Numbered, ToldIsOlder
  <2> QED BY <2>3, <2>4, <2>5
<1>15. ToldInOrder' /\ AirIsNewest'
  BY <1>2 DEF Numbered, ToldInOrder, Told, AirIsNewest
<1> QED BY <1>12, <1>13, <1>14, <1>15 DEF Numbered

\* The head of the queue is the oldest of it.
LEMMA PrepareKeepsOrder == ASSUME IInv, Numbered, PrepareNext PROVE Numbered'
<1>1. /\ sRxPacketQueue \in Seq(Buffers) /\ sRxPacketQueue # <<>>
      /\ sRxPacketQueue' = Tail(sRxPacketQueue) /\ rxPacketBuf' = Head(sRxPacketQueue)
      /\ UNCHANGED <<arrived, air, mem, done>>
  BY DEF PrepareNext, IInv, TypeOK
<1>2. /\ Len(sRxPacketQueue) \in Nat \ {0} /\ Places = 1..Len(sRxPacketQueue)
      /\ Places' = 1..(Len(sRxPacketQueue) - 1)
      /\ \A j \in Places' : sRxPacketQueue'[j] = sRxPacketQueue[j + 1]
      /\ rxPacketBuf' = sRxPacketQueue[1]
  BY <1>1 DEF Places
<1>3. /\ 1 \in Places /\ HeldNum' = NumAt(1)
      /\ \A j \in Places' : j + 1 \in Places /\ 1 < j + 1 /\ NumAt(j)' = NumAt(j + 1)
  BY <1>1, <1>2 DEF HeldNum, NumAt
<1>4. \A n : Past(n)' <=> Past(n)
  BY <1>1 DEF Past
<1>5. QueueInOrder'
  <2>1. \A j, k \in Places' : j < k => j + 1 < k + 1
    BY <1>2
  <2>2. \A j, k \in Places' : j < k => NumAt(j)' < NumAt(k)'
    BY <1>3, <2>1 DEF Numbered, QueueInOrder
  <2>3. \A j \in Places' : Past(NumAt(j))'
    BY <1>1, <1>3 DEF Numbered, QueueInOrder, Past
  <2> QED BY <2>2, <2>3 DEF QueueInOrder
<1>6. HeldIsOlder'
  BY <1>1, <1>3 DEF Numbered, QueueInOrder, HeldIsOlder, Past
<1>7. ToldIsOlder'
  <2> SUFFICES ASSUME NEW i \in Iids, NEW k \in DOMAIN done[i]
               PROVE  /\ Past(Told(i, k))' /\ \A j \in Places' : Told(i, k)' < NumAt(j)'
                      /\ Told(i, k)' <= HeldNum'
    BY <1>1 DEF ToldIsOlder
  <2>1. Told(i, k)' = Told(i, k) /\ Past(Told(i, k)) /\ \A j \in Places : Told(i, k) < NumAt(j)
    BY <1>1 DEF Numbered, ToldIsOlder, Told
  <2> QED BY <1>1, <1>3, <2>1, NumbersAreNat DEF Past
<1>8. ToldInOrder' /\ AirIsNewest'
  BY <1>1 DEF Numbered, ToldInOrder, Told, AirIsNewest
<1> QED BY <1>5, <1>6, <1>7, <1>8 DEF Numbered

\* What a call of otPlatRadioReceiveDone adds to the history.
LEMMA OneMoreReport ==
    ASSUME IInv, pc \in {"first", "second"}, ReceiveDone
    PROVE  /\ \A i \in Iids : i # interfaceId => done'[i] = done[i]
           /\ done[interfaceId] \in Seq(Report)
           /\ DOMAIN done[interfaceId] = 1..Len(done[interfaceId])
           /\ DOMAIN done'[interfaceId] = 1..(Len(done[interfaceId]) + 1)
           /\ \A k \in DOMAIN done[interfaceId] : done'[interfaceId][k] = done[interfaceId][k]
           /\ done'[interfaceId][Len(done[interfaceId]) + 1].num = HeldNum
<1>1. interfaceId \in Iids /\ done[interfaceId] \in Seq(Report) /\ done \in [Iids -> Seq(Report)]
  BY DEF IInv, TypeOK, Holding
<1>2. PICK r : /\ r.num = HeldNum
               /\ done' = [done EXCEPT ![interfaceId] = Append(@, r)]
  BY DEF ReceiveDone, HeldNum
<1> QED BY <1>1, <1>2

LEMMA DeliverKeepsOrder ==
    ASSUME IInv, Numbered, SkipInterface \/ FirstReceiveDone \/ SecondReceiveDone
    PROVE  Numbered'
<1>1. /\ pc \in {"first", "second"}
      /\ UNCHANGED <<arrived, air, mem, sRxPacketQueue, rxPacketBuf>>
      /\ done' = done \/ ReceiveDone
  BY DEF SkipInterface, FirstReceiveDone, SecondReceiveDone, rxVars
<1>2. rxPacketBuf # NoBuffer /\ interfaceId \in Iids
  BY <1>1 DEF IInv, Holding
<1>3. CASE done' = done
  BY <1>1, <1>3, FrameOfOrder DEF Numbered, AirIsNewest, Past
<1>4. CASE ReceiveDone
  <2>1. ASSUME NEW i \in Iids, NEW k \in DOMAIN done'[i]
        PROVE  \/ k \in DOMAIN done[i] /\ Told(i, k)' = Told(i, k)
               \/ /\ i = interfaceId /\ k = Len(done[i]) + 1 /\ Told(i, k)' = HeldNum
    BY <1>1, <1>4, <2>1, OneMoreReport DEF Told
  <2>2. /\ HeldNum' = HeldNum /\ Past(HeldNum) /\ HeldNum \in Nat
        /\ \A j \in Places : HeldNum < NumAt(j)
    BY <1>1, <1>2, NumbersAreNat DEF Numbered, HeldIsOlder, HeldNum
  <2>3. ToldIsOlder'
    <3> SUFFICES ASSUME NEW i \in Iids, NEW k \in DOMAIN done'[i]
                 PROVE  /\ Past(Told(i, k))' /\ \A j \in Places : Told(i, k)' < NumAt(j)
                        /\ Told(i, k)' <= HeldNum
      BY <1>1, <2>2 DEF ToldIsOlder, Places, NumAt
    <3>1. CASE k \in DOMAIN done[i] /\ Told(i, k)' = Told(i, k)
      BY <1>1, <1>2, <3>1 DEF Numbered, ToldIsOlder, Past
    <3>2. CASE Told(i, k)' = HeldNum
      BY <1>1, <2>2, <3>2 DEF Past
    <3> QED BY <2>1, <3>1, <3>2
  <2>4. ToldInOrder'
    <3> SUFFICES ASSUME NEW i \in Iids, NEW j \in DOMAIN done'[i], NEW k \in DOMAIN done'[i], j <= k
                 PROVE  Told(i, j)' <= Told(i, k)'
      BY DEF ToldInOrder
    <3>1. CASE k \in DOMAIN done[i] /\ Told(i, k)' = Told(i, k)
      <4>1. j \in DOMAIN done[i] /\ Told(i, j)' = Told(i, j)
        <5>1. done[i] \in Seq(Report)
          BY DEF IInv, TypeOK
        <5>2. ~(j = Len(done[i]) + 1)
          BY <3>1, <5>1
        <5> QED BY <2>1, <5>2
      <4> QED BY <3>1, <4>1 DEF Numbered, ToldInOrder
    <3>2. CASE i = interfaceId /\ Told(i, k)' = HeldNum
      <4>1. Told(i, j)' = HeldNum \/ (j \in DOMAIN done[i] /\ Told(i, j)' = Told(i, j))
        BY <2>1
      <4> QED BY <1>2, <2>2, <3>2, <4>1 DEF Numbered, ToldIsOlder
    <3> QED BY <2>1, <3>1, <3>2
  <2>5. AirIsNewest' /\ QueueInOrder' /\ HeldIsOlder'
    BY <1>1 DEF Numbered, AirIsNewest, QueueInOrder, HeldIsOlder, Places, NumAt, HeldNum, Past
  <2> QED BY <2>3, <2>4, <2>5 DEF Numbered
<1> QED BY <1>1, <1>3, <1>4

LEMMA NumberedAtInit == Init => Numbered
<1> SUFFICES ASSUME Init PROVE Numbered
  OBVIOUS
<1>1. Places = {} /\ \A i \in Iids : DOMAIN done[i] = {}
  BY DEF Init, Places
<1> QED BY <1>1 DEF Init, Numbered, AirIsNewest, QueueInOrder, HeldIsOlder, ToldIsOlder, ToldInOrder

LEMMA NumberedAtStep == IInv /\ Numbered /\ [Next]_vars => Numbered'
<1> SUFFICES ASSUME IInv, Numbered, [Next]_vars PROVE Numbered'
  OBVIOUS
<1>1. CASE UNCHANGED vars
  BY <1>1, FrameOfOrder DEF vars, rxVars, keyVars, mainVars, Numbered, AirIsNewest, Past
<1>2. CASE StartFrame \/ WriteEnhancedAck \/ DropFrame
  BY <1>2, AirKeepsOrder
<1>3. CASE QueueFrame
  BY <1>3, QueueKeepsOrder
<1>4. CASE PrepareNext
  BY <1>4, PrepareKeepsOrder
<1>5. CASE SkipInterface \/ FirstReceiveDone \/ SecondReceiveDone
  BY <1>5, DeliverKeepsOrder
<1>6. CASE FreeBlock
  BY <1>6, FrameOfOrder DEF FreeBlock, Numbered, AirIsNewest, Past
<1> QED
  BY <1>1, <1>2, <1>3, <1>4, <1>5, <1>6 DEF Next, Interrupt, Main

\* The numbers fall along the way of a frame.
THEOREM OrderInvariance == Spec => [](IInv /\ Numbered)
<1>1. Init => IInv /\ Numbered
  BY InitIInv, NumberedAtInit
<1>2. IInv /\ Numbered /\ [Next]_vars => (IInv /\ Numbered)'
  BY StepIInv, NumberedAtStep
<1> QED BY <1>1, <1>2, PTL DEF Spec

\* The stack hears of frames in the order they came from the air, for any
\* number of blocks and of frames: a block used again never brings an older
\* frame behind a newer one.
THEOREM FramesInOrder == Spec => []ArrivalOrder
<1>1. IInv /\ Numbered => ArrivalOrder
  BY DEF Numbered, ToldInOrder, Told, QueueInOrder, Places, NumAt, ArrivalOrder, OrderOf
<1> QED BY <1>1, OrderInvariance, PTL

-----------------------------------------------------------------------------
(* Recipients.                                                             *)

\* Whether the loop over the interfaces is past this one.
PastInterface(i) == pc = "free" \/ i < interfaceId \/ (pc = "second" /\ i = interfaceId)

\* A frame for one interface keeps the loop there; behind the interfaces that
\* were passed no recipient is left out, and nobody else has heard of it.
Handing ==
    rxPacketBuf # NoBuffer =>
       LET f == mem[rxPacketBuf] IN
       /\ sReceive.iid = f.iid
       /\ pc \in {"first", "second"} => (MultiPan /\ f.iid = BcastIid) \/ interfaceId = f.iid
       /\ pc = "second" => interfaceId \in Initialized
       /\ \A i \in Iids : Got(i, f.num) => i \in Recipients(f)
       /\ \A i \in Recipients(f) : PastInterface(i) => Got(i, f.num)

\* The frame in hand, and who has heard of it, while no block is exchanged.
LEMMA FrameOfHanding ==
    ASSUME IInv, Handing, UNCHANGED mainVars,
           rxPacketBuf # NoBuffer => mem'[rxPacketBuf] = mem[rxPacketBuf]
    PROVE  Handing'
BY DEF mainVars, Handing, Got, PastInterface, Recipients

\* Nobody has heard of the frame that is taken from the queue.
LEMMA PrepareHands == ASSUME IInv, Numbered, PrepareNext PROVE Handing'
<1> DEFINE b == Head(sRxPacketQueue)
           f == mem[b]
<1>1. /\ sRxPacketQueue \in Seq(Buffers) /\ sRxPacketQueue # <<>>
      /\ rxPacketBuf' = b /\ interfaceId' = f.iid /\ sReceive'.iid = f.iid
      /\ pc' = "first" /\ UNCHANGED <<mem, done>>
  BY DEF PrepareNext, IInv, TypeOK
<1>2. 1 \in Places /\ f.num = NumAt(1) /\ f \in Frame
  <2>1. 1 \in Places /\ b = sRxPacketQueue[1]
    BY <1>1 DEF Places
  <2> QED BY <2>1 DEF NumAt, IInv, Holding, QueuedBlocks, Places
<1>3. \A i \in Iids : ~Got(i, f.num)
  <2> SUFFICES ASSUME NEW i \in Iids, NEW k \in DOMAIN done[i], done[i][k].num = f.num PROVE FALSE
    BY DEF Got
  <2>1. Told(i, k) < NumAt(1)
    BY <1>2 DEF Numbered, ToldIsOlder
  <2> QED BY <1>2, <2>1, NumbersAreNat DEF Told
<1>4. \A i \in Recipients(f) : ~(i < f.iid)
  BY <1>2, RadioRxAssumption DEF Recipients, Frame
<1>5. /\ \A i \in Iids, n \in Nat : Got(i, n)' <=> Got(i, n)
      /\ f.num \in Nat
      /\ rxPacketBuf' # NoBuffer => mem'[rxPacketBuf'] = f
  BY <1>1, <1>2, NumbersAreNat DEF Got
<1> HIDE DEF f
<1> QED BY <1>1, <1>3, <1>4, <1>5 DEF Handing, PastInterface, Recipients, Got, f

\* Who has heard of the frame in hand after one more call.
LEMMA ReceiveDoneTells ==
    ASSUME IInv, pc \in {"first", "second"}, ReceiveDone, mem' = mem, rxPacketBuf' = rxPacketBuf
    PROVE  \A i \in Iids : Got(i, HeldNum)' <=> Got(i, HeldNum) \/ i = interfaceId
<1> SUFFICES ASSUME NEW i \in Iids PROVE Got(i, HeldNum)' <=> Got(i, HeldNum) \/ i = interfaceId
  OBVIOUS
<1>1. HeldNum' = HeldNum
  BY DEF HeldNum
<1>2. CASE i # interfaceId
  BY <1>1, <1>2, OneMoreReport DEF Got
<1>3. CASE i = interfaceId
  <2>1. Len(done[i]) + 1 \in DOMAIN done'[i]
    BY <1>3, OneMoreReport
  <2> QED BY <1>1, <1>3, <2>1, OneMoreReport DEF Got
<1> QED BY <1>2, <1>3

LEMMA DeliverHands ==
    ASSUME IInv, Handing, SkipInterface \/ FirstReceiveDone \/ SecondReceiveDone
    PROVE  Handing'
<1> DEFINE f == mem[rxPacketBuf]
<1>1. /\ rxPacketBuf # NoBuffer /\ interfaceId \in Iids /\ f \in Frame
      /\ pc \in {"first", "second"}
  BY DEF SkipInterface, FirstReceiveDone, SecondReceiveDone, IInv, Holding, HeldByMain
<1>2. UNCHANGED <<mem, rxPacketBuf, sReceive>>
  BY DEF SkipInterface, FirstReceiveDone, SecondReceiveDone, rxVars
<1>3. /\ sReceive.iid = f.iid
      /\ (MultiPan /\ f.iid = BcastIid) \/ interfaceId = f.iid
      /\ pc = "second" => interfaceId \in Initialized
      /\ \A i \in Iids : Got(i, HeldNum) => i \in Recipients(f)
      /\ \A i \in Recipients(f) : PastInterface(i) => Got(i, HeldNum)
  BY <1>1 DEF Handing, HeldNum
<1>4. Recipients(f) \subseteq Iids /\ Recipients(f) \subseteq Initialized
      /\ (interfaceId \in Initialized => interfaceId \in Recipients(f))
  BY <1>3, RadioRxAssumption DEF Recipients
<1>5. ASSUME NextInterface
      PROVE  /\ \A i \in Recipients(f) : PastInterface(i)' => i = interfaceId \/ i < interfaceId
             /\ pc' \in {"first", "free"}
             /\ pc' = "first" => MultiPan /\ f.iid = BcastIid
  <2>1. interfaceId' = interfaceId + 1 /\ pc' = IF MoreInterfaces THEN "first" ELSE "free"
    BY <1>5 DEF NextInterface, FollowingInterface
  <2>2. CASE MoreInterfaces
    BY <1>1, <1>3, <1>4, <2>1, <2>2, RadioRxAssumption DEF MoreInterfaces, PastInterface
  <2>3. CASE ~MoreInterfaces
    <3>1. sReceive.iid # BcastIid \/ interfaceId = MaxIid
      BY <1>1, <2>3, RadioRxAssumption DEF MoreInterfaces
    <3>2. \A i \in Recipients(f) : i = interfaceId \/ i < interfaceId
      BY <1>1, <1>3, <1>4, <3>1, RadioRxAssumption DEF Recipients
    <3> QED BY <2>1, <2>3, <3>2
  <2> QED BY <2>2, <2>3
<1>6. \A i \in Recipients(f) : i < interfaceId => Got(i, HeldNum)
  BY <1>3 DEF PastInterface
<1>7. CASE SkipInterface
  <2>1. NextInterface /\ interfaceId \notin Initialized /\ done' = done
    BY <1>7 DEF SkipInterface, HasInstance
  <2>2. \A i \in Iids : Got(i, HeldNum)' <=> Got(i, HeldNum)
    BY <1>2, <2>1 DEF Got, HeldNum
  <2>3. \A i \in Recipients(f) : PastInterface(i)' => Got(i, HeldNum)'
    BY <1>4, <1>5, <1>6, <2>1, <2>2
  <2> QED BY <1>2, <1>3, <1>5, <2>1, <2>2, <2>3 DEF Handing, HeldNum, Recipients
<1>8. CASE /\ ReceiveDone /\ interfaceId \in Initialized
           /\ NextInterface \/ (pc' = "second" /\ interfaceId' = interfaceId)
  <2>1. \A i \in Iids : Got(i, HeldNum)' <=> Got(i, HeldNum) \/ i = interfaceId
    BY <1>1, <1>2, <1>8, ReceiveDoneTells
  <2>2. \A i \in Recipients(f) : PastInterface(i)' => i = interfaceId \/ i < interfaceId
    <3>1. CASE NextInterface
      BY <3>1, <1>5
    <3>2. CASE pc' = "second" /\ interfaceId' = interfaceId
      BY <3>2 DEF PastInterface
    <3> QED BY <1>8, <3>1, <3>2
  <2>3. \A i \in Recipients(f) : PastInterface(i)' => Got(i, HeldNum)'
    BY <1>4, <1>6, <2>1, <2>2
  <2>4. \A i \in Iids : Got(i, HeldNum)' => i \in Recipients(f)
    BY <1>3, <1>4, <1>8, <2>1
  <2>5. /\ pc' \in {"first", "second"} => (MultiPan /\ f.iid = BcastIid) \/ interfaceId' = f.iid
        /\ pc' = "second" => interfaceId' \in Initialized
    BY <1>3, <1>5, <1>8
  <2> QED BY <1>2, <1>3, <2>3, <2>4, <2>5 DEF Handing, HeldNum, Recipients
<1>9. CASE SecondReceiveDone /\ ~MultiPan /\ pc' = "free" /\ UNCHANGED <<interfaceId, done>>
  <2>1. \A i \in Recipients(f) : Got(i, HeldNum)
    BY <1>1, <1>3, <1>9 DEF SecondReceiveDone, PastInterface, Recipients
  <2>2. \A i \in Iids : Got(i, HeldNum)' <=> Got(i, HeldNum)
    BY <1>2, <1>9 DEF Got, HeldNum
  <2> QED BY <1>2, <1>3, <1>4, <1>9, <2>1, <2>2 DEF Handing, HeldNum, Recipients
<1>10. FirstReceiveDone => /\ ReceiveDone /\ interfaceId \in Initialized
                           /\ pc' = "second" /\ interfaceId' = interfaceId
  BY DEF FirstReceiveDone, HasInstance
<1>11. SecondReceiveDone => \/ ~MultiPan /\ pc' = "free" /\ UNCHANGED <<interfaceId, done>>
                            \/ ReceiveDone /\ NextInterface /\ interfaceId \in Initialized
  BY <1>3 DEF SecondReceiveDone, AfterGp
<1> QED BY <1>7, <1>8, <1>9, <1>10, <1>11

LEMMA HandingAtStep == IInv /\ Numbered /\ Handing /\ [Next]_vars => Handing'
<1> SUFFICES ASSUME IInv, Numbered, Handing, [Next]_vars PROVE Handing'
  OBVIOUS
<1>1. CASE UNCHANGED vars \/ StartFrame \/ WriteEnhancedAck \/ DropFrame
  BY <1>1, FrameOfHanding DEF vars, rxVars, mainVars, StartFrame, WriteEnhancedAck, DropFrame
<1>2. CASE QueueFrame
  <2>1. PICK b \in free : mem' = [mem EXCEPT ![b] = air]
    BY <1>2 DEF QueueFrame, FreeBlocks
  <2>2. rxPacketBuf # NoBuffer => rxPacketBuf # b /\ rxPacketBuf \in Buffers
    BY DEF IInv, TypeOK, PoolConservation, HeldByMain
  <2> QED BY <1>2, <2>1, <2>2, FrameOfHanding DEF QueueFrame, IInv, TypeOK
<1>3. CASE PrepareNext
  BY <1>3, PrepareHands
<1>4. CASE SkipInterface \/ FirstReceiveDone \/ SecondReceiveDone
  BY <1>4, DeliverHands
<1>5. CASE FreeBlock
  BY <1>5 DEF FreeBlock, Handing
<1> QED
  BY <1>1, <1>2, <1>3, <1>4, <1>5 DEF Next, Interrupt, Main

\* A frame for one interface is never handed to another one, and the block of a
\* broadcast frame is not given back before every initialized instance has seen
\* the frame, for any number of interfaces.
THEOREM RecipientsRight == Spec => []RightRecipients
<1>1. Init => Handing
  BY DEF Init, Handing
<1>2. Spec => []Handing
  BY <1>1, HandingAtStep, OrderInvariance, PTL DEF Spec
<1>3. Handing => RightRecipients
  BY DEF Handing, RightRecipients, PastInterface
<1> QED BY <1>2, <1>3, PTL
=============================================================================
