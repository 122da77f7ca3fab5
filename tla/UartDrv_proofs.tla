--------------------------- MODULE UartDrv_proofs ---------------------------
(***************************************************************************)
(* For every size of the buffers: the variables keep their types, neither  *)
(* copy of uartdrv_uart.c writes behind the end of mBuffer, and the stack  *)
(* gets the bytes of the wire in order.  The code checks none of this: it  *)
(* follows from mTail being lastCount, or 0 when a whole buffer was        *)
(* fetched before its receiveDone, and from mHead staying at the place of  *)
(* the next byte while the main loop is in time.                           *)
(***************************************************************************)
EXTENDS UartDrv, SequenceTheorems, TLAPS

InStep == IF lastCount = N THEN mTail = 0 ELSE mTail = lastCount
IInv   == TypeOK /\ InStep

LEMMA SmallMod ==
    ASSUME NEW n \in Nat, NEW a \in Nat, n > 0, a < n PROVE a % n = a
OBVIOUS

\* What a copy of the bytes up to count does to mTail.
LEMMA TailFollowsCount ==
    ASSUME TypeOK, InStep, count >= lastCount
    PROVE  TailAfter = IF count = N THEN 0 ELSE count
<1> USE UartAssumption DEF TypeOK, InStep
<1>1. CASE lastCount = N
  <2>1. mTail + count - lastCount = 0 BY <1>1
  <2>2. 0 % N = 0 OBVIOUS
  <2> QED BY <1>1, <2>1, <2>2 DEF TailAfter
<1>2. CASE lastCount # N
  <2>1. mTail + count - lastCount = count BY <1>2
  <2>2. N % N = 0 OBVIOUS
  <2>3. ASSUME count # N PROVE count % N = count
    <3>1. count \in Nat /\ N \in Nat /\ N > 0 /\ count < N
      BY <2>3
    <3> QED BY <3>1, SmallMod
  <2> QED BY <2>1, <2>2, <2>3 DEF TailAfter
<1> QED BY <1>1, <1>2

\* Both copies leave a buffer of integers.
LEMMA CopiedType ==
    ASSUME TypeOK
    PROVE  Copied \in [0..(N - 1) -> Int]
BY UartAssumption DEF TypeOK, Copied, Dma

\* What is handed over is a sequence of integers.
LEMMA HandOverType ==
    ASSUME TypeOK, NEW lo \in 0..(N - 1), NEW hi \in 0..N
    PROVE  received \o [k \in 1..(hi - lo) |-> mBuffer[lo + k - 1]] \in Seq(Int)
<1> DEFINE part == [k \in 1..(hi - lo) |-> mBuffer[lo + k - 1]]
<1>1. CASE hi >= lo
  <2>1. hi - lo \in Nat BY <1>1, UartAssumption
  <2>2. \A k \in 1..(hi - lo) : mBuffer[lo + k - 1] \in Int
    BY UartAssumption DEF TypeOK
  <2>3. part \in [1..(hi - lo) -> Int] BY <2>2
  <2>4. part \in Seq(Int) BY <2>1, <2>3
  <2> QED BY <2>4 DEF TypeOK
<1>2. CASE hi < lo
  <2>1. part = <<>>
    <3>1. 1..(hi - lo) = {} BY <1>2, UartAssumption
    <3> QED BY <3>1
  <2>2. part \in Seq(Int) BY <2>1
  <2> QED BY <2>2 DEF TypeOK
<1>3. hi >= lo \/ hi < lo
  BY UartAssumption
<1> QED BY <1>1, <1>2, <1>3

LEMMA InitIInv == Init => IInv
<1> SUFFICES ASSUME Init PROVE IInv
  OBVIOUS
<1> USE UartAssumption DEF Init
<1>1. received \in Seq(Int)
  <2>1. <<>> \in Seq(Int) OBVIOUS
  <2> QED BY <2>1
<1>2. mBuffer \in [0..(N - 1) -> Int]
  OBVIOUS
<1>3. /\ 0 \in 0..(N - 1) /\ 0 \in 0..N
  OBVIOUS
<1> QED BY <1>1, <1>2, <1>3 DEF IInv, TypeOK, InStep, Places

LEMMA NextIInv == IInv /\ [Next]_vars => IInv'
<1> SUFFICES ASSUME IInv, [Next]_vars PROVE IInv'
  OBVIOUS
<1> USE UartAssumption
<1> USE DEF IInv
<1>1. CASE ByteArrives
  BY <1>1 DEF ByteArrives, TypeOK, InStep, fifoVars, passVars, txVars
<1>2. CASE UART_IRQHandler
  BY <1>2 DEF UART_IRQHandler, TypeOK, InStep, wireVars, fifoVars, passVars, txVars
<1>3. CASE receiveDone
  <2>1. TailAfter = 0
    BY <1>3, TailFollowsCount DEF receiveDone, TypeOK
  <2>2. /\ mBuffer' \in [0..(N - 1) -> Int]
        /\ mTail' \in 0..(N - 1)
        /\ lastCount' \in 0..N
        /\ InStep'
    BY <1>3, <2>1, CopiedType DEF receiveDone, TypeOK, InStep, Reset
  <2> QED BY <1>3, <2>2 DEF receiveDone, TypeOK, passVars, txVars
<1>4. CASE Fetch
  <2>1. CASE count > lastCount
    <3>1. TailAfter = IF count = N THEN 0 ELSE count
      BY <2>1, TailFollowsCount DEF TypeOK
    <3>2. /\ mBuffer' \in [0..(N - 1) -> Int]
          /\ mTail' \in 0..(N - 1)
          /\ lastCount' \in 0..N
          /\ InStep'
      BY <1>4, <2>1, <3>1, CopiedType DEF Fetch, TypeOK, InStep, Counted
    <3> QED BY <1>4, <3>2 DEF Fetch, TypeOK, Places, txVars
  <2>2. CASE ~(count > lastCount)
    BY <1>4, <2>2 DEF Fetch, TypeOK, InStep, Places, txVars
  <2> QED BY <2>1, <2>2
<1>5. CASE TakeTail
  BY <1>5 DEF TakeTail, TypeOK, InStep, Places, wireVars, fifoVars, txVars
<1>6. CASE FirstPart
  <2>1. /\ mHead \in 0..(N - 1) /\ N \in 0..N
        /\ received' = received \o [k \in 1..(N - mHead) |-> mBuffer[mHead + k - 1]]
    BY <1>6 DEF FirstPart, HandOver, TypeOK
  <2>2. received' \in Seq(Int)
    BY <2>1, HandOverType DEF HandOver
  <2> QED BY <1>6, <2>2 DEF FirstPart, TypeOK, InStep, Places, wireVars, fifoVars, txVars
<1>7. CASE ResetHead
  BY <1>7 DEF ResetHead, TypeOK, InStep, Places, wireVars, txVars
<1>8. CASE SecondPart
  <2>1. mHead \in 0..(N - 1) /\ tail \in 0..N
    BY DEF TypeOK
  <2>2. received' \in Seq(Int)
    <3>1. CASE mHead # tail
      BY <1>8, <2>1, <3>1, HandOverType DEF SecondPart, HandOver
    <3>2. CASE mHead = tail
      BY <1>8, <3>2 DEF SecondPart, TypeOK
    <3> QED BY <3>1, <3>2
  <2> QED BY <1>8, <2>2 DEF SecondPart, TypeOK, InStep, Places, fifoVars, txVars
<1>9. CASE AdvanceHead
  BY <1>9 DEF AdvanceHead, TypeOK, InStep, Places, txVars
<1>10. CASE otPlatUartSend
  BY <1>10 DEF otPlatUartSend, TypeOK, InStep, wireVars, fifoVars, passVars
<1>11. CASE transmitDone
  BY <1>11 DEF transmitDone, TypeOK, InStep, wireVars, fifoVars, passVars
<1>12. CASE processTransmit
  BY <1>12 DEF processTransmit, TypeOK, InStep, wireVars, fifoVars, passVars
<1>13. CASE FlushBegin
  BY <1>13 DEF FlushBegin, TypeOK, InStep, Places, wireVars, fifoVars, txVars
<1>14. CASE FlushEnd
  BY <1>14 DEF FlushEnd, TypeOK, InStep, Places, wireVars, fifoVars
<1>15. CASE UNCHANGED vars
  BY <1>15 DEF vars, TypeOK, InStep, wireVars, fifoVars, passVars, txVars
<1> QED
  BY <1>1, <1>2, <1>3, <1>4, <1>5, <1>6, <1>7, <1>8, <1>9, <1>10, <1>11, <1>12,
     <1>13, <1>14, <1>15 DEF Next, Interrupts, Main, processReceive

\* The variables keep their types and mTail follows lastCount through every
\* interleaving of receiveDone with processReceive.
THEOREM InStepHolds == Spec => []IInv
<1>1. Init => IInv BY InitIInv
<1>2. IInv /\ [Next]_vars => IInv' BY NextIInv
<1> QED BY <1>1, <1>2, PTL DEF Spec

\* Types, for every size of the buffers.
THEOREM Typed == Spec => []TypeOK
<1>1. IInv => TypeOK BY DEF IInv
<1> QED BY <1>1, InStepHolds, PTL

\* Neither memcpy of uartdrv_uart.c leaves mBuffer, for every size of it.
THEOREM NoOverrun == Spec => []CopyStaysInside
<1>1. IInv => CopyStaysInside
  BY UartAssumption DEF IInv, TypeOK, InStep, CopyStaysInside
<1> QED BY <1>1, InStepHolds, PTL

-----------------------------------------------------------------------------
(* The order of the bytes.  A byte n of the wire has one place in the ring, *)
(* which only the buffers DMA has filled before it determine.               *)

Base   == arrived - count      \* the bytes of the buffers that are complete
InRing == Base + lastCount     \* the bytes that were copied into the ring
D      == Len(received)

\* The bytes the stack was given, up to those that mHead has not left behind.
Given == IF at = "advance" THEN D - (tail - mHead) ELSE D

\* Where byte n is in the ring: the active buffer starts at 0, the bytes
\* of the one before end at N - 1.
Place(n) == n - Base - 1 + (IF n > Base THEN 0 ELSE N)

\* How far the wire, the ring and the stack are apart.  A whole buffer is
\* only between its fetch and the receiveDone it held back.
Window ==
    /\ since < N /\ fresh <= since /\ since <= arrived
    /\ lastCount <= count
    /\ lastCount = N => at = "look" /\ Given < InRing
    /\ Given >= arrived - since /\ Given <= InRing
    /\ InRing >= arrived - fresh

\* mHead is the place of the next byte, and the pass ends with what its
\* fetch found.
HeadAtNext ==
    /\ at # "reset" => mHead = Place(Given + 1)
    /\ at = "reset" => Given = Base
    /\ at = "first" => Given < Base
    /\ at \in {"first", "reset"} =>
          Base + tail <= InRing /\ Base + tail >= arrived - fresh
    /\ at = "second" =>
          /\ mHead <= tail
          /\ Given + (tail - mHead) <= InRing
          /\ Given + (tail - mHead) >= arrived - fresh
    /\ at = "advance" => mHead < tail /\ D <= InRing /\ D >= arrived - fresh

\* Every byte that was copied and not handed over is still in its place.
Unread  == \A n \in (Given + 1)..InRing : mBuffer[Place(n)] = n
InOrder == \A k \in 1..D : received[k] = k

Order == ~late => Window /\ HeadAtNext /\ Unread /\ InOrder

\* What a copy of the bytes up to count leaves in the ring.
LEMMA CopiedContents ==
    ASSUME TypeOK, InStep, lastCount <= count, NEW i \in 0..(N - 1)
    PROVE  Copied[i] = IF lastCount # N /\ i >= lastCount /\ i < count
                       THEN Base + 1 + i ELSE mBuffer[i]
<1>1. i \in mTail..(mTail + count - lastCount - 1)
        <=> lastCount # N /\ i >= lastCount /\ i < count
  BY UartAssumption DEF TypeOK, InStep
<1>2. lastCount # N => Dma(lastCount + i - mTail) = Base + 1 + i
  BY UartAssumption DEF TypeOK, InStep, Dma, Base
<1> QED BY <1>1, <1>2 DEF Copied

LEMMA AsSequence ==
    ASSUME NEW n \in Nat, NEW p \in [1..n -> Int]
    PROVE  p \in Seq(Int) /\ Len(p) = n
OBVIOUS

\* What otPlatUartReceived of the ring from lo up to hi appends.
LEMMA HandedOver ==
    ASSUME TypeOK, NEW lo \in 0..(N - 1), NEW hi \in 0..N, lo <= hi,
           HandOver(lo, hi)
    PROVE  /\ Len(received') = Len(received) + (hi - lo)
           /\ \A k \in 1..Len(received) : received'[k] = received[k]
           /\ \A k \in (Len(received) + 1)..(Len(received) + (hi - lo)) :
                 received'[k] = mBuffer[lo + (k - Len(received)) - 1]
<1> DEFINE part == [k \in 1..(hi - lo) |-> mBuffer[lo + k - 1]]
<1>1. hi - lo \in Nat BY UartAssumption
<1>2. part \in [1..(hi - lo) -> Int]
  <2>1. \A k \in 1..(hi - lo) : lo + k - 1 \in 0..(N - 1)
    BY UartAssumption
  <2> QED BY <2>1 DEF TypeOK
<1>3. part \in Seq(Int) /\ Len(part) = hi - lo
  <2> HIDE DEF part
  <2> QED BY <1>1, <1>2, AsSequence
<1>4. received \in Seq(Int) /\ received' = received \o part
  BY DEF TypeOK, HandOver
<1> HIDE DEF part
<1>5. /\ Len(received') = Len(received) + Len(part)
      /\ \A k \in 1..(Len(received) + Len(part)) :
            received'[k] = IF k <= Len(received) THEN received[k]
                                                 ELSE part[k - Len(received)]
  BY <1>3, <1>4, ConcatProperties
<1>6. Len(received) \in Nat BY <1>4
<1>7. ASSUME NEW k \in (Len(received) + 1)..(Len(received) + (hi - lo))
      PROVE  received'[k] = mBuffer[lo + (k - Len(received)) - 1]
  <2>1. k - Len(received) \in 1..(hi - lo) /\ k > Len(received)
    BY <1>1, <1>6
  <2>2. received'[k] = part[k - Len(received)]
    BY <2>1, <1>1, <1>3, <1>5, <1>6
  <2> QED BY <2>1, <2>2 DEF part
<1>8. \A k \in 1..Len(received) : received'[k] = received[k]
  BY <1>1, <1>3, <1>5, <1>6
<1> QED BY <1>3, <1>5, <1>7, <1>8

LEMMA LengthIsNat == TypeOK => D \in Nat
BY DEF TypeOK, D

LEMMA InitOrder == Init => Order
<1> SUFFICES ASSUME Init PROVE Order
  OBVIOUS
<1>1. D = 0 BY DEF Init, D
<1>2. Base = 0 /\ InRing = 0 /\ Given = 0
  BY <1>1 DEF Init, Base, InRing, Given
<1>3. Window BY <1>1, <1>2, UartAssumption DEF Init, Window
<1>4. HeadAtNext
  BY <1>1, <1>2, UartAssumption DEF Init, HeadAtNext, Place
<1> QED BY <1>1, <1>2, <1>3, <1>4 DEF Order, Unread, InOrder

\* Steps that touch neither the wire nor the ring: the interrupt that only
\* sets the ready flag, and all of transmission.
LEMMA AsideKeepsOrder ==
    ASSUME IInv, Order, UNCHANGED <<wireVars, fifoVars, tail, received>>,
           at' = at \/ {at, at'} = {"idle", "flush"}
    PROVE  Order'
<1> SUFFICES ASSUME ~late PROVE (Window /\ HeadAtNext /\ Unread /\ InOrder)'
  BY DEF Order, wireVars
<1> USE DEF wireVars, fifoVars
<1>1. Window /\ HeadAtNext /\ Unread /\ InOrder BY DEF Order
<1>2. at' = at \/ (at \in {"idle", "flush"} /\ at' \in {"idle", "flush"})
  OBVIOUS
<1>3. D' = D /\ Base' = Base /\ InRing' = InRing
  BY DEF D, Base, InRing
<1>4. Given' = Given BY <1>2, <1>3 DEF Given
<1>5. \A n : Place(n)' = Place(n) BY <1>3 DEF Place
<1>6. Window'
  <2>1. lastCount = N => at' = "look" BY <1>1, <1>2 DEF Window
  <2> QED BY <1>1, <1>3, <1>4, <2>1 DEF Window
<1>7. HeadAtNext' BY <1>1, <1>2, <1>3, <1>4, <1>5 DEF HeadAtNext
<1>8. Unread' BY <1>1, <1>3, <1>4, <1>5 DEF Unread
<1>9. InOrder' BY <1>1, <1>3 DEF InOrder
<1> QED BY <1>6, <1>7, <1>8, <1>9

LEMMA ByteArrivesKeepsOrder ==
    ASSUME IInv, Order, ByteArrives PROVE Order'
<1>0. ~late' => ~late BY DEF ByteArrives
<1> SUFFICES ASSUME ~late' PROVE (Window /\ HeadAtNext /\ Unread /\ InOrder)'
  BY DEF Order
<1>1. Window /\ HeadAtNext /\ Unread /\ InOrder BY <1>0 DEF Order
<1>2. TypeOK /\ D \in Nat BY LengthIsNat DEF IInv
<1>3. /\ mHead' = mHead /\ lastCount' = lastCount /\ mBuffer' = mBuffer
      /\ tail' = tail /\ at' = at /\ received' = received
  BY DEF ByteArrives, fifoVars, passVars
<1>4. /\ count < N /\ since' = since + 1 /\ since' < N
      /\ arrived' = arrived + 1 /\ fresh' = fresh + 1 /\ count' = count + 1
      /\ arrived' - fresh' = arrived - fresh
  <2>1. ~(since' >= N) BY DEF ByteArrives
  <2>2. /\ count < N /\ since' = since + 1
        /\ arrived' = arrived + 1 /\ fresh' = fresh + 1 /\ count' = count + 1
    BY DEF ByteArrives
  <2> QED BY <1>2, <2>1, <2>2, UartAssumption DEF TypeOK
<1>5. D' = D /\ Base' = Base /\ InRing' = InRing
  BY <1>2, <1>3, <1>4 DEF D, Base, InRing, TypeOK
<1>6. Given' = Given BY <1>3, <1>5 DEF Given
<1>7. \A n : Place(n)' = Place(n) BY <1>5 DEF Place
<1>8. Base \in Int /\ InRing \in Int /\ Given \in Int
  BY <1>2 DEF Base, InRing, Given, TypeOK
<1>9. Window'
  BY <1>1, <1>2, <1>3, <1>4, <1>5, <1>6, <1>8, UartAssumption DEF Window, TypeOK
<1>10. HeadAtNext'
  BY <1>1, <1>3, <1>4, <1>5, <1>6, <1>7 DEF HeadAtNext
<1>11. Unread' BY <1>1, <1>3, <1>5, <1>6, <1>7 DEF Unread
<1>12. InOrder' BY <1>1, <1>3, <1>5 DEF InOrder
<1> QED BY <1>9, <1>10, <1>11, <1>12

LEMMA receiveDoneKeepsOrder ==
    ASSUME IInv, Order, receiveDone PROVE Order'
<1> SUFFICES ASSUME ~late PROVE (Window /\ HeadAtNext /\ Unread /\ InOrder)'
  BY DEF Order, receiveDone
<1>1. Window /\ HeadAtNext /\ Unread /\ InOrder BY DEF Order
<1>2. TypeOK /\ InStep /\ D \in Nat BY LengthIsNat DEF IInv
<1>3. N \in Nat /\ N > 1 BY UartAssumption
<1>4. Base \in Int /\ InRing \in Int /\ Given \in Int
  BY <1>2 DEF Base, InRing, Given, TypeOK
\* Fewer than N bytes came since the fetch of the last pass, so the stack has
\* all of the buffer before and mHead is not where the next one starts.
<1>5. count = N /\ Given > Base BY <1>1, <1>2, <1>3, <1>4 DEF Window, Base, TypeOK, receiveDone
<1>6. at \notin {"first", "reset"} BY <1>1, <1>4, <1>5 DEF HeadAtNext
<1>7. mHead = Given - Base
  BY <1>1, <1>4, <1>5, <1>6 DEF HeadAtNext, Place
<1>8. TailAfter = 0 BY <1>2, <1>5, TailFollowsCount DEF TypeOK
<1>9. MayWrite BY <1>4, <1>5, <1>7, <1>8 DEF MayWrite
<1>10. /\ mBuffer' = Copied /\ lastCount' = 0 /\ count' = 0
       /\ arrived' = arrived /\ fresh' = fresh /\ since' = since
       /\ mHead' = mHead /\ tail' = tail /\ at' = at /\ received' = received
  BY <1>9 DEF receiveDone, passVars, Reset
<1>11. D' = D BY <1>10 DEF D
<1>12. Given' = Given BY <1>10, <1>11 DEF Given
<1>13. Base' = Base + N /\ InRing' = Base + N
  BY <1>2, <1>5, <1>10 DEF Base, InRing, TypeOK
<1>14. InRing <= Base + N /\ Given < Base + N
  BY <1>2, <1>3, <1>4, <1>7 DEF InRing, TypeOK
<1>15. Window'
  BY <1>1, <1>2, <1>3, <1>4, <1>10, <1>12, <1>13, <1>14 DEF Window, TypeOK
<1>16. HeadAtNext'
  <2>1. Place(Given + 1)' = mHead
    BY <1>3, <1>4, <1>7, <1>12, <1>13, <1>14 DEF Place
  <2>2. mHead \in Int /\ tail \in Int /\ arrived \in Int /\ fresh \in Int
    BY <1>2, <1>3 DEF TypeOK
  <2> QED
    BY <1>1, <1>2, <1>3, <1>4, <1>6, <1>10, <1>11, <1>12, <1>13, <1>14, <2>1, <2>2
       DEF HeadAtNext
<1>17. Unread'
  <2> SUFFICES ASSUME NEW n \in (Given + 1)..(Base + N)
               PROVE  mBuffer'[Place(n)'] = n
    BY <1>12, <1>13 DEF Unread
  <2>1. n \in Int /\ n > Given BY <1>3, <1>4
  <2>2. Place(n)' = n - Base - 1 BY <1>3, <1>4, <1>13, <2>1 DEF Place
  <2>3. n - Base - 1 \in 0..(N - 1) BY <1>3, <1>4, <1>5, <2>1
  <2>4. lastCount <= count BY <1>1 DEF Window
  <2>5. Copied[n - Base - 1] =
          IF lastCount # N /\ n - Base - 1 >= lastCount /\ n - Base - 1 < count
          THEN Base + 1 + (n - Base - 1) ELSE mBuffer[n - Base - 1]
    BY <1>2, <2>3, <2>4, CopiedContents
  <2>6. CASE n <= InRing
    <3>1. n - Base - 1 < lastCount
      BY <1>2, <1>3, <1>4, <2>1, <2>6 DEF InRing, TypeOK
    <3>2. Copied[n - Base - 1] = mBuffer[n - Base - 1]
      BY <1>2, <1>3, <1>4, <2>1, <2>5, <3>1 DEF TypeOK
    <3>3. Place(n) = n - Base - 1 BY <1>3, <1>4, <1>5, <2>1 DEF Place
    <3>4. mBuffer[Place(n)] = n BY <1>1, <1>4, <2>1, <2>6 DEF Unread
    <3> QED BY <1>10, <2>2, <3>2, <3>3, <3>4
  <2>7. CASE n > InRing
    <3>1. lastCount # N /\ n - Base - 1 >= lastCount /\ n - Base - 1 < count
      BY <1>2, <1>3, <1>4, <1>5, <2>1, <2>3, <2>7 DEF InRing, TypeOK
    <3>2. Base + 1 + (n - Base - 1) = n BY <1>4, <2>1
    <3> QED BY <1>10, <2>2, <2>5, <3>1, <3>2
  <2> QED BY <1>4, <2>1, <2>6, <2>7
<1>18. InOrder' BY <1>1, <1>10, <1>11 DEF InOrder
<1> QED BY <1>15, <1>16, <1>17, <1>18

LEMMA FetchKeepsOrder ==
    ASSUME IInv, Order, Fetch PROVE Order'
<1> SUFFICES ASSUME ~late PROVE (Window /\ HeadAtNext /\ Unread /\ InOrder)'
  BY DEF Order, Fetch
<1>1. Window /\ HeadAtNext /\ Unread /\ InOrder BY DEF Order
<1>2. TypeOK /\ InStep /\ D \in Nat BY LengthIsNat DEF IInv
<1>3. N \in Nat /\ N > 1 BY UartAssumption
<1>4. Base \in Int /\ InRing \in Int /\ Given \in Int
  BY <1>2 DEF Base, InRing, Given, TypeOK
<1>5. /\ at = "idle" /\ at' = "look" /\ fresh' = 0
      /\ arrived' = arrived /\ count' = count /\ since' = since
      /\ mHead' = mHead /\ tail' = tail /\ received' = received
  BY DEF Fetch
<1>6. lastCount < N /\ lastCount <= count
  BY <1>1, <1>2, <1>3, <1>5 DEF Window, TypeOK
<1>7. /\ lastCount' = count
      /\ lastCount = count => mBuffer' = mBuffer
      /\ lastCount # count => mBuffer' = Copied
  <2>1. lastCount = count \/ count > lastCount BY <1>2, <1>6 DEF TypeOK
  <2>2. CASE lastCount = count
    <3>1. ~(count > lastCount) BY <1>2, <2>2 DEF TypeOK
    <3> QED BY <2>2, <3>1 DEF Fetch
  <2>3. CASE count > lastCount
    <3>1. lastCount # count BY <1>2, <2>3 DEF TypeOK
    <3> QED BY <2>3, <3>1 DEF Fetch, Counted
  <2> QED BY <2>1, <2>2, <2>3
<1>8. D' = D BY <1>5 DEF D
<1>9. Base' = Base /\ InRing' = Base + count
  BY <1>5, <1>7 DEF Base, InRing
<1>10. Given' = Given BY <1>5, <1>8 DEF Given
<1>11. \A n : Place(n)' = Place(n) BY <1>9 DEF Place
<1>12. Base + count = arrived /\ InRing <= Base + count
  BY <1>2, <1>6 DEF Base, InRing, TypeOK
<1>13. Window'
  <2>1. count = N => Given < Base + count
    BY <1>1, <1>2, <1>3, <1>4, <1>6 DEF Window, InRing, TypeOK
  <2>2. arrived \in Int /\ since \in Nat /\ count \in Int
    BY <1>2, <1>3 DEF TypeOK
  <2> QED BY <1>1, <1>3, <1>4, <1>5, <1>7, <1>9, <1>10, <1>12, <2>1, <2>2 DEF Window
<1>14. HeadAtNext' BY <1>1, <1>5, <1>8, <1>9, <1>10, <1>11 DEF HeadAtNext
<1>15. Unread'
  <2> SUFFICES ASSUME NEW n \in (Given + 1)..(Base + count)
               PROVE  mBuffer'[Place(n)] = n
    BY <1>9, <1>10, <1>11 DEF Unread
  <2>1. n \in Int /\ n > Given /\ count \in Int BY <1>2, <1>3, <1>4 DEF TypeOK
  <2>2. n > arrived - since BY <1>1, <1>2, <1>4, <2>1 DEF Window, TypeOK
  <2>3. CASE lastCount = count
    BY <1>1, <1>7, <2>1, <2>3 DEF Unread, InRing
  <2>4. CASE lastCount # count
    <3>1. mBuffer' = Copied BY <1>7, <2>4
    <3>2. CASE n > InRing
      <4>1. Place(n) = n - Base - 1 /\ n - Base - 1 \in 0..(N - 1)
        BY <1>2, <1>3, <1>4, <2>1, <3>2 DEF Place, InRing, TypeOK
      <4>2. n - Base - 1 >= lastCount /\ n - Base - 1 < count /\ lastCount # N
        BY <1>2, <1>3, <1>4, <1>6, <2>1, <3>2 DEF InRing, TypeOK
      <4>3. Copied[n - Base - 1] = Base + 1 + (n - Base - 1)
        BY <1>2, <1>6, <4>1, <4>2, CopiedContents
      <4>4. Base + 1 + (n - Base - 1) = n BY <1>4, <2>1
      <4> QED BY <3>1, <4>1, <4>3, <4>4
    \* A byte of the buffer before lies behind all that is copied now.
    <3>3. CASE n <= InRing
      <4>1. Place(n) \in 0..(N - 1) /\ (Place(n) < lastCount \/ Place(n) >= count)
        <5>1. CASE n > Base
          BY <1>2, <1>3, <1>4, <1>6, <2>1, <3>3, <5>1 DEF Place, InRing, TypeOK
        <5>2. CASE n <= Base
          <6>1. Place(n) = n - Base - 1 + N BY <1>3, <1>4, <2>1, <5>2 DEF Place
          <6>2. n - Base - 1 + N >= count
            BY <1>1, <1>2, <1>3, <1>4, <1>12, <2>1, <2>2 DEF Window, TypeOK
          <6> QED BY <1>2, <1>3, <1>4, <2>1, <5>2, <6>1, <6>2 DEF TypeOK
        <5> QED BY <1>4, <2>1, <5>1, <5>2
      <4>2. Place(n) \in Int BY <1>3, <4>1
      <4>3. ~(Place(n) >= lastCount /\ Place(n) < count)
        BY <1>2, <1>3, <2>1, <4>1, <4>2 DEF TypeOK
      <4>4. Copied[Place(n)] = mBuffer[Place(n)]
        BY <1>2, <1>6, <4>1, <4>3, CopiedContents
      <4>5. mBuffer[Place(n)] = n BY <1>1, <1>4, <2>1, <3>3 DEF Unread
      <4> QED BY <3>1, <4>4, <4>5
    <3> QED BY <1>4, <2>1, <3>2, <3>3
  <2> QED BY <2>3, <2>4
<1>16. InOrder' BY <1>1, <1>5, <1>8 DEF InOrder
<1> QED BY <1>13, <1>14, <1>15, <1>16

LEMMA TakeTailKeepsOrder ==
    ASSUME IInv, Order, TakeTail PROVE Order'
<1> SUFFICES ASSUME ~late PROVE (Window /\ HeadAtNext /\ Unread /\ InOrder)'
  BY DEF Order, TakeTail, wireVars
<1>1. Window /\ HeadAtNext /\ Unread /\ InOrder BY DEF Order
<1>2. TypeOK /\ InStep /\ D \in Nat BY LengthIsNat DEF IInv
<1>3. N \in Nat /\ N > 1 BY UartAssumption
<1>4. Base \in Int /\ InRing \in Int /\ Given \in Int
  BY <1>2 DEF Base, InRing, Given, TypeOK
<1>5. /\ at = "look" /\ tail' = mTail /\ received' = received
      /\ at' = IF mHead > mTail THEN "first" ELSE "second"
      /\ arrived' = arrived /\ count' = count /\ fresh' = fresh /\ since' = since
      /\ mHead' = mHead /\ lastCount' = lastCount /\ mBuffer' = mBuffer
  BY DEF TakeTail, wireVars, fifoVars
<1>6. count < N BY <1>2, <1>3 DEF TakeTail, Preempted, TypeOK
<1>7. lastCount <= count /\ lastCount # N /\ mTail = lastCount
  BY <1>1, <1>2, <1>3, <1>6 DEF Window, InStep, TypeOK
<1>8. D' = D /\ Base' = Base /\ InRing' = InRing
  BY <1>5 DEF D, Base, InRing
<1>9. Given' = Given BY <1>5, <1>8 DEF Given
<1>10. \A n : Place(n)' = Place(n) BY <1>8 DEF Place
<1>11. Window' BY <1>1, <1>5, <1>7, <1>8, <1>9 DEF Window
<1>12. mHead = Place(Given + 1) BY <1>1, <1>5 DEF HeadAtNext
<1>13. mHead \in Int /\ mTail \in Int /\ Base + mTail = InRing
  BY <1>2, <1>3, <1>7 DEF InRing, TypeOK
<1>14. CASE mHead > mTail
  <2>1. Given < Base
    BY <1>1, <1>3, <1>4, <1>12, <1>13, <1>14 DEF Window, Place
  <2>2. InRing <= InRing BY <1>4
  <2>3. HeadAtNext'
    BY <1>1, <1>5, <1>8, <1>9, <1>10, <1>12, <1>13, <1>14, <2>1, <2>2
       DEF HeadAtNext, Window
  <2>4. Unread' BY <1>1, <1>5, <1>8, <1>9, <1>10 DEF Unread
  <2>5. InOrder' BY <1>1, <1>5, <1>8 DEF InOrder
  <2> QED BY <1>11, <2>3, <2>4, <2>5
<1>15. CASE mHead <= mTail
  <2>1. Given >= Base
    <3>1. arrived \in Int /\ since \in Int /\ count \in Int /\ Base = arrived - count
      BY <1>2, <1>3 DEF Base, TypeOK
    <3>2. since < N /\ Given >= arrived - since BY <1>1 DEF Window
    <3>3. CASE Given < Base
      <4>1. mHead = Given - Base + N BY <1>3, <1>4, <1>12, <3>3 DEF Place
      <4>2. mHead > mTail
        BY <1>2, <1>3, <1>4, <1>7, <3>1, <3>2, <4>1 DEF TypeOK
      <4> QED BY <1>13, <1>15, <4>2
    <3> QED BY <1>4, <3>3
  <2>2. mHead = Given - Base BY <1>3, <1>4, <1>12, <2>1 DEF Place
  <2>3. Given + (mTail - mHead) = InRing BY <1>4, <1>13, <2>2
  <2>4. at' = "second" BY <1>5, <1>13, <1>15
  <2>5. InRing <= InRing BY <1>4
  <2>6. HeadAtNext'
    BY <1>1, <1>5, <1>8, <1>9, <1>10, <1>12, <1>15, <2>3, <2>4, <2>5
       DEF HeadAtNext, Window
  <2>7. Unread' BY <1>1, <1>5, <1>8, <1>9, <1>10 DEF Unread
  <2>8. InOrder' BY <1>1, <1>5, <1>8 DEF InOrder
  <2> QED BY <1>11, <2>6, <2>7, <2>8
<1> QED BY <1>13, <1>14, <1>15

LEMMA FirstPartKeepsOrder ==
    ASSUME IInv, Order, FirstPart PROVE Order'
<1> SUFFICES ASSUME ~late PROVE (Window /\ HeadAtNext /\ Unread /\ InOrder)'
  BY DEF Order, FirstPart, wireVars
<1>1. Window /\ HeadAtNext /\ Unread /\ InOrder BY DEF Order
<1>2. TypeOK /\ D \in Nat BY LengthIsNat DEF IInv
<1>3. N \in Nat /\ N > 1 BY UartAssumption
<1>4. Base \in Int /\ InRing \in Int /\ Given \in Int
  BY <1>2 DEF Base, InRing, Given, TypeOK
<1>5. /\ at = "first" /\ at' = "reset" /\ HandOver(mHead, N)
      /\ arrived' = arrived /\ count' = count /\ fresh' = fresh /\ since' = since
      /\ mHead' = mHead /\ lastCount' = lastCount /\ mBuffer' = mBuffer
      /\ tail' = tail
  BY DEF FirstPart, wireVars, fifoVars
<1>6. Given = D /\ D < Base /\ mHead = D - Base + N
  <2>1. Given = D /\ D < Base /\ mHead = Place(D + 1)
    BY <1>1, <1>5 DEF HeadAtNext, Given
  <2> QED BY <1>2, <1>3, <1>4, <2>1 DEF Place
<1>7. /\ Len(received') = D + (N - mHead)
      /\ \A k \in 1..D : received'[k] = received[k]
      /\ \A k \in (D + 1)..(D + (N - mHead)) :
            received'[k] = mBuffer[mHead + (k - D) - 1]
  <2>1. mHead \in 0..(N - 1) /\ N \in 0..N /\ mHead <= N
    BY <1>2, <1>3 DEF TypeOK
  <2> QED BY <1>2, <1>5, <2>1, HandedOver DEF D
<1>8. D' = Base BY <1>2, <1>3, <1>4, <1>6, <1>7 DEF D
<1>9. Base' = Base /\ InRing' = InRing BY <1>5 DEF Base, InRing
<1>10. Given' = Base BY <1>5, <1>8 DEF Given
<1>11. \A n : Place(n)' = Place(n) BY <1>9 DEF Place
<1>12. Base <= InRing BY <1>2, <1>3, <1>4 DEF InRing, TypeOK
<1>13. Window'
  <2>1. Base >= arrived - since
    BY <1>1, <1>2, <1>4, <1>6 DEF Window, TypeOK
  <2>2. lastCount # N BY <1>1, <1>5 DEF Window
  <2> QED BY <1>1, <1>5, <1>9, <1>10, <1>12, <2>1, <2>2 DEF Window
<1>14. HeadAtNext' BY <1>1, <1>5, <1>9, <1>10 DEF HeadAtNext
<1>15. Unread'
  <2> SUFFICES ASSUME NEW n \in (Base + 1)..InRing PROVE mBuffer[Place(n)] = n
    BY <1>5, <1>9, <1>10, <1>11 DEF Unread
  <2>1. n \in (Given + 1)..InRing BY <1>4, <1>6
  <2> QED BY <1>1, <2>1 DEF Unread
<1>16. InOrder'
  <2> SUFFICES ASSUME NEW k \in 1..Base PROVE received'[k] = k
    BY <1>8 DEF InOrder
  <2>1. CASE k <= D
    <3>1. k \in 1..D BY <1>2, <1>4, <2>1
    <3> QED BY <1>1, <1>7, <3>1 DEF InOrder
  <2>2. CASE k > D
    <3>1. /\ k \in (D + 1)..(D + (N - mHead)) /\ k \in (Given + 1)..InRing
          /\ Place(k) = mHead + (k - D) - 1
      BY <1>2, <1>3, <1>4, <1>6, <1>12, <2>2 DEF Place
    <3>2. mBuffer[Place(k)] = k BY <1>1, <3>1 DEF Unread
    <3>3. received'[k] = mBuffer[mHead + (k - D) - 1] BY <1>7, <3>1
    <3> QED BY <3>1, <3>2, <3>3
  <2> QED BY <1>2, <1>4, <2>1, <2>2
<1> QED BY <1>13, <1>14, <1>15, <1>16

LEMMA ResetHeadKeepsOrder ==
    ASSUME IInv, Order, ResetHead PROVE Order'
<1> SUFFICES ASSUME ~late PROVE (Window /\ HeadAtNext /\ Unread /\ InOrder)'
  BY DEF Order, ResetHead, wireVars
<1>1. Window /\ HeadAtNext /\ Unread /\ InOrder BY DEF Order
<1>2. TypeOK /\ D \in Nat BY LengthIsNat DEF IInv
<1>3. N \in Nat /\ N > 1 BY UartAssumption
<1>4. Base \in Int /\ InRing \in Int /\ Given \in Int
  BY <1>2 DEF Base, InRing, Given, TypeOK
<1>5. /\ at = "reset" /\ at' = "second" /\ mHead' = 0
      /\ arrived' = arrived /\ count' = count /\ fresh' = fresh /\ since' = since
      /\ lastCount' = lastCount /\ mBuffer' = mBuffer
      /\ tail' = tail /\ received' = received
  BY DEF ResetHead, wireVars
<1>6. Given = Base BY <1>1, <1>5 DEF HeadAtNext
<1>7. D' = D /\ Base' = Base /\ InRing' = InRing BY <1>5 DEF D, Base, InRing
<1>8. Given' = Given BY <1>5, <1>7 DEF Given
<1>9. \A n : Place(n)' = Place(n) BY <1>7 DEF Place
<1>10. Window'
  <2>1. lastCount # N BY <1>1, <1>5 DEF Window
  <2> QED BY <1>1, <1>5, <1>7, <1>8, <2>1 DEF Window
<1>11. HeadAtNext'
  <2>1. Place(Given + 1) = 0 BY <1>4, <1>6 DEF Place
  <2>2. tail \in Nat /\ tail - 0 = tail BY <1>2, <1>3 DEF TypeOK
  <2>3. Base + tail <= InRing /\ Base + tail >= arrived - fresh
    BY <1>1, <1>5 DEF HeadAtNext
  <2> QED BY <1>5, <1>6, <1>7, <1>8, <1>9, <2>1, <2>2, <2>3 DEF HeadAtNext
<1>12. Unread' BY <1>1, <1>5, <1>7, <1>8, <1>9 DEF Unread
<1>13. InOrder' BY <1>1, <1>5, <1>7 DEF InOrder
<1> QED BY <1>10, <1>11, <1>12, <1>13

LEMMA SecondPartKeepsOrder ==
    ASSUME IInv, Order, SecondPart PROVE Order'
<1> SUFFICES ASSUME ~late PROVE (Window /\ HeadAtNext /\ Unread /\ InOrder)'
  BY DEF Order, SecondPart
<1>1. Window /\ HeadAtNext /\ Unread /\ InOrder BY DEF Order
<1>2. TypeOK /\ D \in Nat BY LengthIsNat DEF IInv
<1>3. N \in Nat /\ N > 1 BY UartAssumption
<1>4. Base \in Int /\ InRing \in Int /\ Given \in Int
  BY <1>2 DEF Base, InRing, Given, TypeOK
<1>5. /\ at = "second"
      /\ arrived' = arrived /\ count' = count /\ fresh' = fresh
      /\ mHead' = mHead /\ lastCount' = lastCount /\ mBuffer' = mBuffer
      /\ tail' = tail
  BY DEF SecondPart, fifoVars
<1>6. /\ Given = D /\ mHead = Place(D + 1) /\ mHead <= tail
      /\ D + (tail - mHead) <= InRing /\ D + (tail - mHead) >= arrived - fresh
  BY <1>1, <1>5 DEF HeadAtNext, Given
<1>7. Base' = Base /\ InRing' = InRing BY <1>5 DEF Base, InRing
<1>8. \A n : Place(n)' = Place(n) BY <1>7 DEF Place
<1>9. lastCount # N BY <1>1, <1>5 DEF Window
<1>10. mHead \in 0..(N - 1) /\ tail \in 0..(N - 1) BY <1>2 DEF TypeOK
<1>11. CASE mHead # tail
  <2>1. at' = "advance" /\ since' = since /\ HandOver(mHead, tail)
    BY <1>11 DEF SecondPart
  <2>2. mHead < tail BY <1>3, <1>6, <1>10, <1>11
  <2>3. /\ Len(received') = D + (tail - mHead)
        /\ \A k \in 1..D : received'[k] = received[k]
        /\ \A k \in (D + 1)..(D + (tail - mHead)) :
              received'[k] = mBuffer[mHead + (k - D) - 1]
    <3>1. tail \in 0..N BY <1>3, <1>10
    <3> QED BY <1>2, <1>6, <1>10, <2>1, <3>1, HandedOver DEF D
  <2>4. D' = D + (tail - mHead) BY <2>3 DEF D
  <2>5. Given' = Given
    BY <1>2, <1>3, <1>5, <1>6, <1>10, <2>1, <2>4 DEF Given
  <2>6. Window' BY <1>1, <1>5, <1>7, <1>9, <2>1, <2>5 DEF Window
  <2>7. HeadAtNext'
    BY <1>5, <1>6, <1>7, <1>8, <2>1, <2>2, <2>4, <2>5 DEF HeadAtNext
  <2>8. Unread' BY <1>1, <1>5, <1>7, <1>8, <2>5 DEF Unread
  <2>9. InOrder'
    <3> SUFFICES ASSUME NEW k \in 1..(D + (tail - mHead)) PROVE received'[k] = k
      BY <2>4 DEF InOrder
    <3>1. CASE k <= D
      <4>1. k \in 1..D BY <1>2, <1>3, <1>10, <3>1
      <4> QED BY <1>1, <2>3, <4>1 DEF InOrder
    <3>2. CASE k > D
      <4>1. k \in (D + 1)..(D + (tail - mHead)) /\ k \in (Given + 1)..InRing
        BY <1>2, <1>3, <1>4, <1>6, <1>10, <3>2
      \* The bytes from mHead to tail are of one buffer.
      <4>2. Place(k) = mHead + (k - D) - 1
        <5>1. CASE D + 1 > Base
          BY <1>2, <1>3, <1>4, <1>6, <3>2, <5>1 DEF Place
        <5>2. CASE D + 1 <= Base
          <6>1. mHead = D - Base + N BY <1>2, <1>3, <1>4, <1>6, <5>2 DEF Place
          <6>2. k <= Base BY <1>2, <1>3, <1>4, <1>10, <4>1, <6>1
          <6> QED BY <1>2, <1>3, <1>4, <6>1, <6>2 DEF Place
        <5> QED BY <1>2, <1>4, <5>1, <5>2
      <4>3. mBuffer[Place(k)] = k BY <1>1, <4>1 DEF Unread
      <4>4. received'[k] = mBuffer[mHead + (k - D) - 1] BY <2>3, <4>1
      <4> QED BY <4>2, <4>3, <4>4
    <3> QED BY <1>2, <1>3, <1>10, <3>1, <3>2
  <2> QED BY <2>6, <2>7, <2>8, <2>9
<1>12. CASE mHead = tail
  <2>1. at' = "idle" /\ since' = fresh /\ received' = received
    BY <1>12 DEF SecondPart
  <2>2. D' = D BY <2>1 DEF D
  <2>3. Given' = D BY <2>1, <2>2 DEF Given
  <2>4. D + (tail - mHead) = D BY <1>2, <1>3, <1>10, <1>12
  <2>5. Window'
    <3>1. fresh < N /\ fresh <= fresh /\ fresh <= arrived
      BY <1>1, <1>2, <1>3 DEF Window, TypeOK
    <3> QED BY <1>1, <1>5, <1>6, <1>7, <1>9, <2>1, <2>3, <2>4, <3>1 DEF Window
  <2>6. HeadAtNext' BY <1>5, <1>6, <1>7, <1>8, <2>1, <2>3 DEF HeadAtNext
  <2>7. Unread' BY <1>1, <1>5, <1>6, <1>7, <1>8, <2>3 DEF Unread
  <2>8. InOrder' BY <1>1, <2>1, <2>2 DEF InOrder
  <2> QED BY <2>5, <2>6, <2>7, <2>8
<1> QED BY <1>11, <1>12

LEMMA AdvanceHeadKeepsOrder ==
    ASSUME IInv, Order, AdvanceHead PROVE Order'
<1> SUFFICES ASSUME ~late PROVE (Window /\ HeadAtNext /\ Unread /\ InOrder)'
  BY DEF Order, AdvanceHead
<1>1. Window /\ HeadAtNext /\ Unread /\ InOrder BY DEF Order
<1>2. TypeOK /\ D \in Nat BY LengthIsNat DEF IInv
<1>3. N \in Nat /\ N > 1 BY UartAssumption
<1>4. Base \in Int /\ InRing \in Int /\ Given \in Int
  BY <1>2 DEF Base, InRing, Given, TypeOK
<1>5. /\ at = "advance" /\ at' = "idle" /\ mHead' = tail /\ since' = fresh
      /\ arrived' = arrived /\ count' = count /\ fresh' = fresh
      /\ lastCount' = lastCount /\ mBuffer' = mBuffer
      /\ tail' = tail /\ received' = received
  BY DEF AdvanceHead
<1>6. /\ Given = D - (tail - mHead) /\ mHead = Place(Given + 1) /\ mHead < tail
      /\ D <= InRing /\ D >= arrived - fresh
  BY <1>1, <1>5 DEF HeadAtNext, Given
<1>7. D' = D /\ Base' = Base /\ InRing' = InRing BY <1>5 DEF D, Base, InRing
<1>8. Given' = D BY <1>5, <1>7 DEF Given
<1>9. \A n : Place(n)' = Place(n) BY <1>7 DEF Place
<1>10. mHead \in 0..(N - 1) /\ tail \in 0..(N - 1) BY <1>2 DEF TypeOK
<1>11. Window'
  <2>1. fresh < N /\ fresh <= fresh /\ fresh <= arrived
    BY <1>1, <1>2, <1>3 DEF Window, TypeOK
  <2>2. lastCount # N BY <1>1, <1>5 DEF Window
  <2> QED BY <1>1, <1>5, <1>6, <1>7, <1>8, <2>1, <2>2 DEF Window
<1>12. Place(D + 1) = tail
  <2>1. CASE Given + 1 > Base
    BY <1>2, <1>3, <1>4, <1>6, <1>10, <2>1 DEF Place
  <2>2. CASE Given + 1 <= Base
    BY <1>2, <1>3, <1>4, <1>6, <1>10, <2>2 DEF Place
  <2> QED BY <1>4, <2>1, <2>2
<1>13. HeadAtNext' BY <1>5, <1>7, <1>8, <1>9, <1>12 DEF HeadAtNext
<1>14. Unread'
  <2> SUFFICES ASSUME NEW n \in (D + 1)..InRing PROVE mBuffer[Place(n)] = n
    BY <1>5, <1>7, <1>8, <1>9 DEF Unread
  <2>1. n \in (Given + 1)..InRing BY <1>2, <1>3, <1>4, <1>6, <1>10
  <2> QED BY <1>1, <2>1 DEF Unread
<1>15. InOrder' BY <1>1, <1>5, <1>7 DEF InOrder
<1> QED BY <1>11, <1>13, <1>14, <1>15

LEMMA NextOrder == IInv /\ Order /\ [Next]_vars => Order'
<1> SUFFICES ASSUME IInv, Order, [Next]_vars PROVE Order'
  OBVIOUS
<1>1. CASE ByteArrives BY <1>1, ByteArrivesKeepsOrder
<1>2. CASE UART_IRQHandler \/ transmitDone \/ otPlatUartSend \/ processTransmit
  BY <1>2, AsideKeepsOrder
     DEF UART_IRQHandler, transmitDone, otPlatUartSend, processTransmit, passVars
<1>3. CASE FlushBegin \/ FlushEnd
  BY <1>3, AsideKeepsOrder DEF FlushBegin, FlushEnd
<1>4. CASE receiveDone BY <1>4, receiveDoneKeepsOrder
<1>5. CASE Fetch BY <1>5, FetchKeepsOrder
<1>6. CASE TakeTail BY <1>6, TakeTailKeepsOrder
<1>7. CASE FirstPart BY <1>7, FirstPartKeepsOrder
<1>8. CASE ResetHead BY <1>8, ResetHeadKeepsOrder
<1>9. CASE SecondPart BY <1>9, SecondPartKeepsOrder
<1>10. CASE AdvanceHead BY <1>10, AdvanceHeadKeepsOrder
<1>11. CASE UNCHANGED vars BY <1>11, AsideKeepsOrder DEF vars, passVars
<1> QED
  BY <1>1, <1>2, <1>3, <1>4, <1>5, <1>6, <1>7, <1>8, <1>9, <1>10, <1>11
     DEF Next, Interrupts, Main, processReceive

\* Both writers keep mHead at the place of the next byte and no byte that was
\* not handed over is written over, as long as the main loop is in time.
THEOREM OrderHolds == Spec => [](IInv /\ Order)
<1>1. Init => IInv /\ Order BY InitIInv, InitOrder
<1>2. IInv /\ Order /\ [Next]_vars => (IInv /\ Order)'
  BY NextIInv, NextOrder
<1> QED BY <1>1, <1>2, PTL DEF Spec

\* The stack is given the bytes of the wire in order, none lost and none
\* twice, for every size of the buffers and every interleaving of the DMA,
\* receiveDone and processReceive in which the main loop is in time.
THEOREM BytesComeInOrder == Spec => []BytesInOrder
<1>1. IInv /\ Order => BytesInOrder
  <2> SUFFICES ASSUME IInv, Order, ~late, NEW k \in DOMAIN received
               PROVE  received[k] = k
    BY DEF BytesInOrder
  <2>1. k \in 1..D BY DEF IInv, TypeOK, D
  <2> QED BY <2>1 DEF Order, InOrder
<1> QED BY <1>1, OrderHolds, PTL
=============================================================================
