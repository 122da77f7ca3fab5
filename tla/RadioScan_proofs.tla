-------------------------- MODULE RadioScan_proofs --------------------------
(***************************************************************************)
(* For any set of hosts, any number of readings and any behaviour of RAIL: *)
(* the radio does one thing at a time, and as long as RAIL refuses no scan *)
(* every request is held in exactly one place from the call to its answer, *)
(* but for queued frames whose error nobody looks at.                      *)
(***************************************************************************)
EXTENDS RadioScan, FiniteSetTheorems, SequenceTheorems, TLAPS

-----------------------------------------------------------------------------
(* Types and the bound of the pending queue.                               *)

LEMMA HostsCounted == Cardinality(Hosts) \in Nat
BY BuildAssumption, FS_CardinalityType

\* A command that is put at the end, and one that is taken from the front.
LEMMA QueueGrows ==
    ASSUME NEW q \in Seq(Command), NEW c \in Command
    PROVE  /\ Append(q, c) \in Seq(Command)
           /\ Len(Append(q, c)) = Len(q) + 1
           /\ \A i \in 1..Len(q) : Append(q, c)[i] = q[i]
           /\ Append(q, c)[Len(q) + 1] = c
OBVIOUS

LEMMA QueueShrinks ==
    ASSUME NEW q \in Seq(Command), q # <<>>
    PROVE  /\ Tail(q) \in Seq(Command) /\ Head(q) \in Command
           /\ Len(q) \in Nat /\ Len(q) >= 1 /\ Head(q) = q[1]
           /\ Len(Tail(q)) = Len(q) - 1
           /\ \A i \in 1..Len(Tail(q)) : Tail(q)[i] = q[i + 1]
BY HeadTailProperties, EmptySeq

\* What efr32StartEnergyScan can leave behind: nothing is done while a scan is
\* not over; a counter that was not read down ends the start half way; the scan
\* runs; or RAIL refuses.
LEMMA ScanOutcomes ==
    ASSUME NEW mode, NEW s \in ScanStarts(mode), ScanBecomes(s)
    PROVE  \/ /\ sEnergyScanStatus # "idle" /\ s.error = TRUE
              /\ UNCHANGED scanVars
           \/ /\ sEnergyScanStatus = "idle" /\ sScanFrameCounter # 0 /\ s.error = TRUE
              /\ sEnergyScanStatus' = "inProgress" /\ sEnergyScanMode' = mode
              /\ UNCHANGED <<sScanFrameCounter, rail_timer, refused>>
           \/ /\ sEnergyScanStatus = "idle" /\ sScanFrameCounter = 0 /\ s.error = FALSE
              /\ sEnergyScanStatus' = "inProgress" /\ sEnergyScanMode' = mode
              /\ sScanFrameCounter' = MaxReads /\ rail_timer' = TRUE /\ refused' = refused
           \/ /\ sEnergyScanStatus = "idle" /\ sScanFrameCounter = 0 /\ s.error = TRUE
              /\ sEnergyScanStatus' \in {"inProgress", "completed"} /\ sEnergyScanMode' = mode
              /\ sScanFrameCounter' \in {0, MaxReads}
              /\ rail_timer' = rail_timer /\ refused' = TRUE
<1>1. CASE sEnergyScanStatus # "idle"
  BY <1>1 DEF ScanStarts, ScanBecomes, scanVars
<1>2. CASE sEnergyScanStatus = "idle" /\ sScanFrameCounter # 0
  BY <1>2 DEF ScanStarts, ScanBecomes
<1>3. CASE sEnergyScanStatus = "idle" /\ sScanFrameCounter = 0
  BY <1>3 DEF ScanStarts, ScanBecomes, ScanResult
<1> QED BY <1>1, <1>2, <1>3

LEMMA ScanStartsTypes ==
    ASSUME TypeOK, NEW mode \in {"sync", "async"}, NEW s \in ScanStarts(mode), ScanBecomes(s)
    PROVE  /\ sEnergyScanStatus' \in {"idle", "inProgress", "completed"}
           /\ sEnergyScanMode' \in {"sync", "async"}
           /\ sScanFrameCounter' \in 0..MaxReads
           /\ rail_timer' \in BOOLEAN /\ refused' \in BOOLEAN
<1>1. /\ sEnergyScanStatus' \in {"idle", "inProgress", "completed"}
      /\ sEnergyScanMode' \in {"sync", "async"}
      /\ sScanFrameCounter' \in {sScanFrameCounter, 0, MaxReads}
  BY ScanOutcomes DEF TypeOK, scanVars
<1>2. sScanFrameCounter' \in 0..MaxReads
  BY <1>1, BuildAssumption DEF TypeOK
<1>3. rail_timer' \in BOOLEAN /\ refused' \in BOOLEAN
  BY ScanOutcomes, Zenon DEF TypeOK, scanVars
<1> QED BY <1>1, <1>2, <1>3

\* A request starts only with a command at hand.
CmdInHand == pc \in {"look", "start"} => cmd \in Command

Typed == TypeOK /\ CmdInHand

LEMMA TypesHoldAtInit == Init => Typed
<1> SUFFICES ASSUME Init PROVE Typed
  OBVIOUS
<1>1. sPendingCommandQueue \in Seq(Command) /\ Len(sPendingCommandQueue) = 0
  BY EmptySeq DEF Init
<1>2. waiting \in [Hosts -> Kinds \cup {"none", "dropped"}]
  BY DEF Init
<1>3. rail_timer \in BOOLEAN /\ refused \in BOOLEAN
  BY DEF Init
<1> QED BY <1>1, <1>2, <1>3, BuildAssumption, HostsCounted DEF Init, Typed, TypeOK, CmdInHand

LEMMA AskTypes ==
    ASSUME Typed, NEW h \in Hosts, NEW back \in {"idle", "scan", "clear", "end"}, Ask(h, back)
    PROVE  Typed'
BY DEF Typed, TypeOK, CmdInHand, Ask, Command, Kinds, scanVars, txVars

LEMMA AnswerTypes ==
    ASSUME Typed, NEW h \in Hosts \cup {Nobody}, NEW kind \in Kinds, Answer(h, kind)
    PROVE  /\ waiting' \in [Hosts -> Kinds \cup {"none", "dropped"}]
           /\ wrong' \subseteq {"queueOverflow", "transmissionOngoing",
                               "noActiveInterface", "strayAnswer"}
BY DEF Typed, TypeOK, Answer, Kinds

LEMMA TypesHoldAtStep == Typed /\ [Next]_vars => Typed'
<1> SUFFICES ASSUME Typed, [Next]_vars PROVE Typed'
  OBVIOUS
<1> USE HostsCounted, BuildAssumption DEF Typed, CmdInHand
<1>1. CASE UNCHANGED vars
  BY <1>1 DEF TypeOK, vars, scanVars, txVars, loopVars
<1>2. CASE TimerFires
  <2>1. /\ sEnergyScanStatus' \in {"idle", "inProgress", "completed"}
        /\ sScanFrameCounter' \in 0..MaxReads
    <3>1. CASE ReadingsLeft
      BY <1>2, <3>1 DEF TypeOK, TimerFires, ReadingsLeft
    <3>2. CASE ~ReadingsLeft
      BY <1>2, <3>2 DEF TypeOK, TimerFires, ScanResult
    <3> QED BY <3>1, <3>2
  <2>2. rail_timer' \in BOOLEAN
    BY <1>2 DEF TypeOK, TimerFires
  <2> QED BY <1>2, <2>1, <2>2 DEF TypeOK, TimerFires, txVars, loopVars
<1>3. CASE TxDecided
  BY <1>3 DEF TypeOK, TxDecided, scanVars, loopVars
<1>4. CASE AskFromLoop
  BY <1>4, AskTypes DEF AskFromLoop
<1>5. CASE GetRssi
  BY <1>5, ScanStartsTypes DEF TypeOK, GetRssi, Go, txVars
<1>6. CASE LookBeforeStart
  <2>1. CASE FoundBusy /\ ~QueueIsFull /\ sPendingCommandQueue' = Pushed /\ Go(ret)
             /\ Note("queueOverflow", QueueIsFull)
    <3>1. sPendingCommandQueue' \in Seq(Command)
          /\ Len(sPendingCommandQueue') = Len(sPendingCommandQueue) + 1
      BY <2>1, <1>6, QueueGrows DEF TypeOK, LookBeforeStart, Pushed
    <3>2. Len(sPendingCommandQueue) \in Nat
      BY DEF TypeOK
    <3>3. Len(sPendingCommandQueue') <= Cardinality(Hosts)
      BY <2>1, <3>1, <3>2 DEF TypeOK, QueueIsFull
    <3> QED BY <1>6, <2>1, <3>1, <3>3 DEF TypeOK, LookBeforeStart, Go, Note, scanVars, txVars
  <2>2. CASE FoundBusy /\ QueueIsFull /\ sPendingCommandQueue' = sPendingCommandQueue /\ Go(ret)
             /\ Note("queueOverflow", QueueIsFull)
    BY <1>6, <2>2 DEF TypeOK, LookBeforeStart, Go, Note, scanVars, txVars
  <2>3. CASE LooksOn /\ LookOn /\ UNCHANGED <<sPendingCommandQueue, wrong>>
    BY <1>6, <2>3 DEF TypeOK, LookBeforeStart, LooksOn, LookOn, scanVars, txVars
  <2>4. CASE Go("start") /\ UNCHANGED <<sPendingCommandQueue, wrong>>
    BY <1>6, <2>4 DEF TypeOK, LookBeforeStart, Go, scanVars, txVars
  <2> QED BY <1>6, <2>1, <2>2, <2>3, <2>4 DEF LookBeforeStart
<1>7. CASE StartTransmit
  <2>1. CASE waiting' = ErrorReturned /\ UNCHANGED <<txVars, wrong>>
    BY <1>7, <2>1 DEF TypeOK, StartTransmit, ErrorReturned, Go, Command, scanVars, txVars
  <2>2. CASE UNCHANGED waiting
    BY <1>7, <2>2 DEF TypeOK, StartTransmit, Go, Note, Command, scanVars, txVars
  <2> QED BY <1>7, <2>1, <2>2 DEF StartTransmit
<1>8. CASE StartScan
  BY <1>8, ScanStartsTypes DEF TypeOK, StartScan, ScanInterface, Go, Command, txVars
<1>9. CASE RssiLoopEnds
  BY <1>9 DEF TypeOK, RssiLoopEnds, Go, scanVars, txVars
<1>10. CASE RssiReturns
  BY <1>10 DEF TypeOK, RssiReturns, AfterRssi, Go, txVars
<1>11. CASE ProcessTx
  <2>1. CASE tx = "decided"
    BY <1>11, <2>1, AnswerTypes DEF TypeOK, ProcessTx, Go, Kinds, scanVars
  <2>2. CASE tx # "decided"
    BY <1>11, <2>2 DEF TypeOK, ProcessTx, Go, scanVars
  <2> QED BY <2>1, <2>2
<1>12. CASE TxDoneCallback
  BY <1>12, AskTypes DEF TypeOK, TxDoneCallback, Callback, Go, scanVars, txVars
<1>13. CASE ProcessScan
  <2>1. CASE ScanIsDone
    BY <1>13, <2>1, AnswerTypes DEF TypeOK, ProcessScan, Go, Kinds, txVars
  <2>2. CASE ~ScanIsDone
    <3>1. /\ pc' = "pending" /\ look' = 0
          /\ UNCHANGED <<ret, cmd, sEnergyScanStatus, waiting, wrong>>
      BY <1>13, <2>2 DEF ProcessScan
    <3> QED BY <1>13, <3>1 DEF TypeOK, ProcessScan, txVars
  <2> QED BY <2>1, <2>2
<1>14. CASE ScanDoneCallback
  BY <1>14, AskTypes DEF TypeOK, ScanDoneCallback, Callback, Go, scanVars, txVars
<1>15. CASE ClearInterface
  BY <1>15 DEF TypeOK, ClearInterface, scanVars, txVars
<1>16. CASE ProcessPending
  <2>1. CASE sPendingCommandQueue # <<>> /\ cmd' = Head(sPendingCommandQueue)
             /\ sPendingCommandQueue' = Removed /\ pc' = "look" /\ look' = 0 /\ ret' = "end"
    <3>1. /\ sPendingCommandQueue' \in Seq(Command) /\ cmd' \in Command
          /\ Len(sPendingCommandQueue) \in Nat
          /\ Len(sPendingCommandQueue') = Len(sPendingCommandQueue) - 1
      BY <2>1, QueueShrinks DEF TypeOK, Removed
    <3> QED BY <1>16, <2>1, <3>1 DEF TypeOK, ProcessPending, scanVars, txVars
  <2>2. CASE LooksOn /\ LookOn /\ UNCHANGED sPendingCommandQueue
    BY <1>16, <2>2 DEF TypeOK, ProcessPending, LooksOn, LookOn, scanVars, txVars
  <2>3. CASE Go("idle") /\ UNCHANGED sPendingCommandQueue
    BY <1>16, <2>3 DEF TypeOK, ProcessPending, Go, scanVars, txVars
  <2> QED BY <1>16, <2>1, <2>2, <2>3 DEF ProcessPending
<1>17. CASE EndPass
  BY <1>17 DEF TypeOK, EndPass, Go, scanVars, txVars
<1> QED BY <1>1, <1>2, <1>3, <1>4, <1>5, <1>6, <1>7, <1>8, <1>9, <1>10, <1>11, <1>12, <1>13,
           <1>14, <1>15, <1>16, <1>17 DEF Next, Started, Pass

\* The types, and that a request starts only with a command at hand.
THEOREM TypesHold == Spec => []Typed
BY TypesHoldAtInit, TypesHoldAtStep, PTL DEF Spec

\* The variables keep their types, and the pending queue never has more
\* commands than there are hosts, however often the hosts ask again.
THEOREM TypeCorrectness == Spec => []TypeOK
<1>1. Typed => TypeOK
  BY DEF Typed
<1> QED BY <1>1, TypesHold, PTL
-----------------------------------------------------------------------------
(* One operation at a time.                                                *)

\* A scan that was asked for and is not yet reported.
Scanning == sEnergyScanStatus # "idle" /\ sEnergyScanMode = "async"

\* The timer runs only in a scan in progress, and the wait of otPlatRadioGetRssi
\* is not left before: a timer can never complete the scan of somebody else.
TimerOfItsScan ==
    /\ rail_timer => sEnergyScanStatus = "inProgress"
    /\ pc = "rssiEnd" => sEnergyScanStatus # "inProgress"

\* What isRadioTransmittingOrScanning has found free stays free up to the start:
\* only the main loop begins an operation, an interrupt only ends one.
FreeUpToStart ==
    /\ pc = "look" /\ look > 0 => ~Scanning
    /\ pc = "look" /\ look = 2 => tx # "ongoing"
    /\ pc = "start" => tx = "none" /\ ~Scanning
    /\ ~(tx # "none" /\ Scanning)

\* What OneOperationInvariance keeps.
OneInv == Typed /\ TimerOfItsScan /\ (MultiPan => FreeUpToStart)

\* The timer's interrupt leaves the mode alone and a scan that is reported alone.
LEMMA TimerKeepsScanning ==
    ASSUME TimerOfItsScan, TimerFires
    PROVE  /\ Scanning' <=> Scanning
           /\ sEnergyScanStatus' # "idle" <=> sEnergyScanStatus # "idle"
BY DEF TimerOfItsScan, TimerFires, Scanning, ScanResult

LEMMA LooksForOneOperation ==
    ASSUME Typed, FreeUpToStart, LookBeforeStart
    PROVE  FreeUpToStart'
<1> USE DEF FreeUpToStart, Scanning, LookBeforeStart, FoundBusy, FlagReads, Typed, TypeOK,
        scanVars, txVars
<1>1. CASE LooksOn /\ LookOn
  <2>1. CASE look = 0
    BY <1>1, <2>1 DEF LooksOn, LookOn
  <2>2. CASE look = 1
    BY <1>1, <2>2 DEF LooksOn, LookOn
  <2> QED BY <1>1, <2>1, <2>2 DEF LooksOn
<1>2. CASE Go(ret)
  BY <1>2 DEF Go
<1>3. CASE ~FoundBusy /\ look = 2 /\ Go("start")
  BY <1>3 DEF Go
<1> QED BY <1>1, <1>2, <1>3

LEMMA TimerAtStep == ~RssiTimeout /\ Typed /\ TimerOfItsScan /\ [Next]_vars => TimerOfItsScan'
<1> SUFFICES ASSUME ~RssiTimeout, Typed, TimerOfItsScan, [Next]_vars PROVE TimerOfItsScan'
  OBVIOUS
<1> USE DEF TimerOfItsScan
<1>1. CASE UNCHANGED vars
  BY <1>1 DEF vars, scanVars, loopVars
<1>2. CASE TimerFires
  BY <1>2 DEF TimerFires, ScanResult, loopVars
<1>3. CASE TxDecided
  BY <1>3 DEF TxDecided, scanVars, loopVars
<1>4. CASE AskFromLoop
  BY <1>4 DEF AskFromLoop, Ask, scanVars
<1>5. CASE GetRssi
  BY <1>5, ScanOutcomes DEF GetRssi, Go, scanVars
<1>6. CASE LookBeforeStart
  BY <1>6 DEF LookBeforeStart, LookOn, Go, scanVars, Typed, TypeOK
<1>7. CASE StartTransmit
  BY <1>7 DEF StartTransmit, Go, scanVars, Typed, TypeOK
<1>8. CASE StartScan
  BY <1>8, ScanOutcomes DEF StartScan, Go, scanVars, Typed, TypeOK
<1>9. CASE RssiLoopEnds
  BY <1>9 DEF RssiLoopEnds, Go, scanVars
<1>10. CASE RssiReturns
  BY <1>10 DEF RssiReturns, AfterRssi, Go
<1>11. CASE ProcessTx
  BY <1>11 DEF ProcessTx, Go, scanVars
<1>12. CASE TxDoneCallback
  BY <1>12 DEF TxDoneCallback, Callback, Ask, Go, scanVars
<1>13. CASE ProcessScan
  BY <1>13 DEF ProcessScan, ScanIsDone, Go
<1>14. CASE ScanDoneCallback
  BY <1>14 DEF ScanDoneCallback, Callback, Ask, Go, scanVars
<1>15. CASE ClearInterface
  BY <1>15 DEF ClearInterface, scanVars
<1>16. CASE ProcessPending
  BY <1>16 DEF ProcessPending, LookOn, Go, scanVars
<1>17. CASE EndPass
  BY <1>17 DEF EndPass, Go, scanVars
<1> QED BY <1>1, <1>2, <1>3, <1>4, <1>5, <1>6, <1>7, <1>8, <1>9, <1>10, <1>11, <1>12, <1>13,
           <1>14, <1>15, <1>16, <1>17 DEF Next, Started, Pass

LEMMA FreeAtStep ==
    Typed /\ TimerOfItsScan /\ MultiPan /\ FreeUpToStart /\ [Next]_vars => FreeUpToStart'
<1> SUFFICES ASSUME Typed, TimerOfItsScan, MultiPan, FreeUpToStart, [Next]_vars
             PROVE  FreeUpToStart'
  OBVIOUS
<1> USE DEF FreeUpToStart, Scanning
<1>1. CASE UNCHANGED vars
  BY <1>1 DEF vars, scanVars, loopVars, txVars
<1>2. CASE TimerFires
  BY <1>2, TimerKeepsScanning DEF TimerFires, loopVars, txVars
<1>3. CASE TxDecided
  BY <1>3 DEF TxDecided, scanVars, loopVars
<1>4. CASE AskFromLoop
  BY <1>4 DEF AskFromLoop, Ask, scanVars, txVars
<1>5. CASE GetRssi
  <2>1. PICK s \in ScanStarts("sync") : ScanBecomes(s) /\ Go(IF s.error THEN "idle" ELSE "rssi")
    BY <1>5 DEF GetRssi
  <2>2. \/ UNCHANGED <<sEnergyScanStatus, sEnergyScanMode>>
        \/ sEnergyScanStatus = "idle" /\ sEnergyScanMode' = "sync"
    BY <2>1, ScanOutcomes DEF scanVars
  <2>3. pc' \in {"idle", "rssi"} /\ tx' = tx
    BY <1>5, <2>1 DEF GetRssi, Go, txVars
  <2> QED BY <2>2, <2>3
<1>6. CASE LookBeforeStart
  BY <1>6, LooksForOneOperation
<1>7. CASE StartTransmit
  BY <1>7 DEF StartTransmit, Go, scanVars, txVars, Typed, TypeOK
<1>8. CASE StartScan
  BY <1>8 DEF StartScan, Go, txVars, Typed, TypeOK
<1>9. CASE RssiLoopEnds
  BY <1>9 DEF RssiLoopEnds, Go, scanVars, txVars
<1>10. CASE RssiReturns
  BY <1>10 DEF RssiReturns, AfterRssi, Go, txVars
<1>11. CASE ProcessTx
  BY <1>11 DEF ProcessTx, Go, scanVars
<1>12. CASE TxDoneCallback
  BY <1>12 DEF TxDoneCallback, Callback, Ask, Go, scanVars, txVars
<1>13. CASE ProcessScan
  BY <1>13 DEF ProcessScan, ScanIsDone, Go, txVars
<1>14. CASE ScanDoneCallback
  BY <1>14 DEF ScanDoneCallback, Callback, Ask, Go, scanVars, txVars
<1>15. CASE ClearInterface
  BY <1>15 DEF ClearInterface, scanVars, txVars
<1>16. CASE ProcessPending
  BY <1>16 DEF ProcessPending, LookOn, Go, scanVars, txVars
<1>17. CASE EndPass
  BY <1>17 DEF EndPass, Go, scanVars, txVars
<1> QED BY <1>1, <1>2, <1>3, <1>4, <1>5, <1>6, <1>7, <1>8, <1>9, <1>10, <1>11, <1>12, <1>13,
           <1>14, <1>15, <1>16, <1>17 DEF Next, Started, Pass

LEMMA OneAtInit == Init => OneInv
<1>1. Init => TimerOfItsScan /\ FreeUpToStart
  BY DEF Init, TimerOfItsScan, FreeUpToStart, Scanning
<1> QED BY <1>1, TypesHoldAtInit DEF OneInv

LEMMA OneAtStep == ~RssiTimeout /\ OneInv /\ [Next]_vars => OneInv'
<1> SUFFICES ASSUME ~RssiTimeout, OneInv, [Next]_vars PROVE OneInv'
  OBVIOUS
<1>1. Typed' /\ TimerOfItsScan'
  BY TypesHoldAtStep, TimerAtStep DEF OneInv
<1>2. ASSUME MultiPan PROVE FreeUpToStart'
  BY <1>2, FreeAtStep DEF OneInv
<1> QED BY <1>1, <1>2 DEF OneInv

\* The timer runs only in its own scan and what was read free stays free, as long
\* as the wait of otPlatRadioGetRssi is not shorter than its scan.
THEOREM OneOperationInvariance == ~RssiTimeout /\ Spec => []OneInv
<1>1. CASE ~RssiTimeout
  <2>1. OneInv /\ [Next]_vars => OneInv'
    BY <1>1, OneAtStep
  <2> QED BY <2>1, OneAtInit, PTL DEF Spec
<1>2. CASE RssiTimeout
  BY <1>2
<1> QED BY <1>1, <1>2

\* A transmission and a scan of two hosts never share the radio, whatever the
\* callbacks ask for and whatever RAIL refuses, unless the wait of
\* otPlatRadioGetRssi ends before its scan does.
THEOREM OneOperationOnly == ~RssiTimeout /\ Spec => []OneOperation
<1>1. OneInv => OneOperation
  BY DEF OneInv, FreeUpToStart, Scanning, OneOperation
<1> QED BY <1>1, OneOperationInvariance, PTL
-----------------------------------------------------------------------------
(* Every request in one place.                                             *)

\* One instance, or the queue between them; the wait of otPlatRadioGetRssi is
\* as long as its scan; nobody asks again from otPlatRadioEnergyScanDone (the
\* interface of the new scan would be cleared behind the callback).
Regular == /\ MultiPan \/ \A g, h \in Hosts : g = h
           /\ ~RssiTimeout /\ "scanDone" \notin Reenter

\* Who has the scan: the waiting loop of otPlatRadioGetRssi or a host.
ScanHasOwner ==
    /\ rail_timer <=> sEnergyScanStatus = "inProgress"
    /\ sScanFrameCounter # 0 => rail_timer
    /\ pc \in {"rssi", "rssiEnd"} <=> sEnergyScanStatus # "idle" /\ sEnergyScanMode = "sync"
    /\ pc = "rssiEnd" => sEnergyScanStatus # "inProgress"
    /\ pc \in {"scanDone", "clear"} => sEnergyScanStatus = "idle"
    /\ Scanning => sEnergyScanActiveInterface \in Hosts
    /\ ret # "clear"

\* What has been read free is free.
LooksAreTrue ==
    /\ MultiPan /\ pc = "look" /\ look > 0 => ~Scanning
    /\ pc \in {"look", "pending"} /\ look = 2 => tx # "ongoing"
    /\ pc = "start" => tx = "none" /\ ~Scanning
    /\ ~MultiPan => pc # "look" /\ sPendingCommandQueue = <<>>

Places == 1..Len(sPendingCommandQueue)
HostAt(i) == sPendingCommandQueue[i].host
KindAt(i) == sPendingCommandQueue[i].kind

\* An operation is of the kind its host waits for.
KindsMatch ==
    /\ pc \in {"look", "start"} => waiting[cmd.host] = cmd.kind
    /\ tx # "none" => txHost \in Hosts /\ waiting[txHost] = "transmit"
    /\ Scanning => waiting[sEnergyScanActiveInterface] = "scan"
    /\ \A i \in Places : waiting[HostAt(i)] = KindAt(i)

InQueue(h)   == \E i \in Places : HostAt(i) = h
Starting(h)  == pc \in {"look", "start"} /\ cmd.host = h
Transmits(h) == tx # "none" /\ txHost = h
Scans(h)     == Scanning /\ sEnergyScanActiveInterface = h

\* No host has a second operation, and no request is forgotten but a frame that
\* failed when it was taken from the queue ("dropped").
HeldOnce ==
    /\ \A i, j \in Places : HostAt(i) = HostAt(j) => i = j
    /\ \A h \in Hosts : InQueue(h) => ~Starting(h) /\ ~Transmits(h) /\ ~Scans(h)
    /\ \A h \in Hosts : Starting(h) => ~Transmits(h) /\ ~Scans(h)
    /\ \A h \in Hosts : Waits(h) =>
           InQueue(h) \/ Starting(h) \/ Transmits(h) \/ Scans(h)

Ordered == ScanHasOwner /\ LooksAreTrue /\ KindsMatch /\ HeldOnce /\ wrong = {}

\* The places of the queue hold commands.
LEMMA PlacesHoldCommands ==
    ASSUME TypeOK
    PROVE  /\ Len(sPendingCommandQueue) \in Nat
           /\ \A i \in Places : sPendingCommandQueue[i] \in Command
                                /\ HostAt(i) \in Hosts /\ KindAt(i) \in Kinds
<1>1. sPendingCommandQueue \in Seq(Command)
  BY DEF TypeOK
<1>2. /\ Len(sPendingCommandQueue) \in Nat
      /\ \A i \in Places : sPendingCommandQueue[i] \in Command
  BY <1>1, LenProperties, ElementOfSeq DEF Places
<1> QED BY <1>2 DEF HostAt, KindAt, Command

\* A host that waits for nothing has nothing going on.
LEMMA IdleHost ==
    ASSUME Typed, Ordered, NEW h \in Hosts, ~Waits(h)
    PROVE  ~InQueue(h) /\ ~Starting(h) /\ ~Transmits(h) /\ ~Scans(h)
BY PlacesHoldCommands DEF Typed, CmdInHand, Ordered, KindsMatch, InQueue, Starting,
   Transmits, Scans, Waits, Kinds, Command

\* Once refused, always refused.
LEMMA RefusedForGood == refused /\ [Next]_vars => refused'
<1> SUFFICES ASSUME refused, [Next]_vars PROVE refused'
  OBVIOUS
<1>1. CASE UNCHANGED vars
  BY <1>1 DEF vars, scanVars
<1>2. CASE GetRssi
  <2>1. PICK s \in ScanStarts("sync") : ScanBecomes(s)
    BY <1>2 DEF GetRssi
  <2> QED BY <2>1, ScanOutcomes, Zenon DEF scanVars
<1>3. CASE StartScan
  <2>1. PICK s \in ScanStarts("async") : ScanBecomes(s)
    BY <1>3 DEF StartScan
  <2> QED BY <2>1, ScanOutcomes, Zenon DEF scanVars
<1>4. CASE TimerFires \/ TxDecided \/ AskFromLoop
  BY <1>4 DEF TimerFires, TxDecided, AskFromLoop, Ask, scanVars
<1>5. CASE LookBeforeStart \/ StartTransmit \/ RssiLoopEnds \/ RssiReturns
  BY <1>5 DEF LookBeforeStart, StartTransmit, RssiLoopEnds, RssiReturns, scanVars
<1>6. CASE Pass
  BY <1>6 DEF Pass, ProcessTx, TxDoneCallback, Callback, Ask, ProcessScan, ScanDoneCallback,
     ClearInterface, ProcessPending, EndPass, scanVars
<1> QED BY <1>1, <1>2, <1>3, <1>4, <1>5, <1>6 DEF Next, Started

\* Where no scan goes on none is refused for a counter that was not read down.
LEMMA ScanBegins ==
    ASSUME ScanHasOwner, NEW mode, NEW s \in ScanStarts(mode), ScanBecomes(s),
           sEnergyScanStatus = "idle", ~refused'
    PROVE  /\ s.error = FALSE /\ sEnergyScanStatus' = "inProgress" /\ sEnergyScanMode' = mode
           /\ rail_timer'
<1>1. sScanFrameCounter = 0
  BY DEF ScanHasOwner
<1> QED BY <1>1, ScanOutcomes, Zenon

LEMMA TimerKeepsOrder ==
    ASSUME Typed, Regular, Ordered, TimerFires, ~refused, ~refused' PROVE Ordered'
<1> USE DEF Ordered, TimerFires, ReadingsLeft, ScanResult, txVars, loopVars
<1>1. ScanHasOwner'
  BY DEF ScanHasOwner, LooksAreTrue, Scanning, Regular, Typed, TypeOK
<1>2. LooksAreTrue'
  BY DEF ScanHasOwner, LooksAreTrue, Scanning, Regular, Typed, TypeOK
<1>3. KindsMatch'
  BY DEF ScanHasOwner, LooksAreTrue, KindsMatch, Scanning, Places, HostAt, KindAt
<1>4. HeldOnce'
  BY DEF ScanHasOwner, LooksAreTrue, HeldOnce, Waits, KindsMatch, Scanning, Places, HostAt,
     InQueue, Starting, Transmits, Scans
<1> QED BY <1>1, <1>2, <1>3, <1>4

LEMMA TxDecidedKeepsOrder ==
    ASSUME Typed, Regular, Ordered, TxDecided, ~refused, ~refused' PROVE Ordered'
<1> USE DEF Ordered, TxDecided, scanVars, loopVars
<1>1. ScanHasOwner'
  BY DEF ScanHasOwner, LooksAreTrue, Scanning, Regular, Typed, TypeOK
<1>2. LooksAreTrue'
  BY DEF ScanHasOwner, LooksAreTrue, Scanning, Regular, Typed, TypeOK
<1>3. KindsMatch'
  BY DEF ScanHasOwner, LooksAreTrue, KindsMatch, Scanning, Places, HostAt, KindAt
<1>4. HeldOnce'
  BY DEF ScanHasOwner, LooksAreTrue, HeldOnce, Waits, KindsMatch, Scanning, Places, HostAt,
     InQueue, Starting, Transmits, Scans
<1> QED BY <1>1, <1>2, <1>3, <1>4

LEMMA LoopEndKeepsOrder ==
    ASSUME Typed, Regular, Ordered, RssiLoopEnds, ~refused, ~refused' PROVE Ordered'
<1> USE DEF Ordered, RssiLoopEnds, Go, scanVars, txVars
<1>1. ScanHasOwner'
  BY DEF ScanHasOwner, LooksAreTrue, Scanning, Regular, Typed, TypeOK
<1>2. LooksAreTrue'
  BY DEF ScanHasOwner, LooksAreTrue, Scanning, Regular, Typed, TypeOK
<1>3. KindsMatch'
  BY DEF ScanHasOwner, LooksAreTrue, KindsMatch, Scanning, Places, HostAt, KindAt
<1>4. HeldOnce'
  BY DEF ScanHasOwner, LooksAreTrue, HeldOnce, Waits, KindsMatch, Scanning, Places, HostAt,
     InQueue, Starting, Transmits, Scans
<1> QED BY <1>1, <1>2, <1>3, <1>4

LEMMA ReturnKeepsOrder ==
    ASSUME Typed, Regular, Ordered, RssiReturns, ~refused, ~refused' PROVE Ordered'
<1> USE DEF Ordered, RssiReturns, AfterRssi, Go, txVars
<1>1. ScanHasOwner'
  BY DEF ScanHasOwner, LooksAreTrue, Scanning, Regular, Typed, TypeOK
<1>2. LooksAreTrue'
  BY DEF ScanHasOwner, LooksAreTrue, Scanning, Regular, Typed, TypeOK
<1>3. KindsMatch'
  BY DEF ScanHasOwner, LooksAreTrue, KindsMatch, Scanning, Places, HostAt, KindAt
<1>4. HeldOnce'
  BY DEF ScanHasOwner, LooksAreTrue, HeldOnce, Waits, KindsMatch, Scanning, Places, HostAt,
     InQueue, Starting, Transmits, Scans
<1> QED BY <1>1, <1>2, <1>3, <1>4

LEMMA ClearKeepsOrder ==
    ASSUME Typed, Regular, Ordered, ClearInterface, ~refused, ~refused' PROVE Ordered'
<1> USE DEF Ordered, ClearInterface, scanVars, txVars
<1>1. ScanHasOwner'
  BY DEF ScanHasOwner, LooksAreTrue, Scanning, Regular, Typed, TypeOK
<1>2. LooksAreTrue'
  BY DEF ScanHasOwner, LooksAreTrue, Scanning, Regular, Typed, TypeOK
<1>3. KindsMatch'
  BY DEF ScanHasOwner, LooksAreTrue, KindsMatch, Scanning, Places, HostAt, KindAt
<1>4. HeldOnce'
  BY DEF ScanHasOwner, LooksAreTrue, HeldOnce, Waits, KindsMatch, Scanning, Places, HostAt,
     InQueue, Starting, Transmits, Scans
<1> QED BY <1>1, <1>2, <1>3, <1>4

LEMMA EndKeepsOrder ==
    ASSUME Typed, Regular, Ordered, EndPass, ~refused, ~refused' PROVE Ordered'
<1> USE DEF Ordered, EndPass, Go, scanVars, txVars
<1>1. ScanHasOwner'
  BY DEF ScanHasOwner, LooksAreTrue, Scanning, Regular, Typed, TypeOK
<1>2. LooksAreTrue'
  BY DEF ScanHasOwner, LooksAreTrue, Scanning, Regular, Typed, TypeOK
<1>3. KindsMatch'
  BY DEF ScanHasOwner, LooksAreTrue, KindsMatch, Scanning, Places, HostAt, KindAt
<1>4. HeldOnce'
  BY DEF ScanHasOwner, LooksAreTrue, HeldOnce, Waits, KindsMatch, Scanning, Places, HostAt,
     InQueue, Starting, Transmits, Scans
<1> QED BY <1>1, <1>2, <1>3, <1>4

\* A host that asks has nothing going on; without MultiPan it is the only one.
LEMMA AskKeepsOrder ==
    ASSUME Typed, Regular, Ordered, NEW h \in Hosts, NEW back \in {"idle", "scan"}, Ask(h, back),
           pc \in {"idle", "txDone"}
    PROVE  Ordered'
<1>1. PICK k \in Kinds : /\ cmd' = [host |-> h, kind |-> k]
                         /\ waiting' = [waiting EXCEPT ![h] = k]
  BY DEF Ask
<1>2. ~InQueue(h) /\ ~Starting(h) /\ ~Transmits(h) /\ ~Scans(h)
  BY IdleHost DEF Ask, Waits, Kinds
<1>3. ~MultiPan => tx = "none" /\ ~Scanning
  BY <1>2 DEF Regular, Ordered, KindsMatch, ScanHasOwner, Transmits, Scans
<1>4. /\ pc' = IF MultiPan THEN "look" ELSE "start"
      /\ ret' = back /\ look' = 0 /\ cmd'.host = h /\ cmd'.kind = k
      /\ waiting' \in [Hosts -> Kinds \cup {"none", "dropped"}]
      /\ \A x \in Hosts : waiting'[x] = IF x = h THEN k ELSE waiting[x]
      /\ UNCHANGED <<sEnergyScanStatus, sEnergyScanMode, sScanFrameCounter, rail_timer,
                     sEnergyScanActiveInterface, sPendingCommandQueue, tx, txHost, wrong>>
  BY <1>1 DEF Ask, Typed, TypeOK, scanVars, txVars
<1>5. ScanHasOwner'
  BY <1>4 DEF Ordered, ScanHasOwner, Scanning
<1>6. LooksAreTrue'
  BY <1>3, <1>4 DEF Ordered, LooksAreTrue, Scanning
<1>7. KindsMatch'
  BY <1>2, <1>4, PlacesHoldCommands DEF Ordered, KindsMatch, ScanHasOwner, Scanning, Places,
     HostAt,
     KindAt, InQueue, Transmits, Scans, Typed
<1>8. HeldOnce'
  BY <1>2, <1>4 DEF Ordered, HeldOnce, Waits, Scanning, Places, HostAt, InQueue, Starting,
     Transmits, Scans
<1> QED BY <1>4, <1>5, <1>6, <1>7, <1>8 DEF Ordered

LEMMA TxDoneKeepsOrder ==
    ASSUME Typed, Regular, Ordered, TxDoneCallback
    PROVE  Ordered'
<1>1. CASE txHost \in Hosts /\ Ask(txHost, "scan")
  BY <1>1, AskKeepsOrder DEF TxDoneCallback, Callback
<1>2. CASE Go("scan") /\ UNCHANGED <<scanVars, sEnergyScanActiveInterface, sPendingCommandQueue,
                                     txVars, waiting, wrong>>
  BY <1>2 DEF TxDoneCallback, Callback, Go, scanVars, txVars, Ordered, ScanHasOwner,
     LooksAreTrue,
     KindsMatch, HeldOnce, Waits, Scanning, Places, HostAt, KindAt, InQueue, Starting, Transmits, Scans
<1> QED BY <1>1, <1>2 DEF TxDoneCallback, Callback, Typed, TypeOK

\* otPlatRadioGetRssi takes the scan only when it is free.
LEMMA GetRssiKeepsOrder ==
    ASSUME Typed, Regular, Ordered, GetRssi, ~refused'
    PROVE  Ordered'
<1>1. PICK s \in ScanStarts("sync") : ScanBecomes(s) /\ Go(IF s.error THEN "idle" ELSE "rssi")
  BY DEF GetRssi
<1>2. UNCHANGED <<sEnergyScanActiveInterface, sPendingCommandQueue, tx, txHost, waiting, wrong,
                  ret, cmd, look>>
  BY <1>1 DEF GetRssi, Go, txVars
<1>3. CASE sEnergyScanStatus # "idle"
  <2>1. UNCHANGED <<sEnergyScanStatus, sEnergyScanMode, sScanFrameCounter, rail_timer>> /\ pc' = pc
    BY <1>1, <1>3, ScanOutcomes DEF GetRssi, Go, scanVars
  <2> QED BY <1>2, <2>1 DEF Ordered, ScanHasOwner, LooksAreTrue, KindsMatch, HeldOnce, Waits,
             Scanning, Places,
             HostAt, KindAt, InQueue, Starting, Transmits, Scans
<1>4. CASE sEnergyScanStatus = "idle"
  <2>1. /\ sEnergyScanStatus' = "inProgress" /\ sEnergyScanMode' = "sync" /\ rail_timer'
        /\ pc' = "rssi" /\ pc = "idle"
    BY <1>1, <1>4, ScanBegins DEF GetRssi, Go, Ordered
  <2> QED BY <1>2, <1>4, <2>1 DEF Ordered, ScanHasOwner, LooksAreTrue, KindsMatch, HeldOnce, Waits,
             Scanning,
             Places, HostAt, KindAt, InQueue, Starting, Transmits, Scans
<1> QED BY <1>3, <1>4

\* The queue has one place for each host, and the host of the command at hand
\* has none in it: there is room.
LEMMA RoomForCommand ==
    ASSUME Typed, Ordered, pc = "look"
    PROVE  ~QueueIsFull
<1> DEFINE others == Hosts \ {cmd.host}
           f == [i \in Places |-> HostAt(i)]
<1>1. cmd.host \in Hosts
  BY DEF Typed, CmdInHand, Command
<1>2. IsFiniteSet(others) /\ Cardinality(others) = Cardinality(Hosts) - 1
  BY <1>1, BuildAssumption, FS_RemoveElement
<1>3. \A i \in Places : HostAt(i) \in others
  BY <1>1, PlacesHoldCommands DEF Typed, Ordered, HeldOnce, Waits, InQueue, Starting
<1>4. f \in [Places -> others]
  BY <1>3
<1>5. IsFiniteSet(Places) /\ Cardinality(Places) = Len(sPendingCommandQueue)
  <2>1. Len(sPendingCommandQueue) \in Nat
    BY PlacesHoldCommands DEF Typed
  <2> QED BY <2>1, FS_Interval DEF Places
<1>6. ~(Cardinality(others) < Cardinality(Places))
  <2> SUFFICES ASSUME Cardinality(others) < Cardinality(Places) PROVE FALSE
    OBVIOUS
  <2>1. \E x, y \in Places : x # y /\ f[x] = f[y]
    <3> HIDE DEF others, f
    <3> QED BY <1>2, <1>4, <1>5, FS_PigeonHole
  <2> QED BY <2>1 DEF Ordered, HeldOnce, Waits
<1> QED BY <1>2, <1>5, <1>6, HostsCounted, PlacesHoldCommands DEF QueueIsFull, Typed

LEMMA LookKeepsOrder ==
    ASSUME Typed, Regular, Ordered, LookBeforeStart
    PROVE  Ordered'
<1>1. /\ pc = "look"
      /\ UNCHANGED <<sEnergyScanStatus, sEnergyScanMode, sScanFrameCounter, rail_timer,
                     sEnergyScanActiveInterface, tx, txHost, waiting, ret, cmd>>
  BY DEF LookBeforeStart, Go, LookOn, scanVars, txVars
<1>2. CASE LooksOn /\ LookOn /\ UNCHANGED <<sPendingCommandQueue, wrong>>
  <2>1. ScanHasOwner' /\ KindsMatch' /\ HeldOnce'
    BY <1>1, <1>2 DEF LookOn, Ordered, ScanHasOwner, KindsMatch, HeldOnce, Waits, Scanning, Places,
       HostAt,
       KindAt, InQueue, Starting, Transmits, Scans
  <2>2. look' = look + 1 /\ look \in {0, 1} /\ pc' = pc
    BY <1>2 DEF LooksOn, LookOn, Typed, TypeOK
  <2>3. look = 0 => sEnergyScanStatus = "idle"
    BY <1>2 DEF LooksOn, FoundBusy
  <2>4. look = 1 => tx # "ongoing"
    BY <1>2 DEF LooksOn, FoundBusy, FlagReads
  <2>5. LooksAreTrue'
    BY <1>1, <1>2, <2>2, <2>3, <2>4 DEF Ordered, LooksAreTrue, Scanning
  <2> QED BY <1>2, <2>1, <2>5 DEF Ordered
<1>3. CASE /\ sPendingCommandQueue' = IF QueueIsFull THEN sPendingCommandQueue ELSE Pushed
           /\ Note("queueOverflow", QueueIsFull) /\ Go(ret)
  <2>1. /\ sPendingCommandQueue' = Append(sPendingCommandQueue, cmd)
        /\ wrong' = {} /\ pc' = ret /\ look' = look /\ pc' \in {"idle", "scan", "end"}
    BY <1>1, <1>3, RoomForCommand DEF Pushed, Note, Go, Ordered, ScanHasOwner, Typed, TypeOK
  <2>2. /\ Len(sPendingCommandQueue) \in Nat /\ cmd.host \in Hosts
        /\ Len(sPendingCommandQueue') = Len(sPendingCommandQueue) + 1
        /\ \A i \in 1..Len(sPendingCommandQueue) : sPendingCommandQueue'[i] = sPendingCommandQueue[i]
        /\ sPendingCommandQueue'[Len(sPendingCommandQueue) + 1] = cmd
    <3>1. cmd \in Command /\ sPendingCommandQueue \in Seq(Command)
      BY <1>1 DEF Typed, CmdInHand, TypeOK
    <3> QED BY <2>1, <3>1, QueueGrows, PlacesHoldCommands DEF Typed, Command
  <2>3. /\ \A i \in Places' : \/ i \in Places /\ HostAt(i)' = HostAt(i) /\ KindAt(i)' = KindAt(i)
                              \/ /\ i = Len(sPendingCommandQueue) + 1
                                 /\ HostAt(i)' = cmd.host /\ KindAt(i)' = cmd.kind
        /\ \A i \in Places : i \in Places' /\ HostAt(i)' = HostAt(i)
        /\ Len(sPendingCommandQueue) + 1 \in Places'
    BY <2>2 DEF Places, HostAt, KindAt
  <2>4. ScanHasOwner' /\ LooksAreTrue'
    BY <1>1, <2>1 DEF Ordered, ScanHasOwner, LooksAreTrue, Scanning
  <2>5. KindsMatch'
    BY <1>1, <2>1, <2>3 DEF Ordered, KindsMatch, Scanning
  <2>6. \A h \in Hosts : InQueue(h)' <=> InQueue(h) \/ Starting(h)
    <3>1. \A h \in Hosts : InQueue(h)' => InQueue(h) \/ Starting(h)
      BY <1>1, <2>3 DEF InQueue, Starting
    <3>2. \A h \in Hosts : InQueue(h) => InQueue(h)'
      BY <2>3 DEF InQueue
    <3>3. \A h \in Hosts : Starting(h) => InQueue(h)'
      <4>1. PICK n \in Places' : n = Len(sPendingCommandQueue) + 1
        BY <2>3
      <4>2. HostAt(n)' = cmd.host
        BY <2>2, <4>1 DEF HostAt
      <4> QED BY <4>1, <4>2 DEF InQueue, Starting
    <3> QED BY <3>1, <3>2, <3>3
  <2>7. \A h \in Hosts : ~Starting(h)' /\ (Transmits(h)' <=> Transmits(h)) /\ (Scans(h)' <=> Scans(h))
    BY <1>1, <2>1 DEF Starting, Transmits, Scans, Scanning
  <2>8. \A i, j \in Places' : HostAt(i)' = HostAt(j)' => i = j
    BY <1>1, <2>2, <2>3 DEF Ordered, HeldOnce, Waits, InQueue, Starting
  <2>9. HeldOnce'
    BY <1>1, <2>6, <2>7, <2>8 DEF Ordered, HeldOnce, Waits
  <2> QED BY <2>1, <2>4, <2>5, <2>9 DEF Ordered
<1>4. CASE ~FoundBusy /\ look = 2 /\ Go("start") /\ UNCHANGED <<sPendingCommandQueue, wrong>>
  <2>1. tx = "none"
    BY <1>1, <1>4 DEF FoundBusy, FlagReads, Ordered, LooksAreTrue, Typed, TypeOK
  <2>2. MultiPan
    BY <1>1 DEF Ordered, LooksAreTrue
  <2> QED BY <1>1, <1>4, <2>1, <2>2 DEF Go, Ordered, ScanHasOwner, LooksAreTrue, KindsMatch,
             HeldOnce, Waits,
             Scanning, Places, HostAt, KindAt, InQueue, Starting, Transmits, Scans
<1> QED BY <1>2, <1>3, <1>4 DEF LookBeforeStart

LEMMA ScanDoneKeepsOrder ==
    ASSUME Typed, Regular, Ordered, ScanDoneCallback
    PROVE  Ordered'
<1>1. /\ pc = "scanDone" /\ Go("clear")
      /\ UNCHANGED <<sEnergyScanStatus, sEnergyScanMode, sScanFrameCounter, rail_timer,
                     sEnergyScanActiveInterface, sPendingCommandQueue, tx, txHost, waiting, wrong>>
  BY DEF ScanDoneCallback, Callback, Regular, scanVars, txVars
<1> QED BY <1>1 DEF Go, Ordered, ScanHasOwner, LooksAreTrue, KindsMatch, HeldOnce, Waits, Scanning,
           Places,
           HostAt, KindAt, InQueue, Starting, Transmits, Scans

\* A frame that fails before it starts takes its host off the waiting ones.
LEMMA TransmitKeepsOrder ==
    ASSUME Typed, Regular, Ordered, StartTransmit
    PROVE  Ordered'
<1>1. /\ pc = "start" /\ cmd.kind = "transmit" /\ cmd.host \in Hosts
      /\ tx = "none" /\ ~Scanning
      /\ pc' = ret /\ pc' \in {"idle", "scan", "end"}
      /\ UNCHANGED <<sEnergyScanStatus, sEnergyScanMode, sScanFrameCounter, rail_timer, ret, cmd, look,
                     sEnergyScanActiveInterface, sPendingCommandQueue>>
  BY DEF StartTransmit, Go, scanVars, Typed, TypeOK, CmdInHand, Command, Ordered,
     ScanHasOwner,
     LooksAreTrue
<1>2. CASE waiting' = ErrorReturned /\ UNCHANGED <<txVars, wrong>>
  <2>1. tx' = tx /\ wrong' = {}
    BY <1>2 DEF txVars, Ordered
  <2>2. ScanHasOwner' /\ LooksAreTrue'
    BY <1>1, <2>1 DEF Ordered, ScanHasOwner, LooksAreTrue, Scanning
  <2>3. \A x \in Hosts : IF x = cmd.host THEN waiting'[x] \in {"none", "dropped"}
                         ELSE waiting'[x] = waiting[x]
    BY <1>2 DEF ErrorReturned, Typed, TypeOK
  <2>4. ~InQueue(cmd.host)
    BY <1>1 DEF Ordered, HeldOnce, Waits, Starting
  <2>5. KindsMatch'
    BY <1>1, <2>1, <2>3, <2>4, PlacesHoldCommands DEF Ordered, KindsMatch, Scanning, Places,
       HostAt, KindAt, InQueue, Typed
  <2>6. \A h \in Hosts : /\ InQueue(h)' <=> InQueue(h)
                         /\ ~Starting(h)' /\ ~Transmits(h)' /\ ~Scans(h)'
                         /\ Waits(h)' => Waits(h) /\ h # cmd.host
    BY <1>1, <2>1, <2>3 DEF InQueue, Places, HostAt, Starting, Transmits, Scans, Scanning,
       Waits, Kinds
  <2>7. \A h \in Hosts : Waits(h)' => InQueue(h)'
    BY <1>1, <2>6 DEF Ordered, HeldOnce, Waits, Starting, Transmits, Scans
  <2>8. \A i, j \in Places' : HostAt(i)' = HostAt(j)' => i = j
    BY <1>1 DEF Ordered, HeldOnce, Waits, Places, HostAt
  <2>9. HeldOnce'
    BY <2>6, <2>7, <2>8 DEF HeldOnce, Waits
  <2> QED BY <2>1, <2>2, <2>5, <2>9 DEF Ordered
<1>3. CASE /\ Note("transmissionOngoing", tx = "ongoing") /\ tx' \in {"ongoing", "decided"}
           /\ txHost' = cmd.host /\ UNCHANGED waiting
  <2>1. tx' # "none" /\ wrong' = {}
    BY <1>1, <1>3 DEF Note, Ordered
  <2>2. ScanHasOwner' /\ LooksAreTrue'
    BY <1>1, <1>3 DEF Ordered, ScanHasOwner, LooksAreTrue, Scanning
  <2>3. KindsMatch'
    BY <1>1, <1>3 DEF Ordered, KindsMatch, Scanning, Places, HostAt, KindAt
  <2>4. HeldOnce'
    BY <1>1, <1>3, <2>1 DEF Ordered, HeldOnce, Scanning, Places, HostAt, InQueue, Starting,
       Transmits, Scans, Waits
  <2> QED BY <2>1, <2>2, <2>3, <2>4 DEF Ordered
<1> QED BY <1>2, <1>3 DEF StartTransmit

LEMMA ScanKeepsOrder ==
    ASSUME Typed, Regular, Ordered, StartScan, ~refused'
    PROVE  Ordered'
<1>1. PICK s \in ScanStarts("async") :
          /\ ScanBecomes(s)
          /\ waiting' = IF s.error /\ ret # "end"
                        THEN [waiting EXCEPT ![cmd.host] = "none"] ELSE waiting
  BY DEF StartScan
<1>2. pc = "start" /\ cmd.kind = "scan" /\ cmd.host \in Hosts /\ tx = "none"
      /\ sEnergyScanStatus = "idle"
  BY DEF StartScan, Typed, TypeOK, CmdInHand, Command, Ordered, ScanHasOwner, LooksAreTrue,
     Scanning
<1>3. /\ s.error = FALSE /\ sEnergyScanStatus' = "inProgress" /\ sEnergyScanMode' = "async"
      /\ rail_timer'
  BY <1>1, <1>2, ScanBegins DEF Ordered
<1>4. waiting' = waiting
  BY <1>1, <1>3
<1>5. /\ pc' = ret /\ pc' \in {"idle", "scan", "end"} /\ sEnergyScanActiveInterface' = cmd.host
      /\ UNCHANGED <<ret, cmd, look, sPendingCommandQueue, tx, txHost, wrong>>
  BY DEF StartScan, ScanInterface, Go, txVars, Typed, TypeOK, Ordered, ScanHasOwner
<1>6. ScanHasOwner' /\ LooksAreTrue'
  BY <1>2, <1>3, <1>5 DEF Ordered, ScanHasOwner, LooksAreTrue, Scanning
<1>7. KindsMatch'
  BY <1>2, <1>3, <1>4, <1>5 DEF Ordered, KindsMatch, Scanning, Places, HostAt, KindAt
<1>8. HeldOnce'
  BY <1>2, <1>3, <1>4, <1>5 DEF Ordered, HeldOnce, Waits, Scanning, Places, HostAt, InQueue, Starting,
     Transmits, Scans
<1> QED BY <1>5, <1>6, <1>7, <1>8 DEF Ordered

\* The host of a transmission or a scan waits for it, and for nothing more then.
LEMMA AnswerIsExpected ==
    ASSUME Typed, Ordered, NEW h \in Hosts, NEW kind \in Kinds, waiting[h] = kind, Answer(h, kind)
    PROVE  wrong' = {} /\ \A x \in Hosts : waiting'[x] = IF x = h THEN "none" ELSE waiting[x]
BY BuildAssumption DEF Answer, Ordered

LEMMA ReportTxKeepsOrder ==
    ASSUME Typed, Regular, Ordered, ProcessTx
    PROVE  Ordered'
<1>1. /\ pc = "idle"
      /\ UNCHANGED <<sEnergyScanStatus, sEnergyScanMode, sScanFrameCounter, rail_timer,
                     sEnergyScanActiveInterface, sPendingCommandQueue, txHost, ret, cmd, look>>
  BY DEF ProcessTx, Go, scanVars
<1>2. CASE tx = "decided"
  <2>1. /\ txHost \in Hosts /\ waiting[txHost] = "transmit"
        /\ tx' = "none" /\ pc' = "txDone" /\ Answer(txHost, "transmit")
    BY <1>2 DEF ProcessTx, Go, Ordered, KindsMatch
  <2>2. wrong' = {} /\ \A x \in Hosts : waiting'[x] = IF x = txHost THEN "none" ELSE waiting[x]
    BY <2>1, AnswerIsExpected DEF Kinds
  <2>3. ~InQueue(txHost) /\ ~Scans(txHost)
    BY <1>2, <2>1 DEF Ordered, HeldOnce, Waits, KindsMatch, Transmits, Scans
  <2>4. ScanHasOwner' /\ LooksAreTrue'
    BY <1>1, <2>1 DEF Ordered, ScanHasOwner, LooksAreTrue, Scanning
  <2>5. KindsMatch'
    BY <1>1, <2>1, <2>2, <2>3, PlacesHoldCommands DEF Ordered, KindsMatch, ScanHasOwner,
       Scanning,
       Places, HostAt, KindAt, InQueue, Scans, Typed
  <2>6. HeldOnce'
    BY <1>1, <2>1, <2>2 DEF Ordered, HeldOnce, Waits, Kinds, Scanning, Places, HostAt, InQueue, Starting,
       Transmits, Scans
  <2> QED BY <2>2, <2>4, <2>5, <2>6 DEF Ordered
<1>3. CASE tx # "decided"
  <2>1. pc' = "scan" /\ UNCHANGED <<tx, waiting, wrong>>
    BY <1>3 DEF ProcessTx, Go
  <2> QED BY <1>1, <2>1 DEF Ordered, ScanHasOwner, LooksAreTrue, KindsMatch, HeldOnce, Waits,
             Scanning, Places,
             HostAt, KindAt, InQueue, Starting, Transmits, Scans
<1> QED BY <1>2, <1>3

LEMMA ReportScanKeepsOrder ==
    ASSUME Typed, Regular, Ordered, ProcessScan
    PROVE  Ordered'
<1>1. /\ pc = "scan"
      /\ UNCHANGED <<sEnergyScanMode, sScanFrameCounter, rail_timer, sEnergyScanActiveInterface,
                     sPendingCommandQueue, tx, txHost, ret, cmd>>
  BY DEF ProcessScan, Go, txVars
<1>2. CASE ScanIsDone
  <2> DEFINE h == sEnergyScanActiveInterface
  <2>1. /\ h \in Hosts /\ waiting[h] = "scan" /\ Scanning /\ sEnergyScanStatus = "completed"
        /\ sEnergyScanStatus' = "idle" /\ pc' = "scanDone" /\ look' = look
        /\ Answer(h, "scan")
    BY <1>2 DEF ProcessScan, ScanIsDone, Go, Ordered, KindsMatch, ScanHasOwner, Scanning
  <2>2. wrong' = {} /\ \A x \in Hosts : waiting'[x] = IF x = h THEN "none" ELSE waiting[x]
    BY <2>1, AnswerIsExpected DEF Kinds
  <2>3. ~InQueue(h) /\ ~Transmits(h)
    BY <2>1 DEF Ordered, HeldOnce, Waits, KindsMatch, Transmits, Scans
  <2>4. ScanHasOwner' /\ LooksAreTrue'
    BY <1>1, <2>1 DEF Ordered, ScanHasOwner, LooksAreTrue, Scanning
  <2>5. KindsMatch'
    BY <1>1, <2>1, <2>2, <2>3, PlacesHoldCommands DEF Ordered, KindsMatch, Scanning,
       Places, HostAt, KindAt, InQueue, Transmits, Typed
  <2>6. HeldOnce'
    BY <1>1, <2>1, <2>2 DEF Ordered, HeldOnce, Waits, Kinds, Scanning, Places, HostAt, InQueue, Starting,
       Transmits, Scans
  <2> QED BY <2>2, <2>4, <2>5, <2>6 DEF Ordered
<1>3. CASE ~ScanIsDone
  <2>1. pc' = "pending" /\ look' = 0 /\ UNCHANGED <<sEnergyScanStatus, waiting, wrong>>
    BY <1>3 DEF ProcessScan
  <2> QED BY <1>1, <2>1 DEF Ordered, ScanHasOwner, LooksAreTrue, KindsMatch, HeldOnce, Waits,
             Scanning, Places,
             HostAt, KindAt, InQueue, Starting, Transmits, Scans
<1> QED BY <1>2, <1>3

LEMMA PendingKeepsOrder ==
    ASSUME Typed, Regular, Ordered, ProcessPending
    PROVE  Ordered'
<1>1. /\ pc = "pending"
      /\ UNCHANGED <<sEnergyScanStatus, sEnergyScanMode, sScanFrameCounter, rail_timer,
                     sEnergyScanActiveInterface, tx, txHost, waiting, wrong>>
  BY DEF ProcessPending, scanVars, txVars
<1>2. CASE Go("idle") /\ UNCHANGED sPendingCommandQueue
  BY <1>1, <1>2 DEF Go, Ordered, ScanHasOwner, LooksAreTrue, KindsMatch, HeldOnce, Waits, Scanning,
     Places,
     HostAt, KindAt, InQueue, Starting, Transmits, Scans
<1>3. CASE LooksOn /\ LookOn /\ UNCHANGED sPendingCommandQueue
  <2>1. look' = look + 1 /\ look \in {0, 1} /\ UNCHANGED <<pc, ret, cmd>>
    BY <1>3 DEF LooksOn, LookOn, Typed, TypeOK
  <2>2. look = 1 => tx # "ongoing"
    BY <1>3 DEF LooksOn, FoundBusy, FlagReads
  <2> QED BY <1>1, <1>3, <2>1, <2>2 DEF Ordered, ScanHasOwner, LooksAreTrue, KindsMatch,
             HeldOnce, Waits,
             Scanning, Places, HostAt, KindAt, InQueue, Starting, Transmits, Scans
<1>4. CASE /\ MultiPan /\ sPendingCommandQueue # <<>>
           /\ cmd' = Head(sPendingCommandQueue) /\ sPendingCommandQueue' = Removed
           /\ pc' = "look" /\ look' = 0 /\ ret' = "end"
  <2>1. /\ Len(sPendingCommandQueue) \in Nat /\ Len(sPendingCommandQueue) >= 1
        /\ cmd' = sPendingCommandQueue[1]
        /\ Len(sPendingCommandQueue') = Len(sPendingCommandQueue) - 1
        /\ \A i \in 1..Len(sPendingCommandQueue') :
              sPendingCommandQueue'[i] = sPendingCommandQueue[i + 1]
    BY <1>4, QueueShrinks DEF Removed, Typed, TypeOK
  <2>2. /\ \A i \in Places' : i + 1 \in Places /\ HostAt(i)' = HostAt(i + 1)
                              /\ KindAt(i)' = KindAt(i + 1)
        /\ \A i \in Places : i # 1 => i - 1 \in Places' /\ HostAt(i - 1)' = HostAt(i)
        /\ 1 \in Places /\ cmd'.host = HostAt(1) /\ cmd'.kind = KindAt(1)
    BY <2>1 DEF Places, HostAt, KindAt
  <2>3. ScanHasOwner' /\ LooksAreTrue'
    BY <1>1, <1>4 DEF Ordered, ScanHasOwner, LooksAreTrue, Scanning
  <2>4. KindsMatch'
    BY <1>1, <2>2 DEF Ordered, KindsMatch, Scanning
  <2>5. \A i, j \in Places' : HostAt(i)' = HostAt(j)' => i = j
    <3> SUFFICES ASSUME NEW i \in Places', NEW j \in Places', HostAt(i)' = HostAt(j)' PROVE i = j
      OBVIOUS
    <3>1. i + 1 = j + 1
      BY <2>2 DEF Ordered, HeldOnce, Waits
    <3> QED BY <3>1, <2>1 DEF Places
  <2>6. \A h \in Hosts : /\ InQueue(h)' => InQueue(h)
                         /\ Starting(h)' => InQueue(h) /\ ~InQueue(h)'
                         /\ InQueue(h) => InQueue(h)' \/ Starting(h)'
    <3> TAKE h \in Hosts
    <3>1. InQueue(h)' => InQueue(h)
      BY <2>2 DEF InQueue
    <3>2. Starting(h)' => InQueue(h)
      BY <2>2 DEF InQueue, Starting
    <3>3. ASSUME Starting(h)', InQueue(h)' PROVE FALSE
      <4>1. PICK i \in Places' : HostAt(i)' = h
        BY <3>3 DEF InQueue
      <4>2. HostAt(i + 1) = HostAt(1) /\ i + 1 \in Places
        BY <2>2, <3>3, <4>1 DEF Starting
      <4>3. i + 1 = 1
        BY <2>2, <4>2 DEF Ordered, HeldOnce, Waits
      <4> QED BY <4>3 DEF Places
    <3>4. ASSUME InQueue(h) PROVE InQueue(h)' \/ Starting(h)'
      <4>1. PICK i \in Places : HostAt(i) = h
        BY <3>4 DEF InQueue
      <4> QED BY <1>4, <2>2, <4>1 DEF InQueue, Starting
    <3> QED BY <3>1, <3>2, <3>3, <3>4
  <2>7. \A h \in Hosts : ~Starting(h) /\ (Transmits(h)' <=> Transmits(h)) /\ (Scans(h)' <=> Scans(h))
    BY <1>1 DEF Starting, Transmits, Scans, Scanning
  <2>8. HeldOnce'
    <3>1. \A h \in Hosts : InQueue(h)' => ~Starting(h)' /\ ~Transmits(h)' /\ ~Scans(h)'
      BY <2>6, <2>7 DEF Ordered, HeldOnce, Waits
    <3>2. \A h \in Hosts : Starting(h)' => ~Transmits(h)' /\ ~Scans(h)'
      BY <2>6, <2>7 DEF Ordered, HeldOnce, Waits
    <3>3. \A h \in Hosts : Waits(h)' =>
              InQueue(h)' \/ Starting(h)' \/ Transmits(h)' \/ Scans(h)'
      BY <1>1, <2>6, <2>7 DEF Ordered, HeldOnce, Waits
    <3> QED BY <2>5, <3>1, <3>2, <3>3 DEF HeldOnce, Waits
  <2> QED BY <1>1, <2>3, <2>4, <2>8 DEF Ordered
<1> QED BY <1>2, <1>3, <1>4 DEF ProcessPending

\* What OrderInvariance keeps.
OrderInv == Typed /\ (refused \/ Ordered)

LEMMA OrderAtInit == Init => OrderInv
<1> SUFFICES ASSUME Init PROVE Ordered
  BY TypesHoldAtInit DEF OrderInv
<1>1. Places = {}
  BY DEF Init, Places
<1> QED BY <1>1 DEF Init, Ordered, ScanHasOwner, LooksAreTrue, KindsMatch, HeldOnce, Waits, Kinds,
           Scanning, Starting,
           Transmits, Scans

LEMMA OrderAtStep ==
    ASSUME Regular, OrderInv, [Next]_vars
    PROVE  OrderInv'
<1>1. Typed'
  BY TypesHoldAtStep DEF OrderInv
<1> SUFFICES ASSUME Typed, ~refused, ~refused', Ordered PROVE Ordered'
  BY <1>1, RefusedForGood DEF OrderInv
<1>2. CASE UNCHANGED vars
  BY <1>2 DEF vars, scanVars, txVars, loopVars, Ordered, ScanHasOwner, LooksAreTrue,
     KindsMatch, HeldOnce, Waits,
     Scanning, Places, HostAt, KindAt, InQueue, Starting, Transmits, Scans
<1>3. CASE TimerFires
  BY <1>3, TimerKeepsOrder
<1>4. CASE TxDecided
  BY <1>4, TxDecidedKeepsOrder
<1>5. CASE AskFromLoop
  BY <1>5, AskKeepsOrder DEF AskFromLoop
<1>6. CASE GetRssi
  BY <1>6, GetRssiKeepsOrder
<1>7. CASE LookBeforeStart
  BY <1>7, LookKeepsOrder
<1>8. CASE StartTransmit
  BY <1>8, TransmitKeepsOrder
<1>9. CASE StartScan
  BY <1>9, ScanKeepsOrder
<1>10. CASE RssiLoopEnds
  BY <1>10, LoopEndKeepsOrder
<1>11. CASE RssiReturns
  BY <1>11, ReturnKeepsOrder
<1>12. CASE ProcessTx
  BY <1>12, ReportTxKeepsOrder
<1>13. CASE TxDoneCallback
  BY <1>13, TxDoneKeepsOrder
<1>14. CASE ProcessScan
  BY <1>14, ReportScanKeepsOrder
<1>15. CASE ScanDoneCallback
  BY <1>15, ScanDoneKeepsOrder
<1>16. CASE ClearInterface
  BY <1>16, ClearKeepsOrder
<1>17. CASE ProcessPending
  BY <1>17, PendingKeepsOrder
<1>18. CASE EndPass
  BY <1>18, EndKeepsOrder
<1> QED BY <1>2, <1>3, <1>4, <1>5, <1>6, <1>7, <1>8, <1>9, <1>10, <1>11, <1>12, <1>13,
           <1>14, <1>15, <1>16, <1>17, <1>18 DEF Next, Started, Pass

\* Until RAIL refuses a scan, the scan has an owner, the looks are true, kinds
\* match, and every request that a host still waits for is held once.
THEOREM OrderInvariance == Regular /\ Spec => []OrderInv
<1>1. CASE Regular
  <2>1. OrderInv /\ [Next]_vars => OrderInv'
    BY <1>1, OrderAtStep
  <2> QED BY <2>1, OrderAtInit, PTL DEF Spec
<1>2. CASE ~Regular
  BY <1>2
<1> QED BY <1>1, <1>2

\* The pending queue has room when a command comes, no transmission is ongoing
\* when one starts, and a completed scan has an interface to report to.
THEOREM AssertsHold == Regular /\ Spec => []NoAssertFails
<1>1. OrderInv => NoAssertFails
  BY DEF OrderInv, Ordered, NoAssertFails
<1> QED BY <1>1, OrderInvariance, PTL

\* No host gets an answer it does not wait for.
THEOREM AnswersAreAwaited == Regular /\ Spec => []AnswersMatch
<1>1. OrderInv => AnswersMatch
  BY DEF OrderInv, Ordered, AnswersMatch
<1> QED BY <1>1, OrderInvariance, PTL

\* Where the request of a host is, in the terms of HeldOnce.
LEMMA HoldersOfIdle ==
    ASSUME Typed, Ordered, NEW h \in Hosts, ~Waits(h)
    PROVE  Holders(h) = {}
<1>1. ~InQueue(h) /\ ~Starting(h) /\ ~Transmits(h) /\ ~Scans(h)
  BY IdleHost
<1>2. Queued(h) = {}
  <2>1. \A i \in DOMAIN sPendingCommandQueue :
           sPendingCommandQueue[i] # [host |-> h, kind |-> waiting[h]]
    BY <1>1, LenProperties DEF Typed, TypeOK, InQueue, Places, HostAt
  <2> QED BY <2>1 DEF Queued
<1> QED BY <1>1, <1>2 DEF Holders, Starting, Transmits, Scans, Scanning

LEMMA QueuedOnce ==
    ASSUME Typed, Ordered, NEW h \in Hosts
    PROVE  /\ ~InQueue(h) => Queued(h) = {}
           /\ InQueue(h) => \E i : Queued(h) = {<<"queue", i>>}
<1>1. sPendingCommandQueue \in Seq(Command) /\ DOMAIN sPendingCommandQueue = Places
  BY LenProperties DEF Typed, TypeOK, Places
<1>2. \A i \in Places : sPendingCommandQueue[i] = [host |-> h, kind |-> waiting[h]] <=> HostAt(i) = h
  <2> TAKE i \in Places
  <2>1. sPendingCommandQueue[i] \in Command
    BY PlacesHoldCommands DEF Typed
  <2>2. sPendingCommandQueue[i] = [host |-> HostAt(i), kind |-> KindAt(i)]
    BY <2>1 DEF Command, HostAt, KindAt
  <2>3. KindAt(i) = waiting[HostAt(i)]
    BY DEF Ordered, KindsMatch
  <2> QED BY <2>2, <2>3 DEF HostAt
<1>3. Queued(h) = {<<"queue", i>> : i \in {j \in Places : HostAt(j) = h}}
  BY <1>1, <1>2 DEF Queued
<1>4. ~InQueue(h) => Queued(h) = {}
  BY <1>3 DEF InQueue
<1>5. ASSUME InQueue(h) PROVE \E i : Queued(h) = {<<"queue", i>>}
  <2>1. PICK i \in Places : HostAt(i) = h
    BY <1>5 DEF InQueue
  <2>2. {j \in Places : HostAt(j) = h} = {i}
    BY <2>1 DEF Ordered, HeldOnce, Waits
  <2> QED BY <1>3, <2>2
<1> QED BY <1>4, <1>5

LEMMA HoldersOfWaiting ==
    ASSUME Typed, Ordered, NEW h \in Hosts, Waits(h)
    PROVE  \E x : Holders(h) = {x}
<1>1. InQueue(h) \/ Starting(h) \/ Transmits(h) \/ Scans(h)
  BY DEF Ordered, HeldOnce, Waits
<1>2. ~(Transmits(h) /\ Scans(h))
  BY DEF Ordered, KindsMatch, Transmits, Scans
<1>3. Holders(h) = Queued(h) \cup {x \in {"starting"} : Starting(h)}
                     \cup {x \in {"transmit"} : Transmits(h)} \cup {x \in {"scan"} : Scans(h)}
  BY DEF Holders, Starting, Transmits, Scans, Scanning
<1>4. CASE InQueue(h)
  BY <1>3, <1>4, QueuedOnce DEF Ordered, HeldOnce, Waits
<1>5. CASE Starting(h)
  BY <1>3, <1>5, QueuedOnce DEF Ordered, HeldOnce, Waits
<1>6. CASE Transmits(h)
  <2>1. ~InQueue(h) /\ ~Starting(h) /\ ~Scans(h)
    BY <1>2, <1>6 DEF Ordered, HeldOnce, Waits
  <2> QED BY <1>3, <1>6, <2>1, QueuedOnce
<1>7. CASE Scans(h)
  BY <1>2, <1>3, <1>7, QueuedOnce DEF Ordered, HeldOnce, Waits
<1> QED BY <1>1, <1>4, <1>5, <1>6, <1>7

\* Until RAIL refuses a scan, every request is held in exactly one place from the
\* call until the answer, or until a frame from the queue fails before it starts.
THEOREM EveryRequestHeldOnce == Regular /\ Spec => []AccountedFor
<1>1. OrderInv => AccountedFor
  <2> SUFFICES ASSUME Typed, Ordered, NEW h \in Hosts
               PROVE  Cardinality(Holders(h)) = IF Waits(h) THEN 1 ELSE 0
    BY DEF OrderInv, AccountedFor
  <2>1. CASE ~Waits(h)
    BY <2>1, HoldersOfIdle, FS_EmptySet
  <2>2. CASE Waits(h)
    <3>1. PICK x : Holders(h) = {x}
      BY <2>2, HoldersOfWaiting
    <3> QED BY <2>2, <3>1, FS_Singleton
  <2> QED BY <2>1, <2>2
<1> QED BY <1>1, OrderInvariance, PTL

\* A command stays in the queue only while the radio is really in use: what
\* processPendingCommands reads before it gives up is not out of date.
THEOREM LeftQueuedOnlyWhenBusy == Regular /\ Spec => RefusedOnlyWhenBusy
<1>1. ASSUME OrderInv, [Next]_vars, pc = "pending", pc' = "idle", sPendingCommandQueue # <<>>, ~refused
      PROVE  RadioIsBusy
  <2>1. Ordered /\ Typed
    BY <1>1 DEF OrderInv
  <2>2. ProcessPending
    BY <1>1, <2>1 DEF Next, Started, Pass, vars, loopVars, TimerFires, TxDecided,
       AskFromLoop, GetRssi,
       LookBeforeStart, StartTransmit, StartScan, RssiLoopEnds, RssiReturns, ProcessTx, TxDoneCallback,
       Callback, ProcessScan, ScanDoneCallback, ClearInterface, EndPass
  <2>3. FoundBusy /\ look \in 0..2
    BY <1>1, <2>1, <2>2 DEF ProcessPending, LookOn, Ordered, LooksAreTrue, Typed, TypeOK
  <2>4. CASE look = 0
    <3>1. sEnergyScanStatus # "idle" /\ sEnergyScanMode = "async"
      BY <1>1, <2>1, <2>3, <2>4 DEF FoundBusy, Ordered, ScanHasOwner, Typed, TypeOK
    <3>2. rail_timer \/ sEnergyScanStatus = "completed"
      BY <2>1, <3>1 DEF Ordered, ScanHasOwner, Typed, TypeOK
    <3> QED BY <3>1, <3>2 DEF RadioIsBusy, ScanIsDone
  <2>5. CASE look \in {1, 2}
    BY <2>3, <2>5 DEF FoundBusy, FlagReads, RadioIsBusy
  <2> QED BY <2>3, <2>4, <2>5
<1>2. OrderInv /\ [Next]_vars =>
        [pc = "pending" /\ pc' = "idle" /\ sPendingCommandQueue # <<>> /\ ~refused
           => RadioIsBusy]_vars
  BY <1>1
<1> QED BY <1>2, OrderInvariance, PTL DEF RefusedOnlyWhenBusy, Spec
=============================================================================
